----------------------------- MODULE OrderBook -----------------------------
(***************************************************************************)
(* The production order book of one symbol,                                *)
(* backend/exchange/orderbook/book.py: per side a sorted list of price     *)
(* keys, a FIFO queue per price with lazy deletion and compaction, running *)
(* quantity totals, an order-id index, and a deque of arrivals for lazy    *)
(* expiry.                                                                 *)
(*                                                                         *)
(* Every public method runs under the book's RLock, so one call is in      *)
(* progress at a time.  A call is its first step (take the lock, fix the   *)
(* expiry deadline), one step per iteration of _expire's loop, one per     *)
(* iteration of submit's loop, and a last step that returns.  `call.phase` *)
(* says which loop the call is in.                                         *)
(*                                                                         *)
(* An _Entry object is named by its order's id: an id rests at most once.  *)
(***************************************************************************)
EXTENDS OrderTypes, SequencesExt

CONSTANT CompactMinDead  \* _COMPACT_MIN_DEAD (64 in the code)

ASSUME CompactAssumption == CompactMinDead \in Nat

NoEntry == [remaining |-> 0, sequence |-> 0, restedAt |-> 0, alive |-> FALSE]
EmptyLevel == [queue |-> << >>, quantity |-> 0, dead |-> 0]
EmptySide == [keys |-> << >>, levels |-> << >>, total |-> 0]
NoCall == [op |-> "none", phase |-> "expire", id |-> 0, rem |-> 0,
           trades |-> << >>, deadline |-> 0]

VARIABLES
    issued,        \* orders constructed so far
    order,         \* the immutable Order of each issued id
    entry,         \* the _Entry of each id that ever rested
    sides,         \* _sides: [keys, levels (price -> _Level), total]
    index,         \* domain of _index; the entry is entry[id]
    arrivals,      \* _arrivals
    sequence,      \* _sequence
    recent,        \* _recent_trades, oldest first
    expiredTotal,  \* expired_total
    filled,        \* history: quantity of each order executed so far
    withdrawn,     \* history: quantity of each order canceled or expired
    now,           \* self._clock()
    call           \* the call holding self._lock

orderVars == <<issued, order>>
bookVars == <<entry, sides, index, arrivals, sequence, expiredTotal>>
history == <<filled, withdrawn>>
vars == <<orderVars, bookVars, recent, history, now, call>>

Init ==
    /\ issued = 0
    /\ order = [o \in Ids |-> NoOrder]
    /\ entry = [o \in Ids |-> NoEntry]
    /\ sides = [sd \in Sides |-> EmptySide]
    /\ index = {}
    /\ arrivals = << >>
    /\ sequence = 0
    /\ recent = << >>
    /\ expiredTotal = 0
    /\ filled = [o \in Ids |-> 0]
    /\ withdrawn = [o \in Ids |-> 0]
    /\ now = 0
    /\ call = NoCall

-----------------------------------------------------------------------------
(***************************************************************************)
(* _Side.  S is one side's record, sd which side it is.                    *)
(***************************************************************************)
Key(sd, p) == IF sd = "BUY" THEN -p ELSE p
PriceOf(sd, k) == IF sd = "BUY" THEN -k ELSE k

\* insort goes right of equal keys, bisect_left left of them.
Insort(keys, k) ==
    InsertAt(keys, Cardinality({i \in DOMAIN keys : keys[i] <= k}) + 1, k)
BisectLeft(keys, k) == Cardinality({i \in DOMAIN keys : keys[i] < k}) + 1

DropLevel(S, sd, p) ==
    [S EXCEPT !.keys = RemoveAt(@, BisectLeft(@, Key(sd, p))),
              !.levels = Restrict(@, DOMAIN @ \ {p})]

Add(S, sd, o, p, q) ==
    LET isNew == p \notin DOMAIN S.levels
        level == IF isNew THEN EmptyLevel ELSE S.levels[p]
    IN  [S EXCEPT !.keys = IF isNew THEN Insort(@, Key(sd, p)) ELSE @,
                  !.levels = [x \in DOMAIN @ \cup {p} |->
                                IF x # p THEN @[x]
                                ELSE [level EXCEPT !.queue = Append(@, o),
                                                   !.quantity = @ + q]],
                  !.total = @ + q]

LiveIn(queue) == {i \in DOMAIN queue : entry[queue[i]].alive}
LevelAt(S, sd, i) == S.levels[PriceOf(sd, S.keys[i])]

\* The level without the dead entries at the front of its queue.
PopDead(L) ==
    LET popped == Min(LiveIn(L.queue)) - 1
    IN  [L EXCEPT !.queue = SubSeq(@, popped + 1, Len(@)), !.dead = @ - popped]

\* best(): levels without a live entry are dropped from the front, dead
\* entries are popped from the front of the first level that has a live one.
DropDeadFront(S, sd) ==
    LET live == {i \in DOMAIN S.keys : LiveIn(LevelAt(S, sd, i).queue) # {}} IN
    IF live = {}
    THEN [S EXCEPT !.keys = << >>, !.levels = << >>]
    ELSE LET first == Min(live)
             best == PriceOf(sd, S.keys[first])
             gone == {PriceOf(sd, S.keys[i]) : i \in 1 .. first - 1}
         IN  [S EXCEPT !.keys = SubSeq(@, first, Len(@)),
                       !.levels = [p \in DOMAIN @ \ gone |->
                                     IF p # best THEN @[p] ELSE PopDead(@[p])]]

\* What best() returns, on a side DropDeadFront has cleaned: 0 is None.
Best(S, sd) == IF S.keys = << >> THEN 0 ELSE Head(LevelAt(S, sd, 1).queue)

\* The quantity leaves the level's and the side's running totals.
Shrink(S, p, q) == [S EXCEPT !.levels[p].quantity = @ - q, !.total = @ - q]

\* Faulty variant: a level goes only when its queue is empty.
IsEmptiedByQueue(L) == L.queue = << >>

\* A level without quantity is dropped: what is left in its queue is dead.
IsEmptied(L) == L.quantity = 0

\* left is the maker's remaining quantity before the fill.
FillBest(S, sd, p, q, left) ==
    LET shrunk == Shrink(S, p, q)
        popped == [shrunk EXCEPT !.levels[p].queue = Tail(@)]
    IN  IF left > q THEN shrunk
        ELSE IF IsEmptied(popped.levels[p]) THEN DropLevel(popped, sd, p)
        ELSE popped

\* The queue rebuilt from its live entries; o has just died (0: no order has).
LiveOnly(queue, o) ==
    LET kept[k \in 0 .. Len(queue)] ==
            IF k = 0 THEN << >>
            ELSE IF queue[k] # o /\ entry[queue[k]].alive THEN Append(kept[k - 1], queue[k])
            ELSE kept[k - 1]
    IN  kept[Len(queue)]

Compact(L, o) == [L EXCEPT !.queue = LiveOnly(@, o), !.dead = 0]

\* remove(), for cancel and expiry.
RemoveEntry(S, sd, o) ==
    LET p == order[o].price
        S1 == Shrink(S, p, entry[o].remaining)
        L == [S1.levels[p] EXCEPT !.dead = @ + 1]
    IN  IF IsEmptied(S1.levels[p]) THEN DropLevel(S1, sd, p)
        ELSE [S1 EXCEPT !.levels[p] =
                IF L.dead > CompactMinDead /\ L.dead * 2 > Len(L.queue)
                THEN Compact(L, o) ELSE L]

\* live_entries(): in priority order; and book_levels(), the snapshot.
LiveEntries(S, sd) ==
    FlattenSeq([i \in DOMAIN S.keys |-> LiveOnly(LevelAt(S, sd, i).queue, 0)])

BookLevels(S, sd) ==
    [i \in DOMAIN S.keys |-> [price |-> PriceOf(sd, S.keys[i]),
                              quantity |-> LevelAt(S, sd, i).quantity]]

-----------------------------------------------------------------------------
(***************************************************************************)
(* The calls.                                                              *)
(***************************************************************************)
Begin(op, id, q) ==
    /\ call.op = "none"
    /\ call' = [op |-> op, phase |-> "expire", id |-> id, rem |-> q,
                trades |-> << >>, deadline |-> now - MaxAge]

SubmitBegin(sd, p, q) ==
    /\ issued < MaxOrders
    /\ issued' = issued + 1
    /\ order' = [order EXCEPT ![issued + 1] = [side |-> sd, price |-> p, quantity |-> q]]
    /\ Begin("submit", issued + 1, q)
    /\ UNCHANGED <<bookVars, history, recent, now>>

\* Any id handed out so far, resting or closed.
CancelBegin(o) ==
    /\ o <= issued
    /\ Begin("cancel", o, 0)
    /\ UNCHANGED <<orderVars, bookVars, history, recent, now>>

\* open_orders, get_open_order, snapshot and total_quantity change nothing but
\* what _expire does; best_price also cleans the front of a side.
ReadBegin(op) ==
    /\ Begin(op, 0, 0)
    /\ UNCHANGED <<orderVars, bookVars, history, recent, now>>

\* Faulty variant: the order-id index keeps a closed order.
CloseKeepsIndex(o) == index

\* The index after an order leaves the book.
Close(o) == index \ {o}

\* as_open_order(): what a canceled order had left.
OpenQuantity(o) == entry[o].remaining

\* Takes a live order out of its side: cancel and expiry.
Withdraw(o) ==
    LET sd == order[o].side IN
    /\ sides' = [sides EXCEPT ![sd] = RemoveEntry(@, sd, o)]
    /\ entry' = [entry EXCEPT ![o].alive = FALSE]
    /\ index' = Close(o)
    /\ withdrawn' = [withdrawn EXCEPT ![o] = @ + OpenQuantity(o)]

\* Faulty variant: the loop stops at an entry that is already dead.
ExpireStopsAtDead ==
    arrivals # << >> =>
        ~entry[Head(arrivals)].alive \/ entry[Head(arrivals)].restedAt > call.deadline

ExpireStops ==
    arrivals # << >> =>
        entry[Head(arrivals)].alive /\ entry[Head(arrivals)].restedAt > call.deadline

\* Faulty variant: a dead entry is skipped before it is popped, and found again.
ExpireStepSkipsDead ==
    /\ call.op # "none" /\ call.phase = "expire"
    /\ ~ExpireStops
    /\ IF entry[Head(arrivals)].alive
       THEN /\ arrivals' = Tail(arrivals)
            /\ Withdraw(Head(arrivals))
            /\ expiredTotal' = expiredTotal + 1
       ELSE UNCHANGED <<arrivals, sides, entry, index, withdrawn, expiredTotal>>
    /\ UNCHANGED <<orderVars, sequence, recent, filled, now, call>>

ExpireStep ==
    /\ call.op # "none" /\ call.phase = "expire"
    /\ ~ExpireStops
    /\ arrivals' = Tail(arrivals)
    /\ IF entry[Head(arrivals)].alive
       THEN /\ Withdraw(Head(arrivals))
            /\ expiredTotal' = expiredTotal + 1
       ELSE UNCHANGED <<sides, entry, index, withdrawn, expiredTotal>>
    /\ UNCHANGED <<orderVars, sequence, recent, filled, now, call>>

ExpireDone ==
    /\ call.op # "none" /\ call.phase = "expire"
    /\ ExpireStops
    /\ call' = [call EXCEPT !.phase = "body"]
    /\ UNCHANGED <<orderVars, bookVars, history, recent, now>>

InBody(op) == call.op = op /\ call.phase = "body"

\* One iteration of submit's loop that trades with the best opposing order.
Match ==
    /\ InBody("submit")
    /\ call.rem > 0
    /\ LET opp == Opposite(order[call.id].side)
           S == DropDeadFront(sides[opp], opp)
           o == Best(S, opp)
           q == Lesser(call.rem, entry[o].remaining)
           isFilled == entry[o].remaining = q
       IN
       /\ o # 0
       /\ Crosses(order[call.id], order[o])
       /\ sides' = [sides EXCEPT ![opp] =
                      FillBest(S, opp, order[o].price, q, entry[o].remaining)]
       /\ entry' = [entry EXCEPT ![o].remaining = @ - q, ![o].alive = ~isFilled]
       /\ index' = IF isFilled THEN Close(o) ELSE index
       /\ call' = [call EXCEPT !.rem = @ - q,
                               !.trades = Append(@, TradeOf(call.id, order[call.id],
                                                            o, order[o], q))]
       /\ filled' = [filled EXCEPT ![o] = @ + q, ![call.id] = @ + q]
    /\ UNCHANGED <<orderVars, arrivals, sequence, recent, expiredTotal, withdrawn, now>>

SubmitFilled ==
    /\ InBody("submit")
    /\ call.rem = 0
    /\ recent' = Newest(recent \o call.trades)
    /\ call' = NoCall
    /\ UNCHANGED <<orderVars, bookVars, history, now>>

\* The iteration that finds nothing to trade with, and _rest.
SubmitRest ==
    /\ InBody("submit")
    /\ call.rem > 0
    /\ LET id == call.id
           sd == order[id].side
           opp == Opposite(sd)
           S == DropDeadFront(sides[opp], opp)
           o == Best(S, opp)
       IN
       /\ o # 0 => ~Crosses(order[id], order[o])
       /\ sequence' = sequence + 1
       /\ entry' = [entry EXCEPT ![id] =
                      [remaining |-> call.rem, sequence |-> sequence + 1,
                       restedAt |-> IF MaxAge > 0 THEN now ELSE 0, alive |-> TRUE]]
       /\ sides' = [sides EXCEPT ![opp] = S,
                                 ![sd] = Add(@, sd, id, order[id].price, call.rem)]
       /\ index' = index \cup {id}
       /\ arrivals' = IF MaxAge > 0 THEN Append(arrivals, id) ELSE arrivals
    /\ recent' = Newest(recent \o call.trades)
    /\ call' = NoCall
    /\ UNCHANGED <<orderVars, history, expiredTotal, now>>

CancelOpen ==
    /\ InBody("cancel")
    /\ call.id \in index
    /\ Withdraw(call.id)
    /\ call' = NoCall
    /\ UNCHANGED <<orderVars, arrivals, sequence, recent, expiredTotal, filled, now>>

\* OrderNotFoundError
CancelClosed ==
    /\ InBody("cancel")
    /\ call.id \notin index
    /\ call' = NoCall
    /\ UNCHANGED <<orderVars, bookVars, history, recent, now>>

ReadEnd ==
    /\ InBody("read")
    /\ call' = NoCall
    /\ UNCHANGED <<orderVars, bookVars, history, recent, now>>

BestPriceEnd(sd) ==
    /\ InBody("best_price")
    /\ sides' = [sides EXCEPT ![sd] = DropDeadFront(@, sd)]
    /\ call' = NoCall
    /\ UNCHANGED <<orderVars, history, entry, index, arrivals, sequence, recent, expiredTotal, now>>

Tick ==
    /\ now < MaxClock
    /\ now' = now + 1
    /\ UNCHANGED <<orderVars, bookVars, history, recent, call>>

\* The steps of the thread that holds the lock.
CallStep ==
    \/ ExpireStep
    \/ ExpireDone
    \/ Match
    \/ SubmitFilled
    \/ SubmitRest
    \/ CancelOpen
    \/ CancelClosed
    \/ ReadEnd
    \/ \E sd \in Sides : BestPriceEnd(sd)

Next ==
    \/ \E sd \in Sides, p \in Prices, q \in Quantities : SubmitBegin(sd, p, q)
    \/ \E o \in Ids : CancelBegin(o)
    \/ \E op \in {"read", "best_price"} : ReadBegin(op)
    \/ CallStep
    \/ Tick

\* The thread inside a call keeps running: nothing in a call waits for another.
Spec == Init /\ [][Next]_vars /\ WF_vars(CallStep)

-----------------------------------------------------------------------------
(***************************************************************************)
(* Properties.                                                             *)
(***************************************************************************)
IsUnique(s) == \A i, j \in DOMAIN s : s[i] = s[j] => i = j

TypeOK ==
    /\ issued \in 0 .. MaxOrders
    /\ \A o \in 1 .. issued : order[o] \in Order
    /\ \A o \in Ids : entry[o] \in [remaining : Nat, sequence : Nat, restedAt : Nat,
                                    alive : BOOLEAN]
    /\ \A sd \in Sides :
         /\ sides[sd].keys \in Seq(Int)
         /\ DOMAIN sides[sd].levels \subseteq Prices
         /\ \A p \in DOMAIN sides[sd].levels :
              sides[sd].levels[p] \in [queue : Seq(Ids), quantity : Nat, dead : Nat]
         /\ sides[sd].total \in Nat
    /\ index \subseteq 1 .. issued
    /\ arrivals \in Seq(Ids)
    /\ recent \in Seq(Trade) /\ Len(recent) <= RecentTradeCapacity
    /\ call.op \in {"none", "submit", "cancel", "read", "best_price"}

\* The live entries of the two queues, the order-id index and the entries
\* marked alive are the same orders, each once and at its own price: a cancel
\* finds every order a match can find, and no other.
Queued(sd, p) == ToSet(sides[sd].levels[p].queue)

IndexExact ==
    /\ index = {o \in Ids : entry[o].alive}
    /\ \A sd \in Sides : \A p \in DOMAIN sides[sd].levels :
         /\ IsUnique(sides[sd].levels[p].queue)
         /\ \A o \in Queued(sd, p) : order[o].side = sd /\ order[o].price = p
    /\ \A o \in index :
         LET sd == order[o].side IN
         /\ order[o].price \in DOMAIN sides[sd].levels
         /\ o \in Queued(sd, order[o].price)

\* Lazy deletion keeps its books: `dead` counts the dead entries of the queue,
\* so best() and the compaction never lose or keep one by mistake.
DeadCountExact ==
    \A sd \in Sides : \A p \in DOMAIN sides[sd].levels :
        LET L == sides[sd].levels[p]
        IN  L.dead = Len(L.queue) - Cardinality(LiveIn(L.queue))

\* What lazy deletion and compaction keep, on typed state, through any mix of
\* fills, cancels and expiries.
LazyDeletionExact == TypeOK /\ IndexExact /\ DeadCountExact

\* What the oracle would hold of this book: the live entries of the queues,
\* their remaining quantities, and the call without the loop it is in.
RestingSeen ==
    {o \in Ids : \E sd \in Sides : \E p \in DOMAIN sides[sd].levels :
                    o \in Queued(sd, p) /\ entry[o].alive}
RemSeen == [o \in Ids |-> IF entry[o].alive THEN entry[o].remaining ELSE 0]
SeqSeen == [o \in Ids |-> entry[o].sequence]
RestedAtSeen == [o \in Ids |-> entry[o].restedAt]
CallSeen == [op |-> IF call.op = "best_price" THEN "read" ELSE call.op,
             id |-> call.id, rem |-> call.rem, trades |-> call.trades,
             deadline |-> call.deadline]

Reference == INSTANCE PriceTimeBook WITH
    resting <- RestingSeen, rem <- RemSeen, seq <- SeqSeen,
    restedAt <- RestedAtSeen, call <- CallSeen

\* The oracle's sorted list of the orders in T, and what they have left.
InPriority(s, T) ==
    /\ ToSet(s) = T
    /\ \A i, j \in DOMAIN s : i < j => Reference!Before(s[i], s[j])
ReferenceQuantity(T) == SumFunctionOnSet(RemSeen, T)

\* open_orders and snapshot answer what the list-based oracle would: the same
\* orders in the same priority, the same prices best first, the same
\* quantities (test_book_structure.py's differential test, for every history).
\* total_quantity, the depth gauge's O(1) source, answers the sum over the side.
AnswersLikeReference ==
    \A sd \in Sides :
        LET open == Reference!OnSide(sd)
            shown == BookLevels(sides[sd], sd)
        IN  /\ InPriority(LiveEntries(sides[sd], sd), open)
            /\ sides[sd].total = ReferenceQuantity(open)
            /\ {shown[i].price : i \in DOMAIN shown} = {order[o].price : o \in open}
            /\ \A i \in DOMAIN shown :
                 /\ shown[i].quantity = ReferenceQuantity({o \in open : order[o].price = shown[i].price})
                 /\ i > 1 => Key(sd, shown[i - 1].price) < Key(sd, shown[i].price)

\* Every step of this book is a step of the reference book or changes nothing
\* it can see: trades happen in price-time order at the maker's price.
ImplementsReference == Reference!Spec

\* A call that took the lock returns: no loop of submit or _expire spins.
CallReturns == (call.op # "none") ~> (call.op = "none")
=============================================================================
