--------------------------- MODULE MatcherService ---------------------------
(***************************************************************************)
(* One matcher process: the order-book registry                            *)
(* (backend/exchange/orderbook/registry.py) as the request threads of the  *)
(* HTTP views (backend/exchange/views.py) use it.                          *)
(*                                                                         *)
(* gunicorn runs one worker with several threads, so requests interleave   *)
(* wherever they hold no common lock.  There are two kinds of lock: the    *)
(* registry's, around its maps, and one per book.  A book calls back into  *)
(* the registry (_order_rested, _order_closed) while its own lock is held. *)
(*                                                                         *)
(* A book is the set of its resting orders (OrderBook says which of them a *)
(* submit fills); the depth gauge counts them.  A book that a rollover     *)
(* dropped is still there for the threads that hold a reference to it,     *)
(* which is why books have numbers of their own.                           *)
(***************************************************************************)
EXTENDS Integers, FiniteSets

CONSTANTS
    Threads,      \* gunicorn --threads
    Symbols,      \* the symbols this shard owns
    MaxOrders,    \* bound: orders submitted in a behaviour
    MaxBooks,     \* bound: OrderBook objects constructed
    MaxDay,       \* bound: last calendar day
    TradingDays,  \* the weekdays among them
    MarketMode,   \* SIMULATION_MARKET_MODE
    ExpiryOn,     \* MATCHER_ORDER_MAX_AGE_SECONDS > 0
    NoThread, NoSymbol

ASSUME ServiceAssumption ==
    /\ MaxOrders \in Nat /\ MaxBooks \in Nat /\ MaxDay \in Nat \ {0}
    /\ TradingDays \subseteq 1 .. MaxDay
    /\ MarketMode \in {"scheduled", "always_open"}
    /\ ExpiryOn \in BOOLEAN
    /\ NoThread \notin Threads
    /\ NoSymbol \notin Symbols

Orders == 1 .. MaxOrders
Books == 1 .. MaxBooks
Days == 0 .. MaxDay   \* 0 is None

VARIABLES
    day, phase,    \* the wall clock: calendar day; before, in, after hours
    issued,        \* orders constructed so far
    symbolOf,      \* the symbol of each order
    born,          \* history: the day each order was accepted
    made,          \* OrderBook objects constructed so far
    resting,       \* resting orders of each book object
    bookLock,      \* owner of each book's RLock
    books,         \* _books: symbol -> current book object, 0 if none
    orderSymbols,  \* _order_symbols: order -> symbol, NoSymbol if absent
    activeDate,    \* _active_session_date, 0 is None
    regLock,       \* owner of the registry's RLock
    gauge,         \* ORDERBOOK_DEPTH by symbol
    known,         \* orders whose response was sent: the ids clients hold
    reportedGone,  \* history: orders a cancel answered CANCELED or ALREADY_CLOSED
    pc, loc        \* each thread's position and local variables

clock == <<day, phase>>
history == <<issued, symbolOf, born>>
bookVars == <<made, resting, bookLock>>
regVars == <<books, orderSymbols, activeDate, regLock>>
clientVars == <<known, reportedGone>>
vars == <<clock, history, bookVars, regVars, gauge, clientVars, pc, loc>>

NoLocals == [kind |-> "none", id |-> 0, symbol |-> NoSymbol, date |-> 0, book |-> 0,
             cleared |-> {}, closing |-> 0, back |-> "expire", total |-> 0,
             canceled |-> FALSE]

Init ==
    /\ day = 1 /\ phase = "before"
    /\ issued = 0
    /\ symbolOf = [o \in Orders |-> NoSymbol]
    /\ born = [o \in Orders |-> 0]
    /\ made = 0
    /\ resting = [b \in Books |-> {}]
    /\ bookLock = [b \in Books |-> NoThread]
    /\ books = [s \in Symbols |-> 0]
    /\ orderSymbols = [o \in Orders |-> NoSymbol]
    /\ activeDate = 0
    /\ regLock = NoThread
    /\ gauge = [s \in Symbols |-> 0]
    /\ known = {} /\ reportedGone = {}
    /\ pc = [t \in Threads |-> "idle"]
    /\ loc = [t \in Threads |-> NoLocals]

-----------------------------------------------------------------------------
(***************************************************************************)
(* MarketSession, and the passing of time.                                 *)
(***************************************************************************)
IsOpen == MarketMode = "always_open" \/ (day \in TradingDays /\ phase = "in")
SessionDate == IF MarketMode = "always_open" \/ day \in TradingDays THEN day ELSE 0

PassHours ==
    /\ phase # "after"
    /\ phase' = IF phase = "before" THEN "in" ELSE "after"
    /\ UNCHANGED <<day, history, bookVars, regVars, gauge, clientVars, pc, loc>>

\* A scheduled market is closed from 15:30 to midnight: an order request
\* accepted before the close is answered before the date changes.
PassMidnight ==
    /\ phase = "after" /\ day < MaxDay
    /\ MarketMode = "scheduled" => \A t \in Threads : loc[t].kind # "create"
    /\ day' = day + 1 /\ phase' = "before"
    /\ UNCHANGED <<history, bookVars, regVars, gauge, clientVars, pc, loc>>

-----------------------------------------------------------------------------
(***************************************************************************)
(* Threads and locks.                                                      *)
(***************************************************************************)
Goto(t, label) == pc' = [pc EXCEPT ![t] = label]

\* Where a thread takes the registry's lock, and where a book's.
WantsReg == {"roll", "lookup", "get", "depth", "closed", "rested", "pop"}
WantsBook == {"enter"}
InBook == {"expire", "match", "cancel", "read", "total", "closed", "rested", "leave"}

AcquireReg(t) ==
    /\ pc[t] \in WantsReg
    /\ regLock = NoThread
    /\ regLock' = t
    /\ UNCHANGED <<clock, history, bookVars, books, orderSymbols, activeDate, gauge,
                   clientVars, pc, loc>>

InReg(t, label) == pc[t] = label /\ regLock = t

AcquireBook(t) ==
    /\ pc[t] = "enter"
    /\ bookLock[loc[t].book] = NoThread
    /\ bookLock' = [bookLock EXCEPT ![loc[t].book] = t]
    /\ Goto(t, "expire")
    /\ UNCHANGED <<clock, history, made, resting, regVars, gauge, clientVars, loc>>

ReleaseBook(t) == bookLock' = [bookLock EXCEPT ![loc[t].book] = NoThread]

\* The request is answered; a create's order id is now known to its client.
Answer(t) ==
    /\ Goto(t, "idle")
    /\ loc' = [loc EXCEPT ![t] = NoLocals]

-----------------------------------------------------------------------------
(***************************************************************************)
(* Requests: create_order, cancel_order, and the reads (book_detail).      *)
(***************************************************************************)
\* Faulty variant: only reads and cancels look for a new session.
BeginCreateUnrolled(t, kind, o, s) ==
    /\ pc[t] = "idle"
    /\ loc' = [loc EXCEPT ![t] = [NoLocals EXCEPT !.kind = kind, !.id = o, !.symbol = s,
                                                  !.date = SessionDate]]
    /\ Goto(t, IF kind = "create" THEN "get" ELSE "roll")

\* The request reads the wall clock once: on a weekend, or when the market is
\* always open, it does not go to the registry for a rollover.
Begin(t, kind, o, s) ==
    /\ pc[t] = "idle"
    /\ loc' = [loc EXCEPT ![t] = [NoLocals EXCEPT !.kind = kind, !.id = o, !.symbol = s,
                                                  !.date = SessionDate]]
    /\ Goto(t, IF MarketMode = "scheduled" /\ SessionDate # 0 THEN "roll"
               ELSE IF kind = "cancel" THEN "lookup" ELSE "get")

CreateBegin(t, s) ==
    /\ IsOpen
    /\ issued < MaxOrders
    /\ issued' = issued + 1
    /\ symbolOf' = [symbolOf EXCEPT ![issued + 1] = s]
    /\ born' = [born EXCEPT ![issued + 1] = day]
    /\ Begin(t, "create", issued + 1, s)
    /\ UNCHANGED <<clock, bookVars, regVars, gauge, clientVars>>

CancelBegin(t, o) ==
    /\ o \in known
    /\ Begin(t, "cancel", o, NoSymbol)
    /\ UNCHANGED <<clock, history, bookVars, regVars, gauge, clientVars>>

ReadBegin(t, s) ==
    /\ Begin(t, "read", 0, s)
    /\ UNCHANGED <<clock, history, bookVars, regVars, gauge, clientVars>>

\* Faulty variant: the order-id map is cleared and the books are not.
RolloverKeepsBooks(t) ==
    LET date == loc[t].date
        rolls == activeDate # 0 /\ date > activeDate
    IN
    /\ InReg(t, "roll")
    /\ regLock' = NoThread
    /\ activeDate' = IF activeDate = 0 \/ rolls THEN date ELSE activeDate
    /\ orderSymbols' = IF rolls THEN [o \in Orders |-> NoSymbol] ELSE orderSymbols
    /\ Goto(t, "reset")
    /\ UNCHANGED <<clock, history, bookVars, books, gauge, clientVars, loc>>

\* _rollover_market_session: registry.rollover, then the gauges of the
\* symbols it cleared, one by one and outside the lock.
Rollover(t) ==
    LET date == loc[t].date
        rolls == activeDate # 0 /\ date > activeDate
        cleared == IF rolls THEN {s \in Symbols : books[s] # 0} ELSE {}
    IN
    /\ InReg(t, "roll")
    /\ regLock' = NoThread
    /\ activeDate' = IF activeDate = 0 \/ rolls THEN date ELSE activeDate
    /\ books' = IF rolls THEN [s \in Symbols |-> 0] ELSE books
    /\ orderSymbols' = IF rolls THEN [o \in Orders |-> NoSymbol] ELSE orderSymbols
    /\ loc' = [loc EXCEPT ![t].cleared = cleared]
    /\ Goto(t, "reset")
    /\ UNCHANGED <<clock, history, bookVars, gauge, clientVars>>

ResetGauge(t, s) ==
    /\ pc[t] = "reset" /\ s \in loc[t].cleared
    /\ gauge' = [gauge EXCEPT ![s] = 0]
    /\ loc' = [loc EXCEPT ![t].cleared = @ \ {s}]
    /\ UNCHANGED <<clock, history, bookVars, regVars, clientVars, pc>>

ResetDone(t) ==
    /\ pc[t] = "reset" /\ loc[t].cleared = {}
    /\ Goto(t, IF loc[t].kind = "cancel" THEN "lookup" ELSE "get")
    /\ UNCHANGED <<clock, history, bookVars, regVars, gauge, clientVars, loc>>

\* registry.cancel: find the order's symbol, or answer ALREADY_CLOSED.
LookupFound(t) ==
    /\ InReg(t, "lookup")
    /\ orderSymbols[loc[t].id] # NoSymbol
    /\ regLock' = NoThread
    /\ loc' = [loc EXCEPT ![t].symbol = orderSymbols[loc[t].id]]
    /\ Goto(t, "get")
    /\ UNCHANGED <<clock, history, bookVars, books, orderSymbols, activeDate, gauge,
                   clientVars>>

LookupMissing(t) ==
    /\ InReg(t, "lookup")
    /\ orderSymbols[loc[t].id] = NoSymbol
    /\ regLock' = NoThread
    /\ reportedGone' = reportedGone \cup {loc[t].id}
    /\ Answer(t)
    /\ UNCHANGED <<clock, history, bookVars, books, orderSymbols, activeDate, gauge, known>>

\* Faulty variant: the registry's lock is still held when the book's is taken.
GetHoldsLock(t, label) ==
    LET s == loc[t].symbol
        isNew == books[s] = 0
    IN
    /\ InReg(t, label)
    /\ isNew => made < MaxBooks
    /\ made' = IF isNew THEN made + 1 ELSE made
    /\ books' = IF isNew THEN [books EXCEPT ![s] = made + 1] ELSE books
    /\ loc' = [loc EXCEPT ![t].book = IF isNew THEN made + 1 ELSE books[s],
                          ![t].kind = IF label = "depth" THEN "depth" ELSE @]
    /\ Goto(t, "enter")
    /\ UNCHANGED <<clock, history, resting, bookLock, orderSymbols, activeDate, regLock,
                   gauge, clientVars>>

\* registry.get, for the request itself and again for the gauge.
Get(t, label) ==
    LET s == loc[t].symbol
        isNew == books[s] = 0
    IN
    /\ InReg(t, label)
    /\ isNew => made < MaxBooks
    /\ made' = IF isNew THEN made + 1 ELSE made
    /\ books' = IF isNew THEN [books EXCEPT ![s] = made + 1] ELSE books
    /\ loc' = [loc EXCEPT ![t].book = IF isNew THEN made + 1 ELSE books[s],
                          ![t].kind = IF label = "depth" THEN "depth" ELSE @]
    /\ regLock' = NoThread
    /\ Goto(t, "enter")
    /\ UNCHANGED <<clock, history, resting, bookLock, orderSymbols, activeDate, gauge,
                   clientVars>>

-----------------------------------------------------------------------------
(***************************************************************************)
(* Inside a book: the loops of _expire and submit, and the callbacks.      *)
(***************************************************************************)
\* An order leaves the book by expiry or by a fill; its callback is next.
LeaveBook(t, o) ==
    /\ o \in resting[loc[t].book]
    /\ resting' = [resting EXCEPT ![loc[t].book] = @ \ {o}]
    /\ loc' = [loc EXCEPT ![t].back = pc[t], ![t].closing = o]
    /\ Goto(t, "closed")
    /\ UNCHANGED <<clock, history, made, bookLock, regVars, gauge, clientVars>>

ExpireOrder(t, o) == ExpiryOn /\ pc[t] = "expire" /\ LeaveBook(t, o)
FillOrder(t, o) == pc[t] = "match" /\ LeaveBook(t, o)

\* _order_closed
OrderClosed(t) ==
    /\ InReg(t, "closed")
    /\ orderSymbols' = [orderSymbols EXCEPT ![loc[t].closing] = NoSymbol]
    /\ regLock' = NoThread
    /\ Goto(t, loc[t].back)
    /\ UNCHANGED <<clock, history, bookVars, books, activeDate, gauge, clientVars, loc>>

ExpireDone(t) ==
    /\ pc[t] = "expire"
    /\ Goto(t, CASE loc[t].kind = "create" -> "match"
                 [] loc[t].kind = "cancel" -> "cancel"
                 [] loc[t].kind = "read" -> "read"
                 [] loc[t].kind = "depth" -> "total")
    /\ UNCHANGED <<clock, history, bookVars, regVars, gauge, clientVars, loc>>

\* Faulty variant: the registry hears of the order after the book's lock was
\* released.
RestOrderUnlocks(t) ==
    /\ pc[t] = "match"
    /\ resting' = [resting EXCEPT ![loc[t].book] = @ \cup {loc[t].id}]
    /\ ReleaseBook(t)
    /\ Goto(t, "rested")
    /\ UNCHANGED <<clock, history, made, regVars, gauge, clientVars, loc>>

\* The rest of the order stays in the book, and _order_rested is next.
RestOrder(t) ==
    /\ pc[t] = "match"
    /\ resting' = [resting EXCEPT ![loc[t].book] = @ \cup {loc[t].id}]
    /\ Goto(t, "rested")
    /\ UNCHANGED <<clock, history, made, bookLock, regVars, gauge, clientVars, loc>>

\* _order_rested
OrderRested(t) ==
    /\ InReg(t, "rested")
    /\ orderSymbols' = [orderSymbols EXCEPT ![loc[t].id] = loc[t].symbol]
    /\ regLock' = NoThread
    /\ Goto(t, "leave")
    /\ UNCHANGED <<clock, history, bookVars, books, activeDate, gauge, clientVars, loc>>

\* The order was filled completely, by makers that left the book or by one
\* that still has something left.
FilledWhole(t) ==
    /\ pc[t] = "match"
    /\ loc[t].back = "match" \/ resting[loc[t].book] # {}
    /\ Goto(t, "leave")
    /\ UNCHANGED <<clock, history, bookVars, regVars, gauge, clientVars, loc>>

SubmitReturns(t) ==
    /\ pc[t] = "leave"
    /\ ReleaseBook(t)
    /\ Goto(t, "depth")
    /\ UNCHANGED <<clock, history, made, resting, regVars, gauge, clientVars, loc>>

\* book.cancel: CANCELED, or OrderNotFoundError; either way the registry
\* forgets the id next.
CancelInBook(t) ==
    LET b == loc[t].book
        o == loc[t].id
    IN
    /\ pc[t] = "cancel"
    /\ resting' = [resting EXCEPT ![b] = @ \ {o}]
    /\ loc' = [loc EXCEPT ![t].canceled = o \in resting[b]]
    /\ ReleaseBook(t)
    /\ Goto(t, "pop")
    /\ UNCHANGED <<clock, history, made, regVars, gauge, clientVars>>

Pop(t) ==
    /\ InReg(t, "pop")
    /\ orderSymbols' = [orderSymbols EXCEPT ![loc[t].id] = NoSymbol]
    /\ regLock' = NoThread
    /\ reportedGone' = reportedGone \cup {loc[t].id}
    /\ IF loc[t].canceled THEN Goto(t, "depth") /\ UNCHANGED loc
                          ELSE Answer(t)
    /\ UNCHANGED <<clock, history, bookVars, books, activeDate, gauge, known>>

ReadReturns(t) ==
    /\ pc[t] = "read"
    /\ ReleaseBook(t)
    /\ Answer(t)
    /\ UNCHANGED <<clock, history, made, resting, regVars, gauge, clientVars>>

\* _update_orderbook_depth: the total is read under the book's lock, the
\* gauge is set after it was released.  (The code does so three times, for
\* each side's quantity and for the number of orders.)
ReadTotal(t) ==
    /\ pc[t] = "total"
    /\ loc' = [loc EXCEPT ![t].total = Cardinality(resting[loc[t].book])]
    /\ ReleaseBook(t)
    /\ Goto(t, "gauge")
    /\ UNCHANGED <<clock, history, made, resting, regVars, gauge, clientVars>>

SetGauge(t) ==
    /\ pc[t] = "gauge"
    /\ gauge' = [gauge EXCEPT ![loc[t].symbol] = loc[t].total]
    /\ known' = known \cup {loc[t].id}
    /\ Answer(t)
    /\ UNCHANGED <<clock, history, bookVars, regVars, reportedGone>>

-----------------------------------------------------------------------------
Request(t) ==
    \/ \E s \in Symbols : CreateBegin(t, s) \/ ReadBegin(t, s)
    \/ \E o \in Orders : CancelBegin(t, o)

Step(t) ==
    \/ AcquireReg(t)
    \/ AcquireBook(t)
    \/ Rollover(t)
    \/ \E s \in Symbols : ResetGauge(t, s)
    \/ ResetDone(t)
    \/ LookupFound(t)
    \/ LookupMissing(t)
    \/ Get(t, "get")
    \/ Get(t, "depth")
    \/ \E o \in Orders : ExpireOrder(t, o)
    \/ \E o \in Orders : FillOrder(t, o)
    \/ OrderClosed(t)
    \/ ExpireDone(t)
    \/ RestOrder(t)
    \/ OrderRested(t)
    \/ FilledWhole(t)
    \/ SubmitReturns(t)
    \/ CancelInBook(t)
    \/ Pop(t)
    \/ ReadReturns(t)
    \/ ReadTotal(t)
    \/ SetGauge(t)

Next ==
    \/ PassHours
    \/ PassMidnight
    \/ \E t \in Threads : Request(t) \/ Step(t)

Spec == Init /\ [][Next]_vars

-----------------------------------------------------------------------------
(***************************************************************************)
(* Properties.                                                             *)
(***************************************************************************)
Labels == WantsReg \cup WantsBook \cup InBook \cup {"idle", "reset", "gauge"}

Locals == [kind : {"none", "create", "cancel", "read", "depth"}, id : 0 .. MaxOrders,
           symbol : Symbols \cup {NoSymbol}, date : Days, book : 0 .. MaxBooks,
           cleared : SUBSET Symbols, closing : 0 .. MaxOrders, back : {"expire", "match"},
           total : Nat, canceled : BOOLEAN]

\* Types, and the locals a thread's position needs: a book and a symbol once
\* registry.get was reached, an order for creates and cancels.
TypeOK ==
    /\ day \in 1 .. MaxDay /\ phase \in {"before", "in", "after"}
    /\ issued \in 0 .. MaxOrders
    /\ symbolOf \in [Orders -> Symbols \cup {NoSymbol}]
    /\ born \in [Orders -> Days]
    /\ made \in 0 .. MaxBooks
    /\ resting \in [Books -> SUBSET Orders]
    /\ bookLock \in [Books -> Threads \cup {NoThread}]
    /\ books \in [Symbols -> 0 .. MaxBooks]
    /\ orderSymbols \in [Orders -> Symbols \cup {NoSymbol}]
    /\ activeDate \in Days
    /\ regLock \in Threads \cup {NoThread}
    /\ gauge \in [Symbols -> Nat]
    /\ known \subseteq Orders /\ reportedGone \subseteq Orders
    /\ pc \in [Threads -> Labels]
    /\ loc \in [Threads -> Locals]
    /\ \A t \in Threads :
         /\ pc[t] \in {"get", "enter", "depth", "gauge"} \cup InBook => loc[t].symbol \in Symbols
         /\ pc[t] \in WantsBook \cup InBook => loc[t].book \in Books
         /\ pc[t] # "idle" => loc[t].kind # "none"
         /\ loc[t].kind \in {"create", "cancel"} => loc[t].id \in Orders
         /\ pc[t] = "closed" => loc[t].closing \in Orders

\* A thread waits when another one holds the lock it needs next.
Blocked(t) ==
    \/ pc[t] \in WantsReg /\ regLock \notin {NoThread, t}
    \/ pc[t] \in WantsBook /\ bookLock[loc[t].book] \notin {NoThread, t}

\* Requests never wait for each other in a circle, although a book calls the
\* registry with its lock held: as long as a request is being served, one of
\* the threads serving them can go on.
SomeoneRuns ==
    (\E t \in Threads : pc[t] # "idle") =>
        \E t \in Threads : pc[t] # "idle" /\ ~Blocked(t)

\* The registry maps every order that rests in a current book to its symbol
\* whenever that book is not in the middle of a call: a cancel finds it.
CancelFinds ==
    \A s \in Symbols :
        books[s] # 0 /\ bookLock[books[s]] = NoThread =>
            \A o \in resting[books[s]] : orderSymbols[o] = s

\* "_order_symbols maps only resting orders to their symbol" (registry.py:16):
\* with no request in progress, every order in the map rests in the current
\* book of its symbol.
MapHoldsRestingOnly ==
    (\A t \in Threads : pc[t] = "idle") =>
        \A o \in Orders : orderSymbols[o] # NoSymbol =>
            /\ books[orderSymbols[o]] # 0
            /\ o \in resting[books[orderSymbols[o]]]

\* The registry's map and the books agree in both directions, although callbacks,
\* cancels and rollovers write the map in any order (OrderBookRegistry).
MapExact == CancelFinds /\ MapHoldsRestingOnly

\* A cancel's answer is final: an order reported CANCELED or ALREADY_CLOSED
\* is not in a current book then or later, whatever fills, expiries, other
\* cancels and rollovers raced it.
GoneStaysGone ==
    \A o \in reportedGone, s \in Symbols : books[s] # 0 => o \notin resting[books[s]]

\* Sessions do not mix: a submit only ever meets orders accepted on its own
\* trading day.
SessionsApart ==
    MarketMode = "scheduled" =>
        \A t \in Threads : pc[t] = "match" =>
            \A o \in resting[loc[t].book] : born[o] = born[loc[t].id]
=============================================================================
