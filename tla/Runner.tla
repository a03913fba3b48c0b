------------------------------- MODULE Runner -------------------------------
(***************************************************************************)
(* The participant runner (participant_runner/runner.py): one main thread  *)
(* that ticks while the market is open, and HTTP jobs on a thread pool.    *)
(*                                                                         *)
(* The main thread starts a job when it gets one of http_concurrency       *)
(* slots.  A job sends one request, takes the runner's lock to record the  *)
(* answer, takes it again to lower _pending, and only then gives its slot  *)
(* back.  The requests and the matcher run meanwhile: an answer may come   *)
(* late, after the client's timeout, or never, and an order may be filled  *)
(* at any moment.                                                          *)
(*                                                                         *)
(* An order is a number, given when its intent becomes a job.  What the    *)
(* traders decide is their number of intents per tick; which of the        *)
(* tracked orders are past their TTL is the clock's choice.  The event     *)
(* coordinator is not part of this module.                                 *)
(***************************************************************************)
EXTENDS Integers, FiniteSets

CONSTANTS
    HttpConcurrency,  \* HTTP_CONCURRENCY, the number of slots
    Jobs,             \* names for the jobs in progress, more than there are slots
    Count,            \* len(self._participants)
    MaxIntents,       \* intents a participant returns in one tick, at most
    MaxOrders,        \* bound: orders ever submitted
    MaxSessions,      \* bound: openings and closings of the market
    MaxFaults,        \* bound: requests that raise in the client
    IdleMayTimeOut    \* whether wait_for_idle can run into its five seconds

ASSUME RunnerAssumption ==
    /\ HttpConcurrency \in Nat \ {0}
    /\ IsFiniteSet(Jobs)
    /\ Count \in Nat \ {0}
    /\ MaxIntents \in Nat /\ MaxOrders \in Nat
    /\ MaxSessions \in Nat /\ MaxFaults \in Nat
    /\ IdleMayTimeOut \in BOOLEAN

Orders == 1 .. MaxOrders
Participants == 0 .. Count - 1

VARIABLES
    open, stop,           \* the wall clock's session; stop_event
    sessions, faults,     \* how much of the bounds is used
    main,                 \* what the main thread does next
    then,                 \* what cancel_all_open_orders is for
    wasOpen,              \* was_open of run_until_stopped
    todo,                 \* orders the main thread has still to cancel
    snapshots,            \* participants whose book was fetched this tick
    cursor, considered,   \* _cursor; considered of _enqueue_due_intents
    extra,                \* intents of the current participant still to start
    pending, slots,       \* _pending; the semaphore
    job,                  \* the jobs in progress
    tracked,              \* _outstanding_orders
    due,                  \* those past expires_at_ms when last looked at
    alreadyClosed,        \* _orders_already_closed
    issued,               \* orders that have become jobs
    book,                 \* the matcher's view of each order
    late,                 \* requests on their way whose client has given up
    abandoned,            \* history: orders whose submit raised in the client
    uncanceled,           \* history: orders a cancel of which raised since the last drain began
    turns                 \* history: turns of each participant beyond the common ones

envVars == <<open, stop, sessions>>
loopVars == <<main, then, wasOpen>>
tickVars == <<snapshots, cursor, considered, extra, turns>>
slotVars == <<pending, slots, job>>
orderVars == <<tracked, alreadyClosed>>
matcherVars == <<book, late>>
faultVars == <<faults, abandoned, uncanceled>>
vars == <<envVars, loopVars, todo, due, tickVars, slotVars, orderVars, issued,
          matcherVars, faultVars>>

Idle == [kind |-> "none", order |-> 0, step |-> "idle", answer |-> "none"]
Done == [Idle EXCEPT !.step = "finish"]   \* in the finally clause of _run_job

Init ==
    /\ open \in BOOLEAN /\ stop = FALSE
    /\ sessions = 0 /\ faults = 0
    /\ main = "loop" /\ then = "none" /\ wasOpen = FALSE
    /\ todo = {} /\ due = {}
    /\ snapshots = {} /\ cursor = 0 /\ considered = 0 /\ extra = 0
    /\ pending = 0 /\ slots = HttpConcurrency
    /\ job = [j \in Jobs |-> Idle]
    /\ tracked = {} /\ alreadyClosed = 0
    /\ issued = 0
    /\ book = [o \in Orders |-> "none"]
    /\ late = {} /\ abandoned = {} /\ uncanceled = {}
    /\ turns = [p \in Participants |-> 0]

----------------------------------------------------------------------------
(* Slots and jobs, the main thread's side.                                 *)

StartHttpUncounted(kind, o) ==
    /\ slots > 0
    /\ pending' = pending + 1
    /\ \E j \in {i \in Jobs : job[i].step = "idle"} :
          job' = [job EXCEPT ![j] =
                    [kind |-> kind, order |-> o, step |-> "start", answer |-> "none"]]
    /\ UNCHANGED slots

\* _start_http with a slot to take: acquire, raise _pending, hand to the pool.
StartHttp(kind, o) ==
    /\ slots > 0
    /\ slots' = slots - 1
    /\ pending' = pending + 1
    /\ \E j \in {i \in Jobs : job[i].step = "idle"} :
          job' = [job EXCEPT ![j] =
                    [kind |-> kind, order |-> o, step |-> "start", answer |-> "none"]]

HasFreeSlot == pending < HttpConcurrency

----------------------------------------------------------------------------
(* run_until_stopped and tick_once.                                        *)

\* The while condition and the two tests of the session; an open market starts a tick.
Loop ==
    /\ main = "loop"
    /\ \/ /\ stop
          /\ main' = "idle1" /\ then' = "end"
          /\ UNCHANGED wasOpen
       \/ /\ ~stop /\ ~open /\ wasOpen
          /\ main' = "idle1" /\ then' = "close"
          /\ UNCHANGED wasOpen
       \/ /\ ~stop /\ ~open /\ ~wasOpen
          /\ main' = "closed"
          /\ UNCHANGED <<then, wasOpen>>
       \/ /\ ~stop /\ open
          /\ main' = "poll" /\ wasOpen' = TRUE
          /\ UNCHANGED then
    /\ UNCHANGED <<envVars, todo, due, tickVars, slotVars, orderVars, issued,
                   matcherVars, faultVars>>

\* _poll_market_events is over; _expire_orders lists the orders past their TTL.
ListExpired ==
    /\ main = "poll"
    /\ \E D \in SUBSET tracked :
          /\ due \subseteq D
          /\ due' = D /\ todo' = D
    /\ main' = "expire"
    /\ UNCHANGED <<envVars, then, wasOpen, tickVars, slotVars, orderVars, issued,
                   matcherVars, faultVars>>

\* One turn of the loop of _expire_orders.
ExpireOne ==
    /\ main = "expire"
    /\ \E o \in todo : StartHttp("cancel", o) /\ todo' = todo \ {o}
    /\ UNCHANGED <<envVars, loopVars, due, tickVars, orderVars, issued,
                   matcherVars, faultVars>>

\* The loop ends, or breaks at the first cancel that gets no slot.
ExpireEnd ==
    /\ main = "expire"
    /\ todo = {} \/ slots = 0
    /\ todo' = {}
    /\ main' = "fetch"
    /\ UNCHANGED <<envVars, then, wasOpen, due, tickVars, slotVars, orderVars, issued,
                   matcherVars, faultVars>>

\* _fetch_snapshots: a book request that raises BackendApiError leaves its symbol out.
FetchSnapshots ==
    /\ main = "fetch"
    /\ \E missing \in SUBSET Participants :
          /\ snapshots' = Participants \ missing
          /\ \/ missing = {} /\ UNCHANGED faults
             \/ missing # {} /\ faults < MaxFaults /\ faults' = faults + 1
    /\ considered' = 0
    /\ main' = "enqueue"
    /\ UNCHANGED <<envVars, then, wasOpen, todo, due, cursor, extra, turns, slotVars,
                   orderVars, issued, matcherVars, abandoned, uncanceled>>

\* An exception that is not a BackendApiError (a connection dropped before the
\* answer) leaves tick_once and run_until_stopped through its finally clause.
MainBreaks ==
    /\ main \in {"poll", "fetch"}
    /\ faults < MaxFaults
    /\ faults' = faults + 1
    /\ main' = "shutdown" /\ then' = "fail"
    /\ UNCHANGED <<envVars, wasOpen, todo, due, tickVars, slotVars, orderVars, issued,
                   matcherVars, abandoned, uncanceled>>

Current == (cursor + considered) % Count

\* History: p has had its turn.  Only differences between participants are kept.
TakeTurn(p) ==
    LET t == [turns EXCEPT ![p] = @ + 1]
    IN  turns' = IF \A q \in Participants : t[q] > 0
                 THEN [q \in Participants |-> t[q] - 1] ELSE t

InTurn ==
    /\ main = "enqueue" /\ extra = 0
    /\ considered < Count /\ HasFreeSlot

\* A participant without a snapshot, or with no intents, lets its turn pass.
TurnPasses ==
    /\ InTurn
    /\ Current \in snapshots => slots > 0
    /\ considered' = considered + 1
    /\ TakeTurn(Current)
    /\ UNCHANGED <<envVars, loopVars, todo, due, snapshots, cursor, extra, slotVars,
                   orderVars, issued, matcherVars, faultVars>>

\* A participant with intents: the first has the slot that was taken before asking.
TurnSubmits ==
    /\ InTurn
    /\ Current \in snapshots
    /\ \E intents \in 1 .. MaxIntents :
          issued + intents <= MaxOrders /\ extra' = intents - 1
    /\ StartHttp("submit", issued + 1)
    /\ issued' = issued + 1
    /\ considered' = considered + 1
    /\ TakeTurn(Current)
    /\ UNCHANGED <<envVars, loopVars, todo, due, snapshots, cursor, orderVars,
                   matcherVars, faultVars>>

\* The participant's further intents each need a slot of their own.
SubmitExtra ==
    /\ main = "enqueue" /\ extra > 0
    /\ StartHttp("submit", issued + 1)
    /\ issued' = issued + 1
    /\ extra' = extra - 1
    /\ UNCHANGED <<envVars, loopVars, todo, due, snapshots, cursor, considered, turns,
                   orderVars, matcherVars, faultVars>>

\* Without a slot the rest of them is dropped.
DropExtra ==
    /\ main = "enqueue" /\ extra > 0
    /\ slots = 0
    /\ extra' = 0
    /\ UNCHANGED <<envVars, loopVars, todo, due, snapshots, cursor, considered, turns,
                   slotVars, orderVars, issued, matcherVars, faultVars>>

AdvancePastRefused ==
    (cursor + considered + IF considered < Count /\ HasFreeSlot THEN 1 ELSE 0) % Count


Advance == (cursor + considered) % Count

\* The round is complete, no slot is free, or the slot seen free is not yet released.
EnqueueEnd ==
    /\ main = "enqueue" /\ extra = 0
    /\ \/ considered = Count
       \/ ~HasFreeSlot
       \/ Current \in snapshots /\ slots = 0
    /\ cursor' = Advance
    /\ considered' = 0 /\ snapshots' = {}
    /\ main' = "sleep"
    /\ UNCHANGED <<envVars, then, wasOpen, todo, due, extra, turns, slotVars, orderVars,
                   issued, matcherVars, faultVars>>

\* stop_event.wait after a tick, and until the next opening.
Wake ==
    /\ \/ main = "sleep"
       \/ main = "closed" /\ (open \/ stop)
    /\ main' = "loop"
    /\ UNCHANGED <<envVars, then, wasOpen, todo, due, tickVars, slotVars, orderVars,
                   issued, matcherVars, faultVars>>

----------------------------------------------------------------------------
(* cancel_all_open_orders, at the close and at the end.                    *)

Idled == pending = 0

ListOpenAtOnce ==
    /\ main = "idle1"
    /\ todo' = tracked
    /\ uncanceled' = {}
    /\ main' = "cancel"
    /\ UNCHANGED <<envVars, then, wasOpen, due, tickVars, slotVars, orderVars, issued,
                   matcherVars, faults, abandoned>>

\* The first wait_for_idle is over: everything tracked is to be canceled.
ListOpen ==
    /\ main = "idle1" /\ Idled
    /\ todo' = tracked
    /\ uncanceled' = {}
    /\ main' = "cancel"
    /\ UNCHANGED <<envVars, then, wasOpen, due, tickVars, slotVars, orderVars, issued,
                   matcherVars, faults, abandoned>>

\* A blocking _start_http for each of them.
CancelOpen ==
    /\ main = "cancel"
    /\ \/ /\ \E o \in todo : StartHttp("cancel", o) /\ todo' = todo \ {o}
          /\ UNCHANGED main
       \/ /\ todo = {}
          /\ main' = "idle2"
          /\ UNCHANGED <<todo, slotVars>>
    /\ UNCHANGED <<envVars, then, wasOpen, due, tickVars, orderVars, issued,
                   matcherVars, faultVars>>

\* The second wait_for_idle is over: the session is closed, or the runner ends.
Drained ==
    /\ main = "idle2" /\ Idled
    /\ \/ then = "close" /\ main' = "closed" /\ wasOpen' = FALSE
       \/ then = "end" /\ main' = "shutdown" /\ UNCHANGED wasOpen
    /\ UNCHANGED <<envVars, then, todo, due, tickVars, slotVars, orderVars, issued,
                   matcherVars, faultVars>>

\* wait_for_idle raises TimeoutError, which nothing catches.
IdleTimesOut ==
    /\ IdleMayTimeOut
    /\ main \in {"idle1", "idle2"} /\ ~Idled
    /\ main' = "shutdown" /\ then' = "fail"
    /\ UNCHANGED <<envVars, wasOpen, todo, due, tickVars, slotVars, orderVars, issued,
                   matcherVars, faultVars>>

\* close: the pool's shutdown waits for its threads.
Close ==
    /\ main = "shutdown"
    /\ \A j \in Jobs : job[j].step = "idle"
    /\ main' = IF then = "end" THEN "ended" ELSE "failed"
    /\ UNCHANGED <<envVars, then, wasOpen, todo, due, tickVars, slotVars, orderVars,
                   issued, matcherVars, faultVars>>

----------------------------------------------------------------------------
(* The jobs.                                                               *)

\* _cancel reads the order's symbol under the lock before it sends the request; for
\* an order that another cancel removed meanwhile the request carries no symbol.
Send(j) ==
    /\ job[j].step = "start"
    /\ job' = [job EXCEPT
                 ![j].step = "sent",
                 ![j].answer = IF job[j].kind = "cancel" /\ job[j].order \notin tracked
                               THEN "nosymbol" ELSE "none"]
    /\ UNCHANGED <<envVars, loopVars, todo, due, tickVars, pending, slots, orderVars,
                   issued, matcherVars, faultVars>>

\* _submit after the answer: an order with a remainder is tracked.
SubmitAnswered(j) ==
    /\ job[j].step = "answered" /\ job[j].kind = "submit"
    /\ tracked' = IF job[j].answer = "remaining" THEN tracked \cup {job[j].order} ELSE tracked
    /\ job' = [job EXCEPT ![j] = Done]
    /\ UNCHANGED <<envVars, loopVars, todo, due, tickVars, pending, slots, alreadyClosed,
                   issued, matcherVars, faultVars>>

CancelAnsweredKeepsClosed(j) ==
    /\ job[j].step = "answered" /\ job[j].kind = "cancel"
    /\ job[j].answer \in {"CANCELED", "ALREADY_CLOSED"}
    /\ alreadyClosed' = alreadyClosed
    /\ tracked' = IF job[j].answer = "CANCELED" THEN tracked \ {job[j].order} ELSE tracked
    /\ due' = due \cap tracked'
    /\ job' = [job EXCEPT ![j] = Done]
    /\ UNCHANGED <<envVars, loopVars, todo, tickVars, pending, slots, issued,
                   matcherVars, faultVars>>

\* _cancel after the answer: CANCELED and ALREADY_CLOSED both end the tracking.
CancelAnswered(j) ==
    /\ job[j].step = "answered" /\ job[j].kind = "cancel"
    /\ job[j].answer \in {"CANCELED", "ALREADY_CLOSED"}
    /\ alreadyClosed' =
          IF job[j].answer = "ALREADY_CLOSED" THEN alreadyClosed + 1 ELSE alreadyClosed
    /\ tracked' = tracked \ {job[j].order}
    /\ due' = due \ {job[j].order}
    /\ job' = [job EXCEPT ![j] = Done]
    /\ UNCHANGED <<envVars, loopVars, todo, tickVars, pending, slots, issued,
                   matcherVars, faultVars>>

\* An error status: the gateway's answer to a cancel without a symbol.
CancelRejected(j) ==
    /\ job[j].step = "answered" /\ job[j].kind = "cancel"
    /\ job[j].answer = "rejected"
    /\ job' = [job EXCEPT ![j] = Done]
    /\ UNCHANGED <<envVars, loopVars, todo, due, tickVars, pending, slots, orderVars,
                   issued, matcherVars, faultVars>>

RaiseForgets(j) ==
    /\ job[j].step \in {"sent", "answered"} /\ job[j].kind = "cancel"
    /\ faults < MaxFaults
    /\ faults' = faults + 1
    /\ tracked' = tracked \ {job[j].order}
    /\ due' = due \ {job[j].order}
    /\ uncanceled' = uncanceled \cup {job[j].order}
    /\ job' = [job EXCEPT ![j] = Done]
    /\ UNCHANGED <<envVars, loopVars, todo, tickVars, pending, slots, alreadyClosed,
                   issued, matcherVars, abandoned>>

\* The request raises: a timeout, a refused connection, a connection dropped or an
\* unreadable answer.  Whatever was sent may still be on its way.
Raise(j) ==
    /\ job[j].step \in {"sent", "answered"}
    /\ faults < MaxFaults
    /\ faults' = faults + 1
    /\ late' = IF job[j].step = "sent" /\ job[j].answer = "none"
               THEN late \cup {[kind |-> job[j].kind, order |-> job[j].order]} ELSE late
    /\ \/ /\ job[j].kind = "submit"
          /\ abandoned' = abandoned \cup {job[j].order}
          /\ UNCHANGED uncanceled
       \/ /\ job[j].kind = "cancel"
          /\ uncanceled' = uncanceled \cup {job[j].order}
          /\ UNCHANGED abandoned
    /\ job' = [job EXCEPT ![j] = Done]
    /\ UNCHANGED <<envVars, loopVars, todo, due, tickVars, pending, slots, orderVars,
                   issued, book>>

\* The finally clause of _run_job: first the count, then the slot.
Finish(j) ==
    /\ job[j].step = "finish"
    /\ pending' = pending - 1
    /\ job' = [job EXCEPT ![j].step = "release"]
    /\ UNCHANGED <<envVars, loopVars, todo, due, tickVars, slots, orderVars, issued,
                   matcherVars, faultVars>>

ReleaseCountOnly(j) ==
    /\ job[j].step = "release"
    /\ job' = [job EXCEPT ![j] = Idle]
    /\ UNCHANGED <<envVars, loopVars, todo, due, tickVars, pending, slots, orderVars,
                   issued, matcherVars, faultVars>>


Release(j) ==
    /\ job[j].step = "release"
    /\ slots' = slots + 1
    /\ job' = [job EXCEPT ![j] = Idle]
    /\ UNCHANGED <<envVars, loopVars, todo, due, tickVars, pending, orderVars, issued,
                   matcherVars, faultVars>>

----------------------------------------------------------------------------
(* The matcher, the traders of other runners, the clock and the operator.  *)

\* What a submit does to its order: it rests, fills at once, or is refused.
Outcome == {"resting", "closed", "none"}

ServeSubmit(j) ==
    /\ job[j].step = "sent" /\ job[j].kind = "submit"
    /\ \E outcome \in Outcome :
          /\ book' = [book EXCEPT ![job[j].order] = outcome]
          /\ job' = [job EXCEPT
                       ![j].step = "answered",
                       ![j].answer = CASE outcome = "resting" -> "remaining"
                                       [] outcome = "closed" -> "filled"
                                       [] outcome = "none" -> "rejected"]
    /\ UNCHANGED <<envVars, loopVars, todo, due, tickVars, pending, slots, orderVars,
                   issued, late, faultVars>>

\* A cancel is idempotent; without a symbol the gateway refuses it.
ServeCancel(j) ==
    /\ job[j].step = "sent" /\ job[j].kind = "cancel"
    /\ LET o == job[j].order
       IN  \/ /\ book[o] = "resting"
              /\ book' = [book EXCEPT ![o] = "canceled"]
              /\ job' = [job EXCEPT ![j].step = "answered", ![j].answer = "CANCELED"]
           \/ /\ book[o] # "resting"
              /\ job' = [job EXCEPT ![j].step = "answered", ![j].answer = "ALREADY_CLOSED"]
              /\ UNCHANGED book
           \/ /\ job[j].answer = "nosymbol"
              /\ job' = [job EXCEPT ![j].step = "answered", ![j].answer = "rejected"]
              /\ UNCHANGED book
    /\ UNCHANGED <<envVars, loopVars, todo, due, tickVars, pending, slots, orderVars,
                   issued, late, faultVars>>

\* A request whose client has given up arrives, or is lost.
ServeLate ==
    /\ \E r \in late :
          /\ late' = late \ {r}
          /\ \/ /\ r.kind = "submit"
                /\ \E outcome \in Outcome : book' = [book EXCEPT ![r.order] = outcome]
             \/ /\ r.kind = "cancel" /\ book[r.order] = "resting"
                /\ book' = [book EXCEPT ![r.order] = "canceled"]
             \/ UNCHANGED book
    /\ UNCHANGED <<envVars, loopVars, todo, due, tickVars, slotVars, orderVars, issued,
                   faultVars>>

\* A resting order is filled, expired or rolled over by the matcher.
Fill ==
    /\ \E o \in Orders : book[o] = "resting" /\ book' = [book EXCEPT ![o] = "closed"]
    /\ UNCHANGED <<envVars, loopVars, todo, due, tickVars, slotVars, orderVars, issued,
                   late, faultVars>>

\* The market opens or closes.
TurnSession ==
    /\ sessions < MaxSessions
    /\ sessions' = sessions + 1
    /\ open' = ~open
    /\ UNCHANGED <<stop, loopVars, todo, due, tickVars, slotVars, orderVars, issued,
                   matcherVars, faultVars>>

\* SIGINT or SIGTERM sets stop_event.
Signal ==
    /\ ~stop
    /\ stop' = TRUE
    /\ UNCHANGED <<open, sessions, loopVars, todo, due, tickVars, slotVars, orderVars,
                   issued, matcherVars, faultVars>>

----------------------------------------------------------------------------
Main ==
    \/ Loop \/ ListExpired \/ ExpireOne \/ ExpireEnd \/ FetchSnapshots
    \/ TurnPasses \/ TurnSubmits \/ SubmitExtra \/ DropExtra \/ EnqueueEnd \/ Wake
    \/ ListOpen \/ CancelOpen \/ Drained \/ Close

Job(j) ==
    \/ Send(j) \/ SubmitAnswered(j) \/ CancelAnswered(j) \/ CancelRejected(j)
    \/ Finish(j) \/ Release(j)

Serve(j) == ServeSubmit(j) \/ ServeCancel(j)

Next ==
    \/ Main \/ MainBreaks \/ IdleTimesOut
    \/ \E j \in Jobs : Job(j) \/ Raise(j) \/ Serve(j)
    \/ ServeLate \/ Fill \/ TurnSession \/ Signal

Spec == Init /\ [][Next]_vars

\* The threads run, and a request is answered (or raises, which ends its job too).
FairSpec ==
    /\ Spec
    /\ WF_vars(Main)
    /\ \A j \in Jobs : WF_vars(Job(j)) /\ WF_vars(Serve(j))

----------------------------------------------------------------------------
(* Properties.                                                             *)

Busy == {j \in Jobs : job[j].step # "idle"}
Unfinished == {j \in Jobs : job[j].step \in {"start", "sent", "answered", "finish"}}
Resting == {o \in Orders : book[o] = "resting"}

\* Types of the state.
TypeOK ==
    /\ open \in BOOLEAN /\ stop \in BOOLEAN /\ wasOpen \in BOOLEAN
    /\ sessions \in 0 .. MaxSessions /\ faults \in 0 .. MaxFaults
    /\ main \in {"loop", "poll", "expire", "fetch", "enqueue", "sleep", "closed",
                 "idle1", "cancel", "idle2", "shutdown", "ended", "failed"}
    /\ then \in {"none", "close", "end", "fail"}
    /\ todo \subseteq Orders /\ due \subseteq tracked /\ tracked \subseteq Orders
    /\ snapshots \subseteq Participants
    /\ cursor \in Participants /\ considered \in 0 .. Count
    /\ extra \in 0 .. MaxIntents
    /\ pending \in 0 .. HttpConcurrency /\ slots \in 0 .. HttpConcurrency
    /\ job \in [Jobs -> [kind : {"none", "submit", "cancel"}, order : 0 .. MaxOrders,
                         step : {"idle", "start", "sent", "answered", "finish", "release"},
                         answer : {"none", "nosymbol", "remaining", "filled", "rejected",
                                   "CANCELED", "ALREADY_CLOSED"}]]
    /\ alreadyClosed \in Nat
    /\ issued \in 0 .. MaxOrders
    /\ book \in [Orders -> {"none", "resting", "closed", "canceled"}]
    /\ late \subseteq [kind : {"submit", "cancel"}, order : Orders]
    /\ abandoned \subseteq Orders /\ uncanceled \subseteq Orders
    /\ turns \in [Participants -> Nat]

\* HTTP_CONCURRENCY bounds the requests in flight at any moment and no job waits for a
\* thread: each job holds one slot until it is over, and _pending counts the jobs
\* whose finally clause has not begun, whatever raised in them.
SlotAccounting ==
    /\ slots = HttpConcurrency - Cardinality(Busy)
    /\ pending = Cardinality(Unfinished)

\* An order that rests at the matcher is tracked, or the answer to its submit has not
\* been recorded yet, or the client never got that answer: fills, duplicate cancels and
\* failed cancels that overtake each other never make the runner forget it.
NothingForgotten ==
    \A o \in Resting :
        \/ o \in tracked \cup abandoned
        \/ \E j \in Jobs : /\ job[j].kind = "submit" /\ job[j].order = o
                          /\ job[j].step \in {"sent", "answered"}

\* After the close of a session and after a regular end no order of the runner rests,
\* unless its submit or its last cancel raised in the client: cancel_all_open_orders
\* must not miss an order whose submit was in flight when it was called.
DrainLeavesNothing ==
    main \in {"closed", "ended"} => Resting \subseteq abandoned \cup uncanceled

\* While the market is closed and once the process has ended, even by an exception, no
\* job of the runner has a request in flight.
QuietOutsideHours ==
    main \in {"closed", "ended", "failed"} => Unfinished = {}

\* A second cancel of one order may go out without a symbol, which the gateway refuses;
\* by then the order no longer rests, so the refusal loses nothing.
BlankCancelHarmless ==
    \A j \in Jobs : job[j].answer = "nosymbol" => job[j].order \notin Resting

\* No participant gets two turns more than another, however often the slots run out
\* in the middle of a round.
RoundRobin ==
    \A p \in Participants : turns[p] <= 1

\* After SIGTERM the runner ends: neither wait for slots nor wait for idle lasts forever.
StopEnds ==
    stop ~> main \in {"ended", "failed"}

\* An order that cancel_all_open_orders lists leaves the tracked ones, unless its cancel
\* raises in the client: the blocking _start_http gets a slot for it although older
\* cancels and failing requests hold them, and one that was closed before is dropped too.
ListedGoes ==
    \A o \in Orders :
        (main = "cancel" /\ o \in todo) ~> (o \notin tracked \/ o \in uncanceled)
=============================================================================
