-------------------------- MODULE EventCoordinator --------------------------
(***************************************************************************)
(* The event coordinator of the participant runner (coordinator.py) with   *)
(* the event-reactive traders it wakes (participants/traders.py).          *)
(*                                                                         *)
(* The main thread ticks: it applies the live events it polled, trader by  *)
(* trader and without the runner's lock, then takes the lock, applies the  *)
(* due fixture events, drops orders that are too late and completes        *)
(* events, and last asks each trader for the orders of this tick.  The     *)
(* jobs that submit those orders report back under the lock at any later   *)
(* moment.                                                                 *)
(*                                                                         *)
(* Time is counted in tick intervals.  All traders and events are of one   *)
(* symbol: the planner leaves traders of other symbols alone.  The         *)
(* resolved plan is a choice within the planner's ranges, which the module *)
(* ReactionPlanner computes.                                               *)
(***************************************************************************)
EXTENDS Integers, Sequences, FiniteSets, Functions

CONSTANTS
    Traders,          \* the EventReactiveTrader participants
    Live,             \* ids of events the backend may deliver, again and again
    Fixture,          \* ids of the events of the scenario
    Starts,           \* values of starts_after_ms of scenario events
    Delays,           \* reaction delays, rounded up
    Counts,           \* order_count
    Intervals,        \* order_interval_ticks
    MaxLag,           \* max_scheduler_lag_ms of the presets
    MayRaise,         \* whether a submit may raise anything but BackendApiError
    LastEventTick,    \* bound: live events arrive up to this tick
    MaxTick,          \* bound: ticks
    MaxElapsed        \* bound: the clock of the coordinator

Events == Live \cup Fixture
None == "none"

ASSUME CoordinatorAssumption ==
    /\ IsFiniteSet(Traders) /\ IsFiniteSet(Events) /\ None \notin Events
    /\ Starts \subseteq Nat /\ Delays \subseteq Nat /\ Delays # {}
    /\ Counts \subseteq Nat \ {0} /\ \E m \in Counts : \A n \in Counts : n <= m
    /\ Intervals \subseteq Nat \ {0} /\ Intervals # {}
    /\ MayRaise \in BOOLEAN /\ MaxLag \in Nat /\ LastEventTick \in Nat /\ MaxTick \in Nat
    /\ MaxElapsed \in Nat /\ MaxTick <= MaxElapsed + 1

MaxOf(S) == CHOOSE m \in S : \A n \in S : n <= m
Orders == Events \X Traders \X (1 .. MaxOf(Counts))

VARIABLES
    start,        \* starts_after_ms of the scenario's events
    tick, elapsed,\* _tick of the runner; elapsed_ms()
    main,         \* what the main thread does next
    batch,        \* events still to apply in this tick
    applying,     \* the event whose plan is being assigned, or None
    toAssign,     \* its reactions not yet assigned
    turn,         \* traders that have not had their turn in this tick
    next,         \* fixture events SyntheticEventSource has not handed out
    processed,    \* _processed_events: as what an event was planned
    live,         \* _live_event_ids
    plan,         \* _plan and _consumed_indexes of each trader
    traderEvent,  \* _trader_event
    run,          \* _runs
    inflight,     \* orders whose submit has not reported back
    sent,         \* history: orders that became a submit
    lost          \* history: orders no counter was told of

timeVars == <<start, elapsed>>
stepVars == <<main, batch, applying, toAssign, turn>>
eventVars == <<next, processed, live>>
jobVars == <<inflight, sent, lost>>
vars == <<timeVars, tick, stepVars, eventVars, plan, traderEvent, run, jobVars>>

-----------------------------------------------------------------------------
(* Traders *)

NoPlan == [event |-> None, offsets |-> << >>, consumed |-> {}]

\* A plan as apply_plan installs it: nothing of it is consumed.
PlanOf(u, e, offsets) == [event |-> e, offsets |-> offsets, consumed |-> {}]

\* Orders of the trader's plan that were neither sent nor dropped.
Open(u) == DOMAIN plan[u].offsets \ plan[u].consumed
Remaining(u) == Cardinality(Open(u))

\* Mutant of Due: what has become due is sent, consumed or not.
DueOnceDue(u) == {i \in DOMAIN plan[u].offsets : plan[u].offsets[i] <= tick}

\* What next_intents returns in this tick: an order has exactly one tick.
AtLeastOne(n) == IF n < 1 THEN 1 ELSE n
Due(u) == {i \in Open(u) : AtLeastOne(plan[u].offsets[i]) = tick}

\* The clock that decides whether an order is late.
SchedulerTime(e) == IF e \in live THEN tick ELSE elapsed
IsLate(u, i) == SchedulerTime(traderEvent[u]) - plan[u].offsets[i] > MaxLag

\* Mutant of Late: consumed orders are dropped again.
LateConsumed(u) == {i \in DOMAIN plan[u].offsets : traderEvent[u] # None /\ IsLate(u, i)}

\* Orders of the current event whose time has passed by more than MaxLag.
Late(u) == {i \in Open(u) : traderEvent[u] # None /\ IsLate(u, i)}

-----------------------------------------------------------------------------
(* Counters of the events *)

NoRun == [planned |-> 0, submitted |-> 0, dropped |-> 0, completed |-> FALSE]

Planned == SumFunction([e \in Events |-> run[e].planned])
Submitted == SumFunction([e \in Events |-> run[e].submitted])
Dropped == SumFunction([e \in Events |-> run[e].dropped])

\* Mutant of MaybeComplete: the first submit completes the event.
MaybeCompleteEarly(r, p, t, e) ==
    [r EXCEPT ![e].completed = @ \/ r[e].submitted > 0]

\* Mutant of MaybeComplete: an event of which nothing was submitted stays open.
MaybeCompleteSubmitted(r, p, t, e) ==
    [r EXCEPT ![e].completed =
        \/ @
        \/ /\ r[e].submitted > 0
           /\ \A u \in Traders : t[u] = e => DOMAIN p[u].offsets \subseteq p[u].consumed]

\* _maybe_complete(e), with r the run, p the plans and t the trader events it finds.
MaybeComplete(r, p, t, e) ==
    [r EXCEPT ![e].completed =
        \/ @
        \/ /\ r[e].planned > 0
           /\ \A u \in Traders : t[u] = e => DOMAIN p[u].offsets \subseteq p[u].consumed]

-----------------------------------------------------------------------------
(* Applying events *)

Init ==
    /\ start \in [Fixture -> Starts]
    /\ tick = 0 /\ elapsed = 0
    /\ main = "wait" /\ batch = {} /\ applying = None /\ toAssign = << >> /\ turn = {}
    /\ next = Fixture /\ processed = [e \in Events |-> None] /\ live = {}
    /\ plan = [u \in Traders |-> NoPlan]
    /\ traderEvent = [u \in Traders |-> None]
    /\ run = [e \in Events |-> NoRun]
    /\ inflight = {} /\ sent = {} /\ lost = {}

\* The main thread holds the runner's lock from before_tick to its end.
Locked == main = "before"

\* tick_once begins; the poll fails, or answers with some pending events.  The
\* loop waits a whole interval between ticks, longer while the market is closed:
\* the clock that before_tick reads is never behind the ticks.
Tick ==
    /\ main = "wait" /\ tick < MaxTick
    /\ tick' = tick + 1
    /\ elapsed' \in (IF elapsed < tick THEN tick ELSE elapsed) .. MaxElapsed
    /\ batch' \in IF tick' <= LastEventTick THEN SUBSET Live ELSE {{}}
    /\ main' = "poll"
    /\ UNCHANGED <<start, applying, toAssign, turn, eventVars, plan, traderEvent, run, jobVars>>

\* Only traders that have nothing left to send are candidates.
Candidates == {u \in Traders : Remaining(u) = 0}

\* Order offsets of a reaction: a delay after the event, then one per interval.
Offsets(first, count, interval) == [i \in 1 .. count |-> first + (i - 1) * interval]

\* The reactions planned for an event: at least one candidate wakes.
Reactions(first) ==
    {r \in [Candidates -> {<< >>} \cup
                {Offsets(first + d, c, v) : d \in Delays, c \in Counts, v \in Intervals}] :
        Candidates # {} => \E u \in Candidates : r[u] # << >>}

\* Whether plan_once has seen the event.
Known(e) == processed[e] # None

\* _apply_event(e): known events are counted and left alone, and an id used by
\* both sources raises; otherwise its reactions are assigned one by one.
ApplyEvent(e, source, first) ==
    /\ batch' = batch \ {e}
    /\ IF Known(e) THEN UNCHANGED <<processed, applying, toAssign>>
       ELSE /\ processed' = [processed EXCEPT ![e] = source]
            /\ applying' = e
            /\ toAssign' \in Reactions(first)

\* The event raises if the other source used its id: see ApplyFixture.
ApplyLive(e) ==
    /\ main = "poll" /\ applying = None /\ e \in batch
    /\ live' = live \cup {e}
    /\ ApplyEvent(e, "live", tick)
    /\ UNCHANGED <<timeVars, tick, main, turn, next, plan, traderEvent, run, jobVars>>

\* One reaction of _assign_plans.  The trader's previous event is forgotten,
\* also when the new one leaves the trader asleep.
Assign(u) ==
    /\ applying # None /\ u \in DOMAIN toAssign
    /\ LET e == applying
           n == Len(toAssign[u])
           old == traderEvent[u]
           left == IF old = None THEN 0 ELSE Remaining(u)
           forgot == [traderEvent EXCEPT ![u] = None]
           dropped == IF left = 0 THEN run
                      ELSE MaybeComplete([run EXCEPT ![old].dropped = @ + left], plan, forgot, old)
       IN /\ plan' = [plan EXCEPT ![u] = PlanOf(u, e, toAssign[u])]
          /\ traderEvent' = [traderEvent EXCEPT ![u] = IF n = 0 THEN None ELSE e]
          /\ run' = [dropped EXCEPT ![e].planned = @ + n]
    /\ toAssign' = [v \in DOMAIN toAssign \ {u} |-> toAssign[v]]
    /\ UNCHANGED <<timeVars, tick, main, batch, applying, turn, eventVars, jobVars>>

Assigned ==
    /\ applying # None /\ DOMAIN toAssign = {}
    /\ applying' = None /\ toAssign' = << >>
    /\ UNCHANGED <<timeVars, tick, main, batch, turn, eventVars, plan, traderEvent, run, jobVars>>

-----------------------------------------------------------------------------
(* before_tick *)

\* before_tick takes the lock and hands out the fixture events that are due.
BeforeTick ==
    /\ main = "poll" /\ applying = None /\ batch = {}
    /\ main' = "before"
    /\ batch' = {e \in next : start[e] <= elapsed}
    /\ next' = next \ batch'
    /\ UNCHANGED <<timeVars, tick, applying, toAssign, turn, processed, live, plan, traderEvent, run, jobVars>>

\* A fixture event, in the order of start.  If a live event used its id,
\* plan_once raises: the rest of before_tick, the other due events included,
\* is skipped in this tick.
ApplyFixture(e) ==
    /\ main = "before" /\ applying = None /\ e \in batch
    /\ \A d \in batch : start[e] <= start[d]
    /\ \/ /\ processed[e] # "live"
          /\ ApplyEvent(e, "fixture", start[e])
          /\ UNCHANGED <<main, turn>>
       \/ /\ processed[e] = "live"
          /\ batch' = {} /\ main' = "enqueue" /\ turn' = Traders
          /\ UNCHANGED <<processed, applying, toAssign>>
    /\ UNCHANGED <<timeVars, tick, next, live, plan, traderEvent, run, jobVars>>

\* Late orders are dropped and events without open orders completed.
DropLate ==
    /\ main = "before" /\ applying = None /\ batch = {}
    /\ plan' = [u \in Traders |-> [plan[u] EXCEPT !.consumed = @ \cup Late(u)]]
    /\ run' = [e \in Events |->
                 LET late == [u \in Traders |-> IF traderEvent[u] = e THEN Cardinality(Late(u)) ELSE 0]
                     r == [run EXCEPT ![e].dropped = @ + SumFunction(late)]
                 IN MaybeComplete(r, plan', traderEvent, e)[e]]
    /\ main' = "enqueue" /\ turn' = Traders
    /\ UNCHANGED <<timeVars, tick, batch, applying, toAssign, eventVars, traderEvent, jobVars>>

-----------------------------------------------------------------------------
(* _enqueue_due_intents and the jobs *)

OrdersOf(u, I) == {<<plan[u].event, u, i>> : i \in I}

\* The trader has its turn: all orders due are consumed, the first gets a slot
\* and the later ones only while slots are free.
TakeTurn(u) ==
    /\ main = "enqueue" /\ u \in turn /\ Due(u) # {}
    /\ \E k \in 1 .. Cardinality(Due(u)) :
         LET go == {i \in Due(u) : Cardinality({j \in Due(u) : j <= i}) <= k}
         IN /\ inflight' = inflight \cup OrdersOf(u, go)
            /\ sent' = sent \cup OrdersOf(u, go)
            /\ lost' = lost \cup OrdersOf(u, Due(u) \ go)
    /\ plan' = [plan EXCEPT ![u].consumed = @ \cup Due(u)]
    /\ turn' = turn \ {u}
    /\ UNCHANGED <<timeVars, tick, main, batch, applying, toAssign, eventVars, traderEvent, run>>

\* The trader has nothing due, its book could not be fetched, or the round
\* ended before its turn because no slot was free.
MissTurn(u) ==
    /\ main = "enqueue" /\ u \in turn
    /\ turn' = turn \ {u}
    /\ UNCHANGED <<timeVars, tick, main, batch, applying, toAssign, eventVars, plan, traderEvent, run, jobVars>>

TickEnds ==
    /\ main = "enqueue" /\ turn = {}
    /\ main' = "wait"
    /\ UNCHANGED <<timeVars, tick, batch, applying, toAssign, turn, eventVars, plan, traderEvent, run, jobVars>>

\* The event a finished submit is counted for.
EventOf(o) == traderEvent[o[2]]

\* after_submit: the submit is counted for the event its trader reacts to now,
\* or not at all when that was forgotten.
AfterSubmit(o, submitted) ==
    /\ o \in inflight /\ ~Locked
    /\ inflight' = inflight \ {o}
    /\ LET e == EventOf(o)
       IN IF e = None THEN lost' = lost \cup {o} /\ UNCHANGED run
          ELSE /\ run' = MaybeComplete(
                       IF submitted THEN [run EXCEPT ![e].submitted = @ + 1]
                                    ELSE [run EXCEPT ![e].dropped = @ + 1],
                       plan, traderEvent, e)
               /\ UNCHANGED lost
    /\ UNCHANGED <<timeVars, tick, stepVars, eventVars, plan, traderEvent, sent>>

\* A submit that raises something other than BackendApiError is not reported.
SubmitRaises(o) ==
    /\ MayRaise /\ o \in inflight
    /\ inflight' = inflight \ {o} /\ lost' = lost \cup {o}
    /\ UNCHANGED <<timeVars, tick, stepVars, eventVars, plan, traderEvent, run, sent>>

MainStep ==
    \/ Tick \/ BeforeTick \/ DropLate \/ TickEnds \/ Assigned
    \/ \E e \in Events : ApplyLive(e) \/ ApplyFixture(e)
    \/ \E u \in Traders : Assign(u) \/ TakeTurn(u) \/ MissTurn(u)

Next ==
    \/ MainStep
    \/ \E o \in inflight : SubmitRaises(o) \/ \E submitted \in BOOLEAN : AfterSubmit(o, submitted)

Spec == Init /\ [][Next]_vars

\* The main loop goes on; jobs may never report.
FairSpec == Spec /\ WF_vars(MainStep)
-----------------------------------------------------------------------------
(* Properties *)

\* The types of the runs, plans and counters: a plan consumes only offsets it has.
TypeOK ==
    /\ start \in [Fixture -> Starts]
    /\ tick \in 0 .. MaxTick /\ elapsed \in 0 .. MaxElapsed
    /\ main \in {"wait", "poll", "before", "enqueue"}
    /\ batch \subseteq Events /\ turn \subseteq Traders /\ next \subseteq Fixture /\ live \subseteq Live
    /\ applying \in Events \cup {None} /\ DOMAIN toAssign \subseteq Traders
    /\ processed \in [Events -> {None, "live", "fixture"}]
    /\ traderEvent \in [Traders -> Events \cup {None}]
    /\ \A u \in Traders : plan[u].event \in Events \cup {None} /\ plan[u].consumed \subseteq DOMAIN plan[u].offsets
    /\ run \in [Events -> [planned : Nat, submitted : Nat, dropped : Nat, completed : BOOLEAN]]
    /\ inflight \subseteq Orders /\ sent \subseteq Orders /\ lost \subseteq Orders

\* Every planned order is waiting, in flight, counted exactly once as submitted
\* or dropped, or one of those no counter hears of: late drops, failed submits
\* and reports that come after the next event count nothing twice, and plans
\* consume only orders they have (TypeOK; _drop_late_orders, after_submit, _assign_plans).
EveryOrderAccounted ==
    /\ TypeOK
    /\ Planned = Submitted + Dropped + SumFunction([u \in Traders |-> Remaining(u)])
                 + Cardinality(inflight) + Cardinality(lost)

\* An order is sent once, however often the backend delivers its event again
\* and however late its submit reports back (plan_once, next_intents).
SentOnce == [][\A o \in sent : o \in inflight' => o \in inflight]_vars

\* An event that is reported complete sends nothing any more, although another
\* thread may complete it while its plan is being assigned without the lock.
CompletedSendsNothing ==
    \A e \in Events : run[e].completed =>
        /\ \A u \in Traders : plan[u].event = e => Open(u) = {}
        /\ \A u \in DOMAIN toAssign : applying = e => toAssign[u] = << >>

\* Every event that planned orders completes, whatever turns its traders miss
\* and whether or not any submit ever reports back.
EventCompletes == \A e \in Events : run[e].planned > 0 ~> run[e].completed

=============================================================================
