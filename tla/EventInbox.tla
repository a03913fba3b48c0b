----------------------------- MODULE EventInbox -----------------------------
(***************************************************************************)
(* The market event inbox: rows of MarketEventInbox (models.py), the views *)
(* that ingest, list and acknowledge them (views.py), and the runners that *)
(* poll, apply and acknowledge (runner.py, client.py).                     *)
(*                                                                         *)
(* The views run in the matcher's request threads without a transaction:   *)
(* a view reads a row, decides, and saves the state later.  A client may   *)
(* give up on a request that the matcher still serves, and a runner may    *)
(* crash at any moment and forget which events it has planned.             *)
(*                                                                         *)
(* Events are numbered in the order of detected_at and event_id.           *)
(***************************************************************************)
EXTENDS Integers, FiniteSets

CONSTANTS
    N,            \* bound: events ever ingested
    Runners,      \* runner processes with event-reactive traders
    Threads,      \* request threads of the matcher
    Limit,        \* events a poll returns, at most (100)
    Clashing,     \* events whose id a scenario event used: applying them raises
    MaxFaults,    \* bound: requests a client gives up on
    MaxCrashes    \* bound: crashes of runners

Events == 1 .. N

ASSUME InboxAssumption ==
    /\ N \in Nat /\ Limit \in Nat \ {0} /\ Clashing \subseteq Events
    /\ MaxFaults \in Nat /\ MaxCrashes \in Nat

VARIABLES
    row,          \* state of each event's row
    old,          \* events older than SIMULATION_EVENT_MAX_AGE_SECONDS
    wants,        \* events of the symbols of each runner's traders
    open,         \* whether the market is open
    thread,       \* what each request thread does
    runner,       \* what each runner does
    planned,      \* _live_events of each runner process
    faults, crashes,
    applied,      \* history: events a runner planned in any life
    acked,        \* history: acknowledgements a runner got an answer to
    answered      \* history: events whose acknowledgement was answered

serverVars == <<row, old, open, thread>>
historyVars == <<applied, acked, answered>>
vars == <<row, old, wants, open, thread, runner, planned, faults, crashes, applied, acked, answered>>

Idle == [op |-> "idle"]
Nobody == "nobody"

\* A request thread that serves a poll of runner r.
Polling(op, r, asked, rows) == [op |-> op, for |-> r, asked |-> asked, rows |-> rows]

\* A runner between ticks, and one that handles what a poll delivered.
Resting == [pc |-> "rest", todo |-> {}]
Handling(todo) == [pc |-> "handle", todo |-> todo]

Init ==
    /\ row = [e \in Events |-> "absent"]
    /\ old = {} /\ open \in BOOLEAN
    /\ wants \in [Runners -> SUBSET Events]
    /\ thread = [t \in Threads |-> Idle]
    /\ runner = [r \in Runners |-> Resting]
    /\ planned = [r \in Runners |-> {}]
    /\ faults = 0 /\ crashes = 0
    /\ applied = {} /\ acked = {} /\ answered = {}

-----------------------------------------------------------------------------
(* Ingest, and the passing of time *)

\* The analyzer posts an event; posting it again changes nothing.
Ingest(e) ==
    /\ row[e] = "absent"
    /\ row' = [row EXCEPT ![e] = "pending"]
    /\ UNCHANGED <<old, wants, open, thread, runner, planned, faults, crashes, historyVars>>

Age(e) ==
    /\ e \notin old
    /\ old' = old \cup {e}
    /\ UNCHANGED <<row, wants, open, thread, runner, planned, faults, crashes, historyVars>>

TurnSession ==
    /\ open' = ~open
    /\ UNCHANGED <<row, old, wants, thread, runner, planned, faults, crashes, historyVars>>

-----------------------------------------------------------------------------
(* pending_market_events *)

Pending == {e \in Events : row[e] = "pending"}

\* Mutant of Cutoff: only rows nobody waits for go stale.
CutoffUnwanted == {e \in Pending \cap old : \A r \in Runners : e \notin wants[r]}

\* The rows _mark_stale_market_events selects and finds too old.
Cutoff == Pending \cap old

\* The first events in order, at most Limit.
First(S) == {e \in S : Cardinality({d \in S : d < e}) < Limit}

\* What the poll of a thread answers with.
Deliverable(t) == First(Pending \cap thread[t].asked)

\* A tick of the runner polls: the runner ticks only while the market is open.
Poll(r, t) ==
    /\ open /\ runner[r].pc = "rest" /\ thread[t] = Idle
    /\ runner' = [runner EXCEPT ![r] = [pc |-> "poll", todo |-> {}]]
    /\ thread' = [thread EXCEPT ![t] = Polling("asked", r, wants[r], {})]
    /\ UNCHANGED <<row, old, wants, open, planned, faults, crashes, historyVars>>

\* The view looks at the clock itself: the market may have closed meanwhile.
SelectStale(t) ==
    /\ thread[t].op = "asked"
    /\ thread' = [thread EXCEPT ![t] = IF open THEN Polling("mark", @.for, @.asked, Cutoff)
                                       ELSE Polling("listed", @.for, @.asked, {})]
    /\ UNCHANGED <<row, old, wants, open, runner, planned, faults, crashes, historyVars>>

\* One save of _mark_stale_market_events, whatever the row holds by now.
MarkStale(t, e) ==
    /\ thread[t].op = "mark" /\ e \in thread[t].rows
    /\ row' = [row EXCEPT ![e] = "stale"]
    /\ thread' = [thread EXCEPT ![t].rows = @ \ {e}]
    /\ UNCHANGED <<old, wants, open, runner, planned, faults, crashes, historyVars>>

List(t) ==
    /\ thread[t].op = "mark" /\ thread[t].rows = {}
    /\ thread' = [thread EXCEPT ![t] = Polling("listed", @.for, @.asked, Deliverable(t))]
    /\ UNCHANGED <<row, old, wants, open, runner, planned, faults, crashes, historyVars>>

PollAnswered(t) ==
    /\ thread[t].op = "listed"
    /\ thread' = [thread EXCEPT ![t] = Idle]
    /\ runner' = IF thread[t].for = Nobody THEN runner
                 ELSE [runner EXCEPT ![thread[t].for] = Handling(thread[t].rows)]
    /\ UNCHANGED <<row, old, wants, open, planned, faults, crashes, historyVars>>

-----------------------------------------------------------------------------
(* The runner applies and acknowledges *)

\* The event a runner handles next, in the order of the answer.
IsNext(r, e) == e \in runner[r].todo /\ \A d \in runner[r].todo : e <= d

\* apply_market_event raises: the event is neither planned nor acknowledged.
Raises(e) == e \in Clashing

\* Mutant of Apply: an event that cannot be applied is acknowledged all the same.
ApplyOrNot(r, t) ==
    /\ runner[r].pc = "handle" /\ thread[t] = Idle
    /\ \E e \in runner[r].todo :
         /\ IsNext(r, e)
         /\ planned' = [planned EXCEPT ![r] = @ \cup ({e} \ Clashing)]
         /\ applied' = applied \cup ({<<r, e>>} \ (Runners \X Clashing))
         /\ runner' = [runner EXCEPT ![r] = [pc |-> "ack", todo |-> @.todo \ {e}]]
         /\ thread' = [thread EXCEPT ![t] = [op |-> "ack", for |-> r, event |-> e, rows |-> {}]]
    /\ UNCHANGED <<row, old, wants, open, faults, crashes, acked, answered>>

\* The event is planned, unless this process has planned it before, and then acknowledged.
Apply(r, t) ==
    /\ runner[r].pc = "handle" /\ thread[t] = Idle
    /\ \E e \in runner[r].todo :
         /\ IsNext(r, e) /\ ~Raises(e)
         /\ planned' = [planned EXCEPT ![r] = @ \cup {e}]
         /\ applied' = applied \cup {<<r, e>>}
         /\ runner' = [runner EXCEPT ![r] = [pc |-> "ack", todo |-> @.todo \ {e}]]
         /\ thread' = [thread EXCEPT ![t] = [op |-> "ack", for |-> r, event |-> e, rows |-> {}]]
    /\ UNCHANGED <<row, old, wants, open, faults, crashes, acked, answered>>

ApplyRaises(r) ==
    /\ runner[r].pc = "handle"
    /\ \E e \in runner[r].todo :
         /\ IsNext(r, e) /\ Raises(e)
         /\ runner' = [runner EXCEPT ![r].todo = @ \ {e}]
    /\ UNCHANGED <<serverVars, wants, planned, faults, crashes, historyVars>>

TickEnds(r) ==
    /\ runner[r].pc = "handle" /\ runner[r].todo = {}
    /\ runner' = [runner EXCEPT ![r] = Resting]
    /\ UNCHANGED <<serverVars, wants, planned, faults, crashes, historyVars>>

-----------------------------------------------------------------------------
(* acknowledge_market_event *)

\* The row is read; a pending one will be saved as dispatched.
AckRead(t) ==
    /\ thread[t].op = "ack"
    /\ LET found == row[thread[t].event]
       IN thread' = [thread EXCEPT ![t].op =
                       CASE found = "pending" -> "save"
                         [] found = "dispatched" -> "ok"
                         [] found = "stale" -> "conflict"]
    /\ UNCHANGED <<row, old, wants, open, runner, planned, faults, crashes, historyVars>>

\* Mutant of Saved: the answer is sent and the row is not saved.
SavedNothing(e) == row

Saved(e) == [row EXCEPT ![e] = "dispatched"]

AckSave(t) ==
    /\ thread[t].op = "save"
    /\ row' = Saved(thread[t].event)
    /\ thread' = [thread EXCEPT ![t].op = "ok"]
    /\ UNCHANGED <<old, wants, open, runner, planned, faults, crashes, historyVars>>

\* The answer: a stale event is a failure to the runner, which goes on.
AckAnswered(t) ==
    /\ thread[t].op \in {"ok", "conflict"}
    /\ LET r == thread[t].for
           e == thread[t].event
           ok == thread[t].op = "ok"
       IN /\ answered' = IF ok THEN answered \cup {e} ELSE answered
          /\ acked' = IF ok /\ r # Nobody THEN acked \cup {<<r, e>>} ELSE acked
          /\ runner' = IF r = Nobody THEN runner ELSE [runner EXCEPT ![r] = Handling(@.todo)]
    /\ thread' = [thread EXCEPT ![t] = Idle]
    /\ UNCHANGED <<row, old, wants, open, planned, faults, crashes, applied>>

-----------------------------------------------------------------------------
(* Faults *)

\* The requests of a client that no longer waits for them.
Orphaned(r) == [t \in Threads |->
    IF thread[t] # Idle /\ thread[t].for = r THEN [thread[t] EXCEPT !.for = Nobody] ELSE thread[t]]

\* The client's timeout, or a failed request: the matcher may serve it all the same.
GiveUp(r) ==
    /\ runner[r].pc \in {"poll", "ack"} /\ faults < MaxFaults
    /\ faults' = faults + 1
    /\ thread' = Orphaned(r)
    /\ runner' = [runner EXCEPT ![r] = Handling(@.todo)]
    /\ UNCHANGED <<row, old, wants, open, planned, crashes, historyVars>>

\* A runner process dies and is started again with an empty memory.
Crash(r) ==
    /\ crashes < MaxCrashes
    /\ crashes' = crashes + 1
    /\ thread' = Orphaned(r)
    /\ runner' = [runner EXCEPT ![r] = Resting]
    /\ planned' = [planned EXCEPT ![r] = {}]
    /\ UNCHANGED <<row, old, wants, open, faults, historyVars>>

Serve(t) ==
    \/ SelectStale(t) \/ List(t) \/ PollAnswered(t) \/ AckRead(t) \/ AckSave(t) \/ AckAnswered(t)
    \/ \E e \in Events : MarkStale(t, e)

Run(r) ==
    \/ ApplyRaises(r) \/ TickEnds(r)
    \/ \E t \in Threads : Poll(r, t) \/ Apply(r, t)

Next ==
    \/ \E e \in Events : Ingest(e) \/ Age(e)
    \/ TurnSession
    \/ \E t \in Threads : Serve(t)
    \/ \E r \in Runners : Run(r) \/ GiveUp(r) \/ Crash(r)

Spec == Init /\ [][Next]_vars

\* Threads serve, runners tick while the market is open, events grow old.
FairSpec ==
    /\ Spec
    /\ \A t \in Threads : WF_vars(Serve(t))
    /\ \A r \in Runners : WF_vars(Run(r))
    /\ \A e \in Events : WF_vars(Age(e))

-----------------------------------------------------------------------------
(* Properties *)

\* The types of the rows, of the requests and of the runners: a runner handles
\* only events of its own symbols, and what was acknowledged was planned.
TypeOK ==
    /\ row \in [Events -> {"absent", "pending", "dispatched", "stale"}]
    /\ old \subseteq Events /\ open \in BOOLEAN
    /\ wants \in [Runners -> SUBSET Events] /\ planned \in [Runners -> SUBSET Events]
    /\ \A t \in Threads :
        /\ thread[t].op \in {"idle", "asked", "mark", "listed", "ack", "save", "ok", "conflict"}
        /\ thread[t] # Idle => thread[t].for \in Runners \cup {Nobody} /\ thread[t].rows \subseteq Events
    /\ \A r \in Runners : runner[r].pc \in {"rest", "poll", "handle", "ack"} /\ runner[r].todo \subseteq wants[r]
    /\ faults \in 0 .. MaxFaults /\ crashes \in 0 .. MaxCrashes
    /\ applied \subseteq Runners \X Events /\ acked \subseteq applied /\ answered \subseteq Events

\* A row says dispatched only if a runner planned the event: no request given up,
\* no crash and no failing application makes the inbox forget an event that
\* nobody reacts to (_poll_market_events, acknowledge_market_event).
DispatchedWasPlanned == \A e \in Events : row[e] = "dispatched" => \E r \in Runners : <<r, e>> \in applied

\* A runner whose acknowledgement was answered never plans the event again, not
\* even after a crash that emptied its memory; a crash before the answer may
\* make it plan the event a second time (runner.py _poll_market_events).
AckedNotPlannedAgain ==
    [][\A r \in Runners, e \in Events :
        <<r, e>> \in acked => ~(e \in planned'[r] /\ e \notin planned[r])]_vars

\* While the market is open no event stays pending for ever: it is planned and
\* acknowledged, or it goes stale, also when no runner wants it, when applying
\* it always raises, and behind others that fill the limit of a poll.
PendingEnds ==
    <>[]open => \A e \in Events : row[e] = "pending" ~> row[e] \in {"dispatched", "stale"}

\* An event whose acknowledgement was answered stays dispatched, unless it has
\* grown old: then a poll that selected its row before the acknowledgement may
\* still save it as stale (the save of _mark_stale_market_events does not look
\* at the state again), but nothing else takes the acknowledgement back.
AckLastsUntilOld == \A e \in answered : row[e] = "dispatched" \/ (row[e] = "stale" /\ e \in old)
=============================================================================
