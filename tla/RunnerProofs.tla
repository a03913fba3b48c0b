---------------------------- MODULE RunnerProofs ----------------------------
(***************************************************************************)
(* Proofs about Runner, for any number of slots, jobs, participants,       *)
(* orders, session changes and failing requests; and about the hours it    *)
(* keeps, for any time, tick length and lateness of its waits.             *)
(***************************************************************************)
EXTENDS Runner, MarketSession, FiniteSetTheorems, SequenceTheorems, TLAPS

Steps == {"idle", "start", "sent", "answered", "finish", "release"}
Answers == {"none", "nosymbol", "remaining", "filled", "rejected", "CANCELED",
            "ALREADY_CLOSED"}
JobRecord == [kind : {"none", "submit", "cancel"}, order : 0 .. MaxOrders,
              step : Steps, answer : Answers]
Labels == {"loop", "poll", "expire", "fetch", "enqueue", "sleep", "closed",
           "idle1", "cancel", "idle2", "shutdown", "ended", "failed"}

LateSubmit(o) == [kind |-> "submit", order |-> o]

----------------------------------------------------------------------------
(* The parts of the inductive invariant.                                   *)

\* TypeOK with the slot counts unbounded above: those bounds follow from SlotAccounting.
FlagTypes ==
    /\ open \in BOOLEAN /\ stop \in BOOLEAN /\ wasOpen \in BOOLEAN
LoopTypes ==
    /\ sessions \in 0 .. MaxSessions /\ faults \in 0 .. MaxFaults
    /\ main \in Labels /\ then \in {"none", "close", "end", "fail"}
TickTypes ==
    /\ snapshots \subseteq Participants /\ cursor \in Participants
    /\ considered \in 0 .. Count /\ extra \in 0 .. MaxIntents /\ issued + extra <= MaxOrders
    /\ turns \in [Participants -> Nat]
SlotTypes ==
    /\ pending \in Int /\ slots \in Nat /\ job \in [Jobs -> JobRecord]
OrderSetTypes ==
    /\ tracked \subseteq Orders /\ todo \subseteq Orders /\ due \subseteq tracked
    /\ alreadyClosed \in Nat /\ issued \in 0 .. MaxOrders
MatcherTypes ==
    /\ book \in [Orders -> {"none", "resting", "closed", "canceled"}]
    /\ late \subseteq [kind : {"submit", "cancel"}, order : Orders]
    /\ abandoned \subseteq Orders /\ uncanceled \subseteq Orders
CoreTypes ==
    /\ LoopTypes /\ TickTypes /\ SlotTypes /\ OrderSetTypes /\ MatcherTypes
Types == FlagTypes /\ CoreTypes

\* What a job's record says at each step.
JobShape(j) ==
    /\ job[j].step \in {"start", "sent", "answered"} =>
          job[j].kind \in {"submit", "cancel"} /\ job[j].order \in 1 .. issued
    /\ job[j].step \in {"idle", "finish", "release"} =>
          job[j].kind = "none" /\ job[j].answer = "none"
    /\ job[j].step = "start" => job[j].answer = "none"
    /\ job[j].answer = "nosymbol" => job[j].kind = "cancel"
JobsInv == \A j \in Jobs : JobShape(j)

\* An order has one submit, which is a job, or late, or served.
FreshInv ==
    \A o \in Orders : o > issued => book[o] = "none" /\ LateSubmit(o) \notin late
UniqueInv ==
    /\ \A i, j \in Jobs : /\ job[i].kind = "submit" /\ job[j].kind = "submit"
                          /\ job[i].order = job[j].order
                          => i = j
    /\ \A j \in Jobs : job[j].kind = "submit" => LateSubmit(job[j].order) \notin late
UnservedInv ==
    /\ \A j \in Jobs : job[j].kind = "submit" /\ job[j].step \in {"start", "sent"} =>
          book[job[j].order] = "none"
    /\ \A o \in Orders : LateSubmit(o) \in late => book[o] = "none" /\ o \in abandoned

\* An order the runner tracks, lists or cancels reached the matcher; once it is no
\* longer tracked it is gone.
Settled(o) == book[o] # "none" /\ (o \notin tracked => book[o] # "resting")
HandledInv ==
    /\ \A o \in tracked \cup todo : Settled(o)
    /\ \A j \in Jobs : job[j].kind = "cancel" => Settled(job[j].order)

\* What an answer on its way says is still true.
AnswerInv ==
    \A j \in Jobs :
        /\ job[j].step = "answered" /\ job[j].kind = "submit" =>
              IF job[j].answer = "remaining" THEN book[job[j].order] # "none"
                                             ELSE book[job[j].order] # "resting"
        /\ job[j].step = "answered" /\ job[j].kind = "cancel" =>
              book[job[j].order] # "resting"
        /\ job[j].answer = "nosymbol" => book[job[j].order] # "resting"

OrderInv ==
    /\ JobsInv /\ FreshInv /\ UniqueInv /\ UnservedInv /\ HandledInv /\ AnswerInv
    /\ NothingForgotten

\* The places between a drain and the next tick.
Closed == main = "closed" \/ (main = "loop" /\ ~wasOpen)
Ending == main = "ended" \/ (main = "shutdown" /\ then = "end")
Quiet == Closed \/ Ending \/ main = "failed"

Draining == main \in {"cancel", "idle2"} \/ Closed \/ Ending

LoopFlags ==
    /\ main = "closed" => ~wasOpen
    /\ main \in {"poll", "expire", "fetch", "enqueue", "sleep"} => wasOpen
TodoInv == main \notin {"expire", "cancel"} => todo = {}
QuietInv == Quiet => Unfinished = {}
LoopInv == LoopFlags /\ TodoInv /\ QuietInv

\* From the listing on, every order that rests is to be canceled, being canceled, or
\* accounted for by a request that raised.
InHand(o) ==
    \/ o \in abandoned \cup uncanceled \cup todo
    \/ \E j \in Jobs : job[j].kind = "cancel" /\ job[j].order = o
DrainInv ==
    Draining => /\ \A j \in Jobs : job[j].kind # "submit"
                /\ \A o \in Resting : InHand(o)

Inv == Types /\ SlotAccounting /\ OrderInv /\ LoopInv /\ DrainInv

----------------------------------------------------------------------------
(* Types.                                                                  *)

\* A runner that has just been created has its types, flags apart.
LEMMA InitTypes == Init => CoreTypes
BY RunnerAssumption DEF Init, CoreTypes, LoopTypes, TickTypes, SlotTypes, OrderSetTypes,
   MatcherTypes, Labels, JobRecord, Steps, Answers, Idle, Orders, Participants

\* A turn gives the cursor and the history of turns values of their types.
LEMMA TurnTypes ==
    ASSUME TickTypes
    PROVE  /\ Current \in Participants /\ Advance \in Participants
           /\ TakeTurn(Current) => turns' \in [Participants -> Nat]
<1>1. Current \in Participants /\ Advance \in Participants
  <2>1. cursor \in Nat /\ considered \in Nat /\ Count \in Nat \ {0}
    BY RunnerAssumption DEF TickTypes, Participants
  <2>2. (cursor + considered) % Count \in 0 .. Count - 1
    BY <2>1
  <2>3. QED
    BY <2>2 DEF Current, Advance, Participants
<1>2. ASSUME TakeTurn(Current) PROVE turns' \in [Participants -> Nat]
  <2>1. \A t \in [Participants -> Nat] : (\A q \in Participants : t[q] > 0) =>
           [q \in Participants |-> t[q] - 1] \in [Participants -> Nat]
    OBVIOUS
  <2>2. [turns EXCEPT ![Current] = @ + 1] \in [Participants -> Nat]
    BY <1>1 DEF TickTypes
  <2>3. QED
    BY <1>2, <2>1, <2>2 DEF TakeTurn
<1>3. QED
  BY <1>1, <1>2

\* A new job and the updates of a job are job records.
LEMMA StartTypes ==
    ASSUME SlotTypes, NEW kind \in {"submit", "cancel"}, NEW o \in Orders, StartHttp(kind, o)
    PROVE  SlotTypes'
<1>1. [kind |-> kind, order |-> o, step |-> "start", answer |-> "none"] \in JobRecord
  BY RunnerAssumption DEF JobRecord, Steps, Answers, Orders
<1>2. QED
  BY <1>1 DEF StartHttp, SlotTypes

\* Every step of a job, from _submit and _cancel to the finally clause of _run_job, leaves
\* job records.
LEMMA JobTypes ==
    ASSUME SlotTypes, NEW j \in Jobs,
           Send(j) \/ SubmitAnswered(j) \/ CancelAnswered(j) \/ CancelRejected(j) \/ Raise(j)
             \/ Finish(j) \/ Release(j) \/ ServeSubmit(j) \/ ServeCancel(j)
    PROVE  SlotTypes'
<1>1. /\ job[j] \in JobRecord /\ Idle \in JobRecord /\ Done \in JobRecord
  BY RunnerAssumption DEF SlotTypes, JobRecord, Steps, Answers, Idle, Done
<1>2. /\ \A s \in Steps : [job[j] EXCEPT !.step = s] \in JobRecord
      /\ \A s \in Steps, a \in Answers :
            [job[j] EXCEPT !.step = s, !.answer = a] \in JobRecord
  BY <1>1 DEF JobRecord
<1>3. CASE Send(j)
  BY <1>1, <1>2, <1>3 DEF Send, SlotTypes, Steps, Answers
<1>4. CASE SubmitAnswered(j) \/ CancelAnswered(j) \/ CancelRejected(j) \/ Raise(j)
  BY <1>1, <1>4 DEF SubmitAnswered, CancelAnswered, CancelRejected, Raise, SlotTypes
<1>5. CASE Finish(j)
  <2>1. [job[j] EXCEPT !.step = "release"] \in JobRecord
    BY <1>2 DEF Steps
  <2>2. job' = [job EXCEPT ![j] = [job[j] EXCEPT !.step = "release"]] /\ pending' = pending - 1
    BY <1>5 DEF Finish
  <2>3. UNCHANGED slots
    BY <1>5 DEF Finish
  <2>4. QED
    BY <2>1, <2>2, <2>3 DEF SlotTypes
<1>6. CASE Release(j)
  BY <1>1, <1>6 DEF Release, SlotTypes
<1>7. CASE ServeSubmit(j)
  <2>1. PICK a \in Answers : job' = [job EXCEPT ![j].step = "answered", ![j].answer = a]
    BY <1>7 DEF ServeSubmit, Answers, Outcome
  <2>2. [job[j] EXCEPT !.step = "answered", !.answer = a] \in JobRecord
    BY <1>2, <2>1 DEF Steps
  <2>3. UNCHANGED <<pending, slots>>
    BY <1>7 DEF ServeSubmit
  <2>4. QED
    BY <2>1, <2>2, <2>3 DEF SlotTypes
<1>8. CASE ServeCancel(j)
  BY <1>2, <1>8 DEF ServeCancel, SlotTypes, Steps, Answers
<1>9. QED
  BY <1>3, <1>4, <1>5, <1>6, <1>7, <1>8

\* A job that has not answered concerns an order.
LEMMA ActiveOrder ==
    ASSUME CoreTypes, JobsInv, NEW j \in Jobs, job[j].step \in {"start", "sent", "answered"}
    PROVE  job[j].order \in Orders /\ job[j].kind \in {"submit", "cancel"}
<1>1. job[j].kind \in {"submit", "cancel"} /\ job[j].order \in 1 .. issued
  BY DEF JobsInv, JobShape
<1>2. issued \in 0 .. MaxOrders
  BY DEF CoreTypes, OrderSetTypes
<1>3. QED
  BY <1>1, <1>2, RunnerAssumption DEF Orders

\* Every step keeps the types; the order of a request that is served or raises is an issued
\* one by JobsInv.
LEMMA StepTypes == CoreTypes /\ JobsInv /\ [Next]_vars => CoreTypes'
<1> USE DEF CoreTypes, LoopTypes, OrderSetTypes, MatcherTypes,
        envVars, loopVars, tickVars, slotVars, orderVars, matcherVars, faultVars
<1> SUFFICES ASSUME CoreTypes, JobsInv, [Next]_vars PROVE CoreTypes'
  OBVIOUS
<1>1. CASE Loop
  BY <1>1 DEF Loop, Labels, TickTypes, SlotTypes
<1>2. CASE ListExpired
  BY <1>2 DEF ListExpired, Labels, TickTypes, SlotTypes
<1>3. CASE ExpireEnd
  BY <1>3 DEF ExpireEnd, Labels, TickTypes, SlotTypes
<1>4. CASE FetchSnapshots
  BY <1>4, RunnerAssumption DEF FetchSnapshots, Labels, TickTypes, SlotTypes
<1>5. CASE MainBreaks
  BY <1>5, RunnerAssumption DEF MainBreaks, Labels, TickTypes, SlotTypes
<1>6. CASE TurnPasses
  <2>1. TickTypes'
    BY <1>6, TurnTypes, RunnerAssumption DEF TurnPasses, InTurn, TickTypes
  <2>2. QED
    BY <1>6, <2>1 DEF TurnPasses, SlotTypes
<1>7. CASE DropExtra
  BY <1>7, RunnerAssumption DEF DropExtra, Labels, TickTypes, SlotTypes
<1>8. CASE EnqueueEnd
  BY <1>8, TurnTypes, RunnerAssumption DEF EnqueueEnd, Labels, TickTypes, SlotTypes
<1>9. CASE Wake
  BY <1>9 DEF Wake, Labels, TickTypes, SlotTypes
<1>10. CASE ListOpen
  BY <1>10 DEF ListOpen, Labels, TickTypes, SlotTypes
<1>11. CASE Drained
  BY <1>11 DEF Drained, Labels, TickTypes, SlotTypes
<1>12. CASE IdleTimesOut
  BY <1>12 DEF IdleTimesOut, Labels, TickTypes, SlotTypes
<1>13. CASE Close
  BY <1>13 DEF Close, Labels, TickTypes, SlotTypes
<1>14. CASE ExpireOne
  <2>1. SlotTypes'
    BY <1>14, StartTypes DEF ExpireOne
  <2>2. TickTypes'
    BY <1>14, RunnerAssumption DEF ExpireOne, TickTypes
  <2>3. QED
    BY <1>14, <2>1, <2>2 DEF ExpireOne, Labels
<1>15. CASE TurnSubmits
  <2>1. SlotTypes'
    BY <1>15, StartTypes, RunnerAssumption DEF TurnSubmits, Orders
  <2>2. TickTypes'
    BY <1>15, TurnTypes, RunnerAssumption DEF TurnSubmits, InTurn, TickTypes
  <2>3. issued' \in 0 .. MaxOrders
    BY <1>15, <2>1, RunnerAssumption DEF TickTypes, TurnSubmits
  <2>4. QED
    BY <1>15, <2>1, <2>2, <2>3 DEF TurnSubmits
<1>16. CASE SubmitExtra
  <2>1. SlotTypes'
    BY <1>16, StartTypes, RunnerAssumption DEF SubmitExtra, Orders, TickTypes
  <2>2. TickTypes'
    BY <1>16, RunnerAssumption DEF SubmitExtra, TickTypes
  <2>3. issued' \in 0 .. MaxOrders
    BY <1>16, <2>1, RunnerAssumption DEF TickTypes, SubmitExtra
  <2>4. QED
    BY <1>16, <2>1, <2>2, <2>3 DEF SubmitExtra
<1>17. CASE CancelOpen
  <2>1. SlotTypes'
    BY <1>17, StartTypes DEF CancelOpen, SlotTypes
  <2>2. TickTypes'
    BY <1>17, RunnerAssumption DEF CancelOpen, TickTypes
  <2>3. QED
    BY <1>17, <2>1, <2>2 DEF CancelOpen, Labels
<1>18. CASE ServeLate
  BY <1>18 DEF ServeLate, Outcome, TickTypes, SlotTypes
<1>19. CASE Fill
  BY <1>19 DEF Fill, TickTypes, SlotTypes
<1>20. CASE TurnSession
  BY <1>20, RunnerAssumption DEF TurnSession, TickTypes, SlotTypes
<1>21. CASE Signal
  BY <1>21 DEF Signal, TickTypes, SlotTypes
<1>22. ASSUME NEW j \in Jobs, Send(j) PROVE CoreTypes'
  <2>1. SlotTypes'
    BY <1>22, JobTypes
  <2>2. QED
    BY <1>22, <2>1, RunnerAssumption DEF Send, TickTypes
<1>23. ASSUME NEW j \in Jobs, SubmitAnswered(j) PROVE CoreTypes'
  <2>1. SlotTypes'
    BY <1>23, JobTypes
  <2>2. job[j].order \in Orders
    BY <1>23, ActiveOrder DEF SubmitAnswered
  <2>3. QED
    BY <1>23, <2>1, <2>2, RunnerAssumption DEF SubmitAnswered, TickTypes
<1>24. ASSUME NEW j \in Jobs, CancelAnswered(j) PROVE CoreTypes'
  <2>1. SlotTypes'
    BY <1>24, JobTypes
  <2>2. QED
    BY <1>24, <2>1, RunnerAssumption DEF CancelAnswered, TickTypes
<1>25. ASSUME NEW j \in Jobs, CancelRejected(j) PROVE CoreTypes'
  <2>1. SlotTypes'
    BY <1>25, JobTypes
  <2>2. QED
    BY <1>25, <2>1, RunnerAssumption DEF CancelRejected, TickTypes
<1>26. ASSUME NEW j \in Jobs, Raise(j) PROVE CoreTypes'
  <2>1. SlotTypes'
    BY <1>26, JobTypes
  <2>2. job[j].order \in Orders
    BY <1>26, ActiveOrder DEF Raise
  <2>3. QED
    BY <1>26, <2>1, <2>2, RunnerAssumption DEF Raise, TickTypes
<1>27. ASSUME NEW j \in Jobs, Finish(j) PROVE CoreTypes'
  <2>1. SlotTypes'
    BY <1>27, JobTypes
  <2>2. QED
    BY <1>27, <2>1, RunnerAssumption DEF Finish, TickTypes
<1>28. ASSUME NEW j \in Jobs, Release(j) PROVE CoreTypes'
  <2>1. SlotTypes'
    BY <1>28, JobTypes
  <2>2. QED
    BY <1>28, <2>1, RunnerAssumption DEF Release, TickTypes
<1>29. ASSUME NEW j \in Jobs, ServeSubmit(j) PROVE CoreTypes'
  <2>1. SlotTypes'
    BY <1>29, JobTypes
  <2>2. job[j].order \in Orders
    BY <1>29, ActiveOrder DEF ServeSubmit
  <2>3. QED
    BY <1>29, <2>1, <2>2, RunnerAssumption DEF ServeSubmit, TickTypes, Outcome
<1>30. ASSUME NEW j \in Jobs, ServeCancel(j) PROVE CoreTypes'
  <2>1. SlotTypes'
    BY <1>30, JobTypes
  <2>2. QED
    BY <1>30, <2>1, RunnerAssumption DEF ServeCancel, TickTypes
<1>31. CASE UNCHANGED vars
  BY <1>31 DEF vars, TickTypes, SlotTypes
<1>32. QED
  BY <1>1, <1>2, <1>3, <1>4, <1>5, <1>6, <1>7, <1>8, <1>9, <1>10, <1>11, <1>12, <1>13,
     <1>14, <1>15, <1>16, <1>17, <1>18, <1>19, <1>20, <1>21, <1>22, <1>23, <1>24, <1>25,
     <1>26, <1>27, <1>28, <1>29, <1>30, <1>31 DEF Next, Main, Job, Serve

\* The flags of run_until_stopped start as Booleans.
LEMMA InitFlags == Init => FlagTypes
BY Zenon DEF Init, FlagTypes

\* Every step keeps the session, stop_event and was_open Booleans.
LEMMA StepFlags == FlagTypes /\ [Next]_vars => FlagTypes'
<1> SUFFICES ASSUME FlagTypes, [Next]_vars PROVE FlagTypes'
  OBVIOUS
<1>1. CASE Loop
  BY <1>1, Zenon DEF Loop, FlagTypes, envVars
<1>2. CASE Drained
  BY <1>2, Zenon DEF Drained, FlagTypes, envVars
<1>3. CASE TurnSession
  BY <1>3, Zenon DEF TurnSession, FlagTypes, loopVars
<1>4. CASE Signal
  BY <1>4, Zenon DEF Signal, FlagTypes, loopVars
<1>5. CASE \/ ListExpired \/ ExpireOne \/ ExpireEnd \/ FetchSnapshots \/ TurnPasses \/ TurnSubmits
           \/ SubmitExtra \/ DropExtra \/ EnqueueEnd \/ Wake \/ ListOpen \/ CancelOpen \/ Close
           \/ MainBreaks \/ IdleTimesOut \/ ServeLate \/ Fill
  <2>1. UNCHANGED <<open, stop, wasOpen>>
    BY <1>5, Zenon DEF ListExpired, ExpireOne, ExpireEnd, FetchSnapshots, TurnPasses, TurnSubmits,
       SubmitExtra, DropExtra, EnqueueEnd, Wake, ListOpen, CancelOpen, Close, MainBreaks,
       IdleTimesOut, ServeLate, Fill, envVars, loopVars
  <2>2. QED
    BY <2>1, Zenon DEF FlagTypes
<1>6. CASE \E j \in Jobs : Job(j) \/ Raise(j) \/ Serve(j)
  <2>1. UNCHANGED <<open, stop, wasOpen>>
    BY <1>6, Zenon DEF Job, Serve, Send, SubmitAnswered, CancelAnswered, CancelRejected, Raise,
       Finish, Release, ServeSubmit, ServeCancel, envVars, loopVars
  <2>2. QED
    BY <2>1, Zenon DEF FlagTypes
<1>7. CASE UNCHANGED vars
  BY <1>7, Zenon DEF vars, envVars, loopVars, FlagTypes
<1>8. QED
  BY <1>1, <1>2, <1>3, <1>4, <1>5, <1>6, <1>7, Zenon DEF Next, Main

----------------------------------------------------------------------------
(* Slots.                                                                  *)

Active == {"start", "sent", "answered", "finish"}

\* The steps of a job that change neither count.
Exchange(j) ==
    \/ Send(j) \/ SubmitAnswered(j) \/ CancelAnswered(j) \/ CancelRejected(j) \/ Raise(j)
    \/ ServeSubmit(j) \/ ServeCancel(j)

\* The actions that leave the jobs and the matcher's orders alone.
Control ==
    \/ Loop \/ ListExpired \/ ExpireEnd \/ FetchSnapshots \/ MainBreaks \/ TurnPasses
    \/ DropExtra \/ EnqueueEnd \/ Wake \/ ListOpen \/ (CancelOpen /\ todo = {}) \/ Drained
    \/ IdleTimesOut \/ Close \/ TurnSession \/ Signal

\* The steps of the main thread that start no job change neither jobs nor orders, and list
\* for canceling only tracked orders.
LEMMA ControlFrame ==
    Control => /\ UNCHANGED <<slotVars, orderVars, matcherVars, issued, abandoned>>
               /\ todo' \subseteq todo \cup tracked
BY DEF Control, Loop, ListExpired, ExpireEnd, FetchSnapshots, MainBreaks, TurnPasses, DropExtra,
   EnqueueEnd, Wake, ListOpen, CancelOpen, Drained, IdleTimesOut, Close,
   TurnSession, Signal, faultVars

\* A job that sends, waits or records an answer keeps its slot and its place in _pending.
LEMMA ExchangeFrame ==
    ASSUME SlotTypes, NEW j \in Jobs, Exchange(j)
    PROVE  /\ job[j].step \in Active /\ job'[j].step \in Active
           /\ \A i \in Jobs : i # j => job'[i] = job[i]
           /\ UNCHANGED <<pending, slots>>
<1>1. CASE Send(j)
  BY <1>1 DEF Send, SlotTypes, JobRecord, Active
<1>2. CASE SubmitAnswered(j) \/ CancelAnswered(j) \/ CancelRejected(j)
  BY <1>2 DEF SubmitAnswered, CancelAnswered, CancelRejected, SlotTypes, JobRecord, Active, Done,
     Idle
<1>3. CASE Raise(j)
  BY <1>3 DEF Raise, SlotTypes, JobRecord, Active, Done, Idle
<1>4. CASE ServeSubmit(j)
  BY <1>4 DEF ServeSubmit, SlotTypes, JobRecord, Active
<1>5. CASE ServeCancel(j)
  BY <1>5 DEF ServeCancel, SlotTypes, JobRecord, Active
<1>6. QED
  BY <1>1, <1>2, <1>3, <1>4, <1>5 DEF Exchange

\* The case split all the proofs below use.
LEMMA Split ==
    ASSUME [Next]_vars
    PROVE  \/ Control \/ ServeLate \/ Fill
           \/ \E o \in todo : /\ main \in {"expire", "cancel"} /\ StartHttp("cancel", o)
                              /\ ExpireOne \/ CancelOpen
           \/ /\ main = "enqueue" /\ StartHttp("submit", issued + 1)
              /\ TurnSubmits \/ SubmitExtra
           \/ \E j \in Jobs : Exchange(j) \/ Finish(j) \/ Release(j)
           \/ UNCHANGED vars
<1>1. CASE ExpireOne
  BY <1>1 DEF ExpireOne
<1>2. CASE CancelOpen
  BY <1>2 DEF CancelOpen, Control
<1>3. CASE TurnSubmits \/ SubmitExtra
  BY <1>3 DEF TurnSubmits, SubmitExtra, InTurn
<1>4. QED
  BY <1>1, <1>2, <1>3 DEF Next, Main, Job, Serve, Exchange, Control

\* The jobs in progress can be counted.
LEMMA Finite ==
    /\ IsFiniteSet(Busy) /\ IsFiniteSet(Unfinished)
    /\ Cardinality(Busy) \in Nat /\ Cardinality(Unfinished) \in Nat
<1>1. Busy \subseteq Jobs /\ Unfinished \subseteq Jobs
  BY DEF Busy, Unfinished
<1>2. QED
  BY <1>1, FS_Subset, FS_CardinalityType, RunnerAssumption

\* Every step of _start_http and _run_job keeps the slots and _pending in agreement with the jobs.
LEMMA StepSlots ==
    ASSUME SlotTypes, SlotAccounting, [Next]_vars
    PROVE  SlotAccounting'
<1>1. ASSUME UNCHANGED slotVars PROVE SlotAccounting'
  BY <1>1 DEF SlotAccounting, Busy, Unfinished, slotVars
<1>2. ASSUME NEW kind, NEW o, StartHttp(kind, o) PROVE SlotAccounting'
  <2>1. PICK j \in Jobs : /\ job[j].step = "idle"
                          /\ job' = [job EXCEPT ![j] = [kind |-> kind, order |-> o,
                                                        step |-> "start", answer |-> "none"]]
    BY <1>2 DEF StartHttp
  <2>2. Busy' = Busy \cup {j} /\ j \notin Busy
    BY <2>1 DEF Busy, SlotTypes
  <2>3. Unfinished' = Unfinished \cup {j} /\ j \notin Unfinished
    BY <2>1 DEF Unfinished, SlotTypes
  <2>4. /\ Cardinality(Busy') = Cardinality(Busy) + 1
        /\ Cardinality(Unfinished') = Cardinality(Unfinished) + 1
    BY <2>2, <2>3, Finite, FS_AddElement
  <2>5. slots' = slots - 1 /\ pending' = pending + 1
    BY <1>2 DEF StartHttp
  <2>6. QED
    BY <2>4, <2>5, Finite, RunnerAssumption DEF SlotAccounting, SlotTypes
<1>3. ASSUME NEW j \in Jobs, Exchange(j) PROVE SlotAccounting'
  <2>1. Busy' = Busy /\ Unfinished' = Unfinished
    BY <1>3, ExchangeFrame DEF Busy, Unfinished, Active
  <2>2. QED
    BY <1>3, <2>1, ExchangeFrame DEF SlotAccounting
<1>4. ASSUME NEW j \in Jobs, Finish(j) PROVE SlotAccounting'
  <2>1. Busy' = Busy
    BY <1>4 DEF Finish, Busy, SlotTypes, JobRecord
  <2>2. Unfinished' = Unfinished \ {j} /\ j \in Unfinished
    BY <1>4 DEF Finish, Unfinished, SlotTypes, JobRecord
  <2>3. Cardinality(Unfinished') = Cardinality(Unfinished) - 1
    BY <2>2, Finite, FS_RemoveElement
  <2>4. slots' = slots /\ pending' = pending - 1
    BY <1>4 DEF Finish
  <2>5. QED
    BY <2>1, <2>3, <2>4, Finite, RunnerAssumption DEF SlotAccounting, SlotTypes
<1>5. ASSUME NEW j \in Jobs, Release(j) PROVE SlotAccounting'
  <2>1. Unfinished' = Unfinished
    BY <1>5 DEF Release, Unfinished, SlotTypes, Idle
  <2>2. Busy' = Busy \ {j} /\ j \in Busy
    BY <1>5 DEF Release, Busy, SlotTypes, Idle
  <2>3. Cardinality(Busy') = Cardinality(Busy) - 1
    BY <2>2, Finite, FS_RemoveElement
  <2>4. slots' = slots + 1 /\ pending' = pending
    BY <1>5 DEF Release
  <2>5. QED
    BY <2>1, <2>3, <2>4, Finite, RunnerAssumption DEF SlotAccounting, SlotTypes
<1>6. QED
  BY <1>1, <1>2, <1>3, <1>4, <1>5, Split, ControlFrame DEF vars, ServeLate, Fill

\* With nothing pending no job has a request to send or an answer to record.
LEMMA IdleMeansQuiet ==
    ASSUME SlotAccounting, Idled
    PROVE  Unfinished = {}
BY Finite, FS_EmptySet DEF SlotAccounting, Idled
----------------------------------------------------------------------------
(* Orders: no resting order is forgotten.                                  *)

\* With nothing issued and nothing tracked the facts about orders hold.
LEMMA InitOrders == Init => OrderInv
BY RunnerAssumption DEF Init, OrderInv, JobsInv, JobShape, FreshInv, UniqueInv, UnservedInv,
   HandledInv, Settled, AnswerInv, NothingForgotten, Resting, Idle


\* Steps of the main thread that only list orders.
LEMMA OrdersControl ==
    ASSUME CoreTypes, OrderInv, UNCHANGED <<job, book, late, tracked, issued, abandoned>>,
           todo' \subseteq todo \cup tracked
    PROVE  OrderInv'
<1> USE DEF OrderInv
<1>2. JobsInv'
  BY DEF JobsInv, JobShape
<1>3. FreshInv'
  BY DEF FreshInv
<1>4. UniqueInv'
  BY DEF UniqueInv
<1>5. UnservedInv'
  BY DEF UnservedInv
<1>6. HandledInv'
  BY DEF HandledInv, Settled
<1>7. AnswerInv'
  BY DEF AnswerInv
<1>8. NothingForgotten'
  BY DEF NothingForgotten, Resting
<1>9. QED
  BY <1>2, <1>3, <1>4, <1>5, <1>6, <1>7, <1>8

\* A cancel is started for a listed order.
LEMMA OrdersStartCancel ==
    ASSUME CoreTypes, OrderInv, NEW o \in todo, StartHttp("cancel", o),
           UNCHANGED <<book, late, tracked, issued, abandoned>>, todo' \subseteq todo
    PROVE  OrderInv'
<1> USE DEF OrderInv
<1>1. PICK j \in Jobs : /\ job[j].step = "idle" /\ job[j].kind = "none"
                        /\ job' = [job EXCEPT ![j] = [kind |-> "cancel", order |-> o,
                                                      step |-> "start", answer |-> "none"]]
  BY DEF StartHttp, JobsInv, JobShape
<1>2. /\ \A i \in Jobs : i # j => job'[i] = job[i]
      /\ job'[j].kind = "cancel" /\ job'[j].order = o
      /\ job'[j].step = "start" /\ job'[j].answer = "none"
  BY <1>1 DEF CoreTypes, SlotTypes
<1>3. issued \in Nat /\ todo \subseteq Orders /\ Orders \subseteq Int
  BY RunnerAssumption DEF CoreTypes, OrderSetTypes, SlotTypes, JobRecord, Orders
<1>4. o \in 1 .. issued
  BY <1>3, RunnerAssumption DEF HandledInv, Settled, FreshInv, Orders
<1>5. JobsInv'
  BY <1>1, <1>2, <1>3, <1>4 DEF JobsInv, JobShape
<1>6. FreshInv'
  BY <1>1, <1>2, <1>3, <1>4 DEF FreshInv
<1>7. UniqueInv'
  BY <1>1, <1>2, <1>3, <1>4 DEF UniqueInv
<1>8. UnservedInv'
  BY <1>1, <1>2, <1>3, <1>4 DEF UnservedInv
<1>9. HandledInv'
  BY <1>2 DEF HandledInv, Settled
<1>10. AnswerInv'
  BY <1>2 DEF AnswerInv
<1>11. NothingForgotten'
  BY <1>1, <1>2, <1>3, <1>4 DEF NothingForgotten, Resting
<1>12. QED
  BY <1>5, <1>6, <1>7, <1>8, <1>9, <1>10, <1>11

\* A submit is started for a new order.
LEMMA OrdersStartSubmit ==
    ASSUME CoreTypes, OrderInv, issued + 1 \in Orders, StartHttp("submit", issued + 1),
           issued' = issued + 1, UNCHANGED <<book, late, tracked, todo, abandoned>>
    PROVE  OrderInv'
<1> USE DEF OrderInv
<1>1. PICK j \in Jobs : /\ job[j].step = "idle" /\ job[j].kind = "none"
                        /\ job' = [job EXCEPT ![j] = [kind |-> "submit", order |-> issued + 1,
                                                      step |-> "start", answer |-> "none"]]
  BY DEF StartHttp, JobsInv, JobShape
<1>2. /\ \A i \in Jobs : i # j => job'[i] = job[i]
      /\ job'[j].kind = "submit" /\ job'[j].order = issued + 1
      /\ job'[j].step = "start" /\ job'[j].answer = "none"
  BY <1>1 DEF CoreTypes, SlotTypes
<1>3. issued \in Nat /\ todo \subseteq Orders /\ Orders \subseteq Int /\ \A i \in Jobs : job[i].order \in Nat
  BY RunnerAssumption DEF CoreTypes, OrderSetTypes, SlotTypes, JobRecord, Orders
<1>4. /\ \A i \in Jobs : job[i].kind = "submit" => job[i].order # issued + 1
      /\ book[issued + 1] = "none" /\ LateSubmit(issued + 1) \notin late
  BY <1>3 DEF JobsInv, JobShape, FreshInv, CoreTypes, SlotTypes, JobRecord, Steps
<1>5. JobsInv'
  BY <1>1, <1>2, <1>3, <1>4 DEF JobsInv, JobShape
<1>6. FreshInv'
  BY <1>1, <1>2, <1>3, <1>4 DEF FreshInv
<1>7. UniqueInv'
  BY <1>1, <1>2, <1>3, <1>4 DEF UniqueInv
<1>8. UnservedInv'
  BY <1>1, <1>2, <1>3, <1>4 DEF UnservedInv
<1>9. HandledInv'
  BY <1>1, <1>2, <1>3, <1>4 DEF HandledInv, Settled
<1>10. AnswerInv'
  BY <1>1, <1>2, <1>3, <1>4 DEF AnswerInv
<1>11. NothingForgotten'
  BY <1>1, <1>2, <1>3, <1>4 DEF NothingForgotten, Resting
<1>12. QED
  BY <1>5, <1>6, <1>7, <1>8, <1>9, <1>10, <1>11

\* A request is sent; a cancel reads whether its order is tracked.
LEMMA OrdersSend ==
    ASSUME CoreTypes, OrderInv, NEW j \in Jobs, Send(j)
    PROVE  OrderInv'
<1> USE DEF OrderInv
<1>1. /\ \A i \in Jobs : i # j => job'[i] = job[i]
      /\ job'[j].kind = job[j].kind /\ job'[j].order = job[j].order /\ job'[j].step = "sent"
      /\ job'[j].answer = IF job[j].kind = "cancel" /\ job[j].order \notin tracked
                          THEN "nosymbol" ELSE "none"
      /\ job[j].step = "start" /\ job[j].kind \in {"submit", "cancel"} /\ job[j].order \in 1 .. issued
  BY DEF Send, CoreTypes, SlotTypes, JobRecord, JobsInv, JobShape
<1>2. UNCHANGED <<book, late, tracked, todo, issued, abandoned>>
  BY DEF Send, orderVars, matcherVars, faultVars
<1>3. JobsInv'
  BY <1>1, <1>2 DEF JobsInv, JobShape
<1>4. FreshInv'
  BY <1>1, <1>2 DEF FreshInv
<1>5. UniqueInv'
  BY <1>1, <1>2 DEF UniqueInv
<1>6. UnservedInv'
  BY <1>1, <1>2 DEF UnservedInv
<1>7. HandledInv'
  BY <1>1, <1>2 DEF HandledInv, Settled
<1>8. AnswerInv'
  BY <1>1, <1>2 DEF AnswerInv, HandledInv, Settled
<1>9. NothingForgotten'
  BY <1>1, <1>2 DEF NothingForgotten, Resting
<1>10. QED
  BY <1>3, <1>4, <1>5, <1>6, <1>7, <1>8, <1>9

\* The answer to a submit is recorded.
LEMMA OrdersSubmitAnswered ==
    ASSUME CoreTypes, OrderInv, NEW j \in Jobs, SubmitAnswered(j)
    PROVE  OrderInv'
<1> USE DEF OrderInv
<1>1. /\ \A i \in Jobs : i # j => job'[i] = job[i]
      /\ job'[j].kind = "none" /\ job'[j].order = 0
      /\ job'[j].step = "finish" /\ job'[j].answer = "none"
  BY DEF SubmitAnswered, Done, Idle, CoreTypes, SlotTypes
<1>2. /\ job[j].step = "answered" /\ job[j].kind = "submit"
      /\ UNCHANGED <<book, late, todo, issued, abandoned>>
      /\ tracked' = IF job[j].answer = "remaining" THEN tracked \cup {job[j].order} ELSE tracked
  BY DEF SubmitAnswered, matcherVars, faultVars
<1>3. job[j].order \in Orders /\ job[j].order \in 1 .. issued
  BY ActiveOrder DEF SubmitAnswered, JobsInv, JobShape
<1>4. JobsInv'
  BY <1>1, <1>2, <1>3 DEF JobsInv, JobShape
<1>5. FreshInv'
  BY <1>1, <1>2, <1>3 DEF FreshInv
<1>6. UniqueInv'
  BY <1>1, <1>2, <1>3 DEF UniqueInv
<1>7. UnservedInv'
  BY <1>1, <1>2, <1>3 DEF UnservedInv
<1>8. HandledInv'
  BY <1>1, <1>2, <1>3 DEF HandledInv, Settled, AnswerInv
<1>9. AnswerInv'
  BY <1>1, <1>2, <1>3 DEF AnswerInv
<1>10. NothingForgotten'
  BY <1>1, <1>2, <1>3 DEF NothingForgotten, Resting, AnswerInv, UniqueInv
<1>11. QED
  BY <1>4, <1>5, <1>6, <1>7, <1>8, <1>9, <1>10

\* The answer to a cancel is recorded.
LEMMA OrdersCancelAnswered ==
    ASSUME CoreTypes, OrderInv, NEW j \in Jobs, CancelAnswered(j)
    PROVE  OrderInv'
<1> USE DEF OrderInv
<1>1. /\ \A i \in Jobs : i # j => job'[i] = job[i]
      /\ job'[j].kind = "none" /\ job'[j].order = 0
      /\ job'[j].step = "finish" /\ job'[j].answer = "none"
  BY DEF CancelAnswered, Done, Idle, CoreTypes, SlotTypes
<1>2. /\ job[j].step = "answered" /\ job[j].kind = "cancel"
      /\ UNCHANGED <<book, late, todo, issued, abandoned>>
      /\ tracked' = tracked \ {job[j].order}
  BY DEF CancelAnswered, matcherVars, faultVars
<1>3. job[j].order \in Orders /\ job[j].order \in 1 .. issued
  BY ActiveOrder DEF CancelAnswered, JobsInv, JobShape
<1>4. JobsInv'
  BY <1>1, <1>2, <1>3 DEF JobsInv, JobShape
<1>5. FreshInv'
  BY <1>1, <1>2, <1>3 DEF FreshInv
<1>6. UniqueInv'
  BY <1>1, <1>2, <1>3 DEF UniqueInv
<1>7. UnservedInv'
  BY <1>1, <1>2, <1>3 DEF UnservedInv
<1>8. HandledInv'
  BY <1>1, <1>2, <1>3 DEF HandledInv, Settled, AnswerInv
<1>9. AnswerInv'
  BY <1>1, <1>2, <1>3 DEF AnswerInv
<1>10. NothingForgotten'
  BY <1>1, <1>2, <1>3 DEF NothingForgotten, Resting, AnswerInv
<1>11. QED
  BY <1>4, <1>5, <1>6, <1>7, <1>8, <1>9, <1>10

\* A cancel is refused.
LEMMA OrdersCancelRejected ==
    ASSUME CoreTypes, OrderInv, NEW j \in Jobs, CancelRejected(j)
    PROVE  OrderInv'
<1> USE DEF OrderInv
<1>1. /\ \A i \in Jobs : i # j => job'[i] = job[i]
      /\ job'[j].kind = "none" /\ job'[j].order = 0
      /\ job'[j].step = "finish" /\ job'[j].answer = "none"
  BY DEF CancelRejected, Done, Idle, CoreTypes, SlotTypes
<1>2. /\ job[j].step = "answered" /\ job[j].kind = "cancel"
      /\ UNCHANGED <<book, late, tracked, todo, issued, abandoned>>
  BY DEF CancelRejected, orderVars, matcherVars, faultVars
<1>3. job[j].order \in Orders /\ job[j].order \in 1 .. issued
  BY ActiveOrder DEF CancelRejected, JobsInv, JobShape
<1>4. JobsInv'
  BY <1>1, <1>2, <1>3 DEF JobsInv, JobShape
<1>5. FreshInv'
  BY <1>1, <1>2, <1>3 DEF FreshInv
<1>6. UniqueInv'
  BY <1>1, <1>2, <1>3 DEF UniqueInv
<1>7. UnservedInv'
  BY <1>1, <1>2, <1>3 DEF UnservedInv
<1>8. HandledInv'
  BY <1>1, <1>2, <1>3 DEF HandledInv, Settled
<1>9. AnswerInv'
  BY <1>1, <1>2, <1>3 DEF AnswerInv
<1>10. NothingForgotten'
  BY <1>1, <1>2, <1>3 DEF NothingForgotten, Resting
<1>11. QED
  BY <1>4, <1>5, <1>6, <1>7, <1>8, <1>9, <1>10

\* A request raises in the client.
LEMMA OrdersRaise ==
    ASSUME CoreTypes, OrderInv, NEW j \in Jobs, Raise(j)
    PROVE  OrderInv'
<1> USE DEF OrderInv
<1>1. /\ \A i \in Jobs : i # j => job'[i] = job[i]
      /\ job'[j].kind = "none" /\ job'[j].order = 0
      /\ job'[j].step = "finish" /\ job'[j].answer = "none"
  BY DEF Raise, Done, Idle, CoreTypes, SlotTypes
<1>2. /\ job[j].step \in {"sent", "answered"} /\ job[j].kind \in {"submit", "cancel"}
      /\ UNCHANGED <<book, tracked, todo, issued>>
      /\ late' = IF job[j].step = "sent" /\ job[j].answer = "none"
                 THEN late \cup {[kind |-> job[j].kind, order |-> job[j].order]} ELSE late
      /\ abandoned' = IF job[j].kind = "submit" THEN abandoned \cup {job[j].order} ELSE abandoned
  BY DEF Raise, orderVars
<1>3. \A o \in Orders : LateSubmit(o) \in late' =>
         \/ LateSubmit(o) \in late
         \/ job[j].kind = "submit" /\ job[j].order = o /\ job[j].step = "sent"
  BY <1>2 DEF LateSubmit
<1>4. issued \in Nat /\ Orders \subseteq Int
  BY RunnerAssumption DEF CoreTypes, OrderSetTypes, Orders
<1>5. \A i \in Jobs : job[i].kind = "submit" => job[i].order \in Orders
  BY RunnerAssumption DEF JobsInv, JobShape, CoreTypes, SlotTypes, JobRecord, Steps,
     OrderSetTypes, Orders
<1>6. job[j].order \in Orders /\ job[j].order \in 1 .. issued
  BY ActiveOrder DEF Raise, JobsInv, JobShape
<1>7. ASSUME NEW o \in Orders, o > issued PROVE LateSubmit(o) \notin late'
  <2>1. LateSubmit(o) \notin late
    BY <1>7 DEF FreshInv
  <2>2. job[j].order # o
    BY <1>4, <1>6, <1>7
  <2>3. QED
    BY <1>3, <2>1, <2>2
<1>8. JobsInv'
  BY <1>1, <1>2 DEF JobsInv, JobShape
<1>9. FreshInv'
  BY <1>2, <1>7 DEF FreshInv
<1>10. UniqueInv'
  BY <1>1, <1>3, <1>5 DEF UniqueInv
<1>11. UnservedInv'
  BY <1>1, <1>2, <1>3 DEF UnservedInv
<1>12. HandledInv'
  BY <1>1, <1>2 DEF HandledInv, Settled
<1>13. AnswerInv'
  BY <1>1, <1>2 DEF AnswerInv
<1>14. NothingForgotten'
  BY <1>1, <1>2 DEF NothingForgotten, Resting
<1>15. QED
  BY <1>8, <1>9, <1>10, <1>11, <1>12, <1>13, <1>14

\* The finally clause of a job.
LEMMA OrdersFinish ==
    ASSUME CoreTypes, OrderInv, NEW j \in Jobs, Finish(j)
    PROVE  OrderInv'
<1> USE DEF OrderInv
<1>1. /\ \A i \in Jobs : i # j => job'[i] = job[i]
      /\ job[j].kind = "none" /\ job'[j].kind = "none" /\ job'[j].step = "release"
      /\ job'[j].answer = "none"
  BY DEF Finish, Idle, CoreTypes, SlotTypes, JobRecord, JobsInv, JobShape
<1>2. UNCHANGED <<book, late, tracked, todo, issued, abandoned>>
  BY DEF Finish, orderVars, matcherVars, faultVars
<1>3. JobsInv'
  BY <1>1, <1>2 DEF JobsInv, JobShape
<1>4. FreshInv'
  BY <1>1, <1>2 DEF FreshInv
<1>5. UniqueInv'
  BY <1>1, <1>2 DEF UniqueInv
<1>6. UnservedInv'
  BY <1>1, <1>2 DEF UnservedInv
<1>7. HandledInv'
  BY <1>1, <1>2 DEF HandledInv, Settled
<1>8. AnswerInv'
  BY <1>1, <1>2 DEF AnswerInv
<1>9. NothingForgotten'
  BY <1>1, <1>2 DEF NothingForgotten, Resting
<1>10. QED
  BY <1>3, <1>4, <1>5, <1>6, <1>7, <1>8, <1>9

\* A job's slot is given back.
LEMMA OrdersRelease ==
    ASSUME CoreTypes, OrderInv, NEW j \in Jobs, Release(j)
    PROVE  OrderInv'
<1> USE DEF OrderInv
<1>1. /\ \A i \in Jobs : i # j => job'[i] = job[i]
      /\ job[j].kind = "none" /\ job'[j].kind = "none" /\ job'[j].step = "idle"
      /\ job'[j].answer = "none"
  BY DEF Release, Idle, CoreTypes, SlotTypes, JobRecord, JobsInv, JobShape
<1>2. UNCHANGED <<book, late, tracked, todo, issued, abandoned>>
  BY DEF Release, orderVars, matcherVars, faultVars
<1>3. JobsInv'
  BY <1>1, <1>2 DEF JobsInv, JobShape
<1>4. FreshInv'
  BY <1>1, <1>2 DEF FreshInv
<1>5. UniqueInv'
  BY <1>1, <1>2 DEF UniqueInv
<1>6. UnservedInv'
  BY <1>1, <1>2 DEF UnservedInv
<1>7. HandledInv'
  BY <1>1, <1>2 DEF HandledInv, Settled
<1>8. AnswerInv'
  BY <1>1, <1>2 DEF AnswerInv
<1>9. NothingForgotten'
  BY <1>1, <1>2 DEF NothingForgotten, Resting
<1>10. QED
  BY <1>3, <1>4, <1>5, <1>6, <1>7, <1>8, <1>9

\* The matcher takes a submit: its order rests, is filled or is refused.
LEMMA OrdersServeSubmit ==
    ASSUME CoreTypes, OrderInv, NEW j \in Jobs, ServeSubmit(j)
    PROVE  OrderInv'
<1> USE DEF OrderInv
<1>1. /\ job[j].step = "sent" /\ job[j].kind = "submit"
      /\ UNCHANGED <<late, tracked, todo, issued, abandoned>>
  BY DEF ServeSubmit, orderVars, faultVars
<1>2. job[j].order \in Orders /\ job[j].order \in 1 .. issued
  BY <1>1, ActiveOrder DEF JobsInv, JobShape
<1>3. PICK outcome \in Outcome :
         /\ book' = [book EXCEPT ![job[j].order] = outcome]
         /\ job' = [job EXCEPT ![j].step = "answered",
                                ![j].answer = CASE outcome = "resting" -> "remaining"
                                                [] outcome = "closed" -> "filled"
                                                [] outcome = "none" -> "rejected"]
  BY DEF ServeSubmit
<1>4. /\ \A i \in Jobs : i # j => job'[i] = job[i]
      /\ job'[j].kind = "submit" /\ job'[j].order = job[j].order /\ job'[j].step = "answered"
      /\ job'[j].answer \in {"remaining", "filled", "rejected"}
      /\ job'[j].answer = "remaining" <=> outcome = "resting"
  BY <1>1, <1>3 DEF CoreTypes, SlotTypes, JobRecord, Outcome
<1>5. /\ \A o \in Orders : o # job[j].order => book'[o] = book[o]
      /\ book'[job[j].order] = outcome /\ book[job[j].order] = "none"
  BY <1>1, <1>2, <1>3 DEF CoreTypes, MatcherTypes, UnservedInv
<1>6. \A i \in Jobs : job[i].kind \in {"submit", "cancel"} => job[i].order \in Orders
  BY RunnerAssumption DEF JobsInv, JobShape, CoreTypes, SlotTypes, JobRecord, Steps,
     OrderSetTypes, Orders
<1>7. tracked \cup todo \subseteq Orders
  BY DEF CoreTypes, OrderSetTypes
<1>8. issued \in Nat /\ Orders \subseteq Int
  BY RunnerAssumption DEF CoreTypes, OrderSetTypes, Orders
<1>9. \A o \in Orders : book[o] # "none" => book'[o] = book[o]
  BY <1>5
<1>10. \A i \in Jobs : i # j /\ job[i].kind \in {"submit", "cancel"} =>
         book'[job[i].order] = book[job[i].order]
  BY <1>1, <1>5, <1>6, <1>9 DEF UniqueInv, HandledInv, Settled
<1>11. JobsInv'
  BY <1>1, <1>2, <1>4 DEF JobsInv, JobShape
<1>12. FreshInv'
  BY <1>1, <1>2, <1>5, <1>8 DEF FreshInv
<1>13. UniqueInv'
  BY <1>1, <1>4 DEF UniqueInv
<1>14. UnservedInv'
  BY <1>1, <1>4, <1>5, <1>10 DEF UnservedInv, UniqueInv
<1>15. HandledInv'
  BY <1>1, <1>4, <1>7, <1>9, <1>10 DEF HandledInv, Settled
<1>16. AnswerInv'
  BY <1>4, <1>5, <1>10 DEF AnswerInv, JobsInv, JobShape
<1>17. NothingForgotten'
  BY <1>1, <1>4, <1>5 DEF NothingForgotten, Resting, UniqueInv
<1>18. QED
  BY <1>11, <1>12, <1>13, <1>14, <1>15, <1>16, <1>17

\* The matcher takes a cancel.
LEMMA OrdersServeCancel ==
    ASSUME CoreTypes, OrderInv, NEW j \in Jobs, ServeCancel(j)
    PROVE  OrderInv'
<1> USE DEF OrderInv
<1>1. /\ job[j].step = "sent" /\ job[j].kind = "cancel"
      /\ UNCHANGED <<late, tracked, todo, issued, abandoned>>
  BY DEF ServeCancel, orderVars, faultVars
<1>2. job[j].order \in Orders /\ job[j].order \in 1 .. issued
  BY <1>1, ActiveOrder DEF JobsInv, JobShape
<1>3. /\ \A i \in Jobs : i # j => job'[i] = job[i]
      /\ job'[j].kind = "cancel" /\ job'[j].order = job[j].order /\ job'[j].step = "answered"
      /\ job'[j].answer \in {"CANCELED", "ALREADY_CLOSED", "rejected"}
  BY <1>1 DEF ServeCancel, CoreTypes, SlotTypes, JobRecord
<1>4. \/ UNCHANGED book
      \/ /\ book[job[j].order] = "resting"
         /\ book' = [book EXCEPT ![job[j].order] = "canceled"]
  BY DEF ServeCancel
<1>5. \A o \in Orders :
         \/ book'[o] = book[o]
         \/ book[o] = "resting" /\ book'[o] \in {"closed", "canceled"}
  BY <1>2, <1>4 DEF CoreTypes, MatcherTypes
<1>6. book'[job[j].order] # "resting"
  BY <1>1, <1>2 DEF ServeCancel, CoreTypes, MatcherTypes, AnswerInv
<1>7. /\ \A i \in Jobs : job[i].kind \in {"submit", "cancel"} => job[i].order \in Orders
      /\ tracked \cup todo \subseteq Orders
  BY RunnerAssumption DEF JobsInv, JobShape, CoreTypes, SlotTypes, JobRecord, Steps,
     OrderSetTypes, Orders
<1>8. JobsInv'
  BY <1>1, <1>2, <1>3, <1>5, <1>6, <1>7 DEF JobsInv, JobShape
<1>9. FreshInv'
  BY <1>1, <1>2, <1>3, <1>5, <1>6, <1>7 DEF FreshInv
<1>10. UniqueInv'
  BY <1>1, <1>2, <1>3, <1>5, <1>6, <1>7 DEF UniqueInv
<1>11. UnservedInv'
  BY <1>1, <1>2, <1>3, <1>5, <1>6, <1>7 DEF UnservedInv
<1>12. HandledInv'
  BY <1>1, <1>2, <1>3, <1>5, <1>6, <1>7 DEF HandledInv, Settled
<1>13. AnswerInv'
  BY <1>1, <1>2, <1>3, <1>5, <1>6, <1>7 DEF AnswerInv, JobsInv, JobShape
<1>14. NothingForgotten'
  BY <1>1, <1>2, <1>3, <1>5, <1>6, <1>7 DEF NothingForgotten, Resting
<1>15. QED
  BY <1>8, <1>9, <1>10, <1>11, <1>12, <1>13, <1>14

\* A resting order is closed by others.
LEMMA OrdersFill ==
    ASSUME CoreTypes, OrderInv, Fill
    PROVE  OrderInv'
<1> USE DEF OrderInv
<1>1. UNCHANGED <<job, late, tracked, todo, issued, abandoned>>
  BY DEF Fill, slotVars, orderVars, faultVars
<1>2. PICK o \in Orders : book[o] = "resting" /\ book' = [book EXCEPT ![o] = "closed"]
  BY DEF Fill
<1>3. \A x \in Orders :
         \/ book'[x] = book[x]
         \/ book[x] = "resting" /\ book'[x] \in {"closed", "canceled"}
  BY <1>2 DEF CoreTypes, MatcherTypes
<1>4. /\ \A i \in Jobs : job[i].kind \in {"submit", "cancel"} => job[i].order \in Orders
      /\ tracked \cup todo \subseteq Orders
  BY RunnerAssumption DEF JobsInv, JobShape, CoreTypes, SlotTypes, JobRecord, Steps,
     OrderSetTypes, Orders
<1>5. JobsInv'
  BY <1>1, <1>3, <1>4 DEF JobsInv, JobShape
<1>6. FreshInv'
  BY <1>1, <1>3, <1>4 DEF FreshInv
<1>7. UniqueInv'
  BY <1>1, <1>3, <1>4 DEF UniqueInv
<1>8. UnservedInv'
  BY <1>1, <1>3, <1>4 DEF UnservedInv
<1>9. HandledInv'
  BY <1>1, <1>3, <1>4 DEF HandledInv, Settled
<1>10. AnswerInv'
  BY <1>1, <1>3, <1>4 DEF AnswerInv, JobsInv, JobShape
<1>11. NothingForgotten'
  BY <1>1, <1>3, <1>4 DEF NothingForgotten, Resting
<1>12. QED
  BY <1>5, <1>6, <1>7, <1>8, <1>9, <1>10, <1>11

\* A request the client has given up arrives.
LEMMA OrdersServeLate ==
    ASSUME CoreTypes, OrderInv, ServeLate
    PROVE  OrderInv'
<1> USE DEF OrderInv
<1>1. UNCHANGED <<job, tracked, todo, issued, abandoned>> /\ late' \subseteq late
  BY DEF ServeLate, slotVars, orderVars, faultVars
<1>2. PICK r \in late :
         /\ late' = late \ {r}
         /\ \/ /\ r.kind = "submit"
               /\ \E outcome \in Outcome : book' = [book EXCEPT ![r.order] = outcome]
            \/ /\ r.kind = "cancel" /\ book[r.order] = "resting"
               /\ book' = [book EXCEPT ![r.order] = "canceled"]
            \/ UNCHANGED book
  BY DEF ServeLate
<1>3. r.order \in Orders /\ (r.kind = "submit" => r = LateSubmit(r.order))
  BY DEF CoreTypes, MatcherTypes, LateSubmit
<1>4. \A o \in Orders :
         \/ book'[o] = book[o]
         \/ book[o] = "resting" /\ book'[o] = "canceled"
         \/ LateSubmit(o) \in late /\ LateSubmit(o) \notin late' 
  BY <1>2, <1>3 DEF CoreTypes, MatcherTypes
<1>5. /\ \A i \in Jobs : job[i].kind \in {"submit", "cancel"} => job[i].order \in Orders
      /\ tracked \cup todo \subseteq Orders
  BY RunnerAssumption DEF JobsInv, JobShape, CoreTypes, SlotTypes, JobRecord, Steps,
     OrderSetTypes, Orders
<1>6. JobsInv'
  BY <1>1, <1>4, <1>5 DEF JobsInv, JobShape
<1>7. FreshInv'
  BY <1>1, <1>4, <1>5 DEF FreshInv
<1>8. UniqueInv'
  BY <1>1, <1>4, <1>5 DEF UniqueInv
<1>9. UnservedInv'
  BY <1>1, <1>4, <1>5 DEF UnservedInv, UniqueInv
<1>10. HandledInv'
  BY <1>1, <1>4, <1>5 DEF HandledInv, Settled, UnservedInv
<1>11. AnswerInv'
  BY <1>1, <1>4, <1>5 DEF AnswerInv, UniqueInv, HandledInv, Settled, JobsInv, JobShape,
     UnservedInv
<1>12. NothingForgotten'
  BY <1>1, <1>4, <1>5 DEF NothingForgotten, Resting, UnservedInv
<1>13. QED
  BY <1>6, <1>7, <1>8, <1>9, <1>10, <1>11, <1>12
\* Every step keeps the facts about orders, one lemma above for each kind of step.
LEMMA StepOrders ==
    ASSUME CoreTypes, OrderInv, [Next]_vars
    PROVE  OrderInv'
<1>1. CASE Control
  BY <1>1, ControlFrame, OrdersControl DEF slotVars, orderVars, matcherVars
<1>2. CASE UNCHANGED vars
  BY <1>2, OrdersControl DEF vars, slotVars, orderVars, matcherVars, faultVars
<1>3. CASE \E o \in todo : StartHttp("cancel", o) /\ (ExpireOne \/ CancelOpen)
  <2>1. PICK o \in todo : StartHttp("cancel", o) /\ (ExpireOne \/ CancelOpen)
    BY <1>3
  <2>2. UNCHANGED <<book, late, tracked, issued, abandoned>> /\ todo' \subseteq todo
    BY <2>1 DEF ExpireOne, CancelOpen, orderVars, matcherVars, faultVars
  <2>3. QED
    BY <2>1, <2>2, OrdersStartCancel
<1>4. CASE StartHttp("submit", issued + 1) /\ (TurnSubmits \/ SubmitExtra)
  <2>1. /\ issued' = issued + 1
        /\ UNCHANGED <<book, late, tracked, todo, abandoned>>
    BY <1>4 DEF TurnSubmits, SubmitExtra, orderVars, matcherVars, faultVars
  <2>2. issued + 1 \in Orders
    BY <1>4, RunnerAssumption DEF TurnSubmits, SubmitExtra, CoreTypes, TickTypes, OrderSetTypes,
       Orders
  <2>3. QED
    BY <1>4, <2>1, <2>2, OrdersStartSubmit
<1>5. CASE \E j \in Jobs : Exchange(j) \/ Finish(j) \/ Release(j)
  BY <1>5, OrdersSend, OrdersSubmitAnswered, OrdersCancelAnswered, OrdersCancelRejected,
     OrdersRaise, OrdersFinish, OrdersRelease, OrdersServeSubmit, OrdersServeCancel DEF Exchange
<1>6. CASE ServeLate \/ Fill
  BY <1>6, OrdersServeLate, OrdersFill
<1>7. QED
  BY <1>1, <1>2, <1>3, <1>4, <1>5, <1>6, Split

----------------------------------------------------------------------------
(* The loop: nothing in flight outside hours.                              *)

\* Only the main thread moves between the places of the loop.
LEMMA MovesMain ==
    ASSUME NEW j \in Jobs,
           ServeLate \/ Fill \/ Exchange(j) \/ Finish(j) \/ Release(j)
    PROVE  UNCHANGED <<main, then, wasOpen, todo>>
BY DEF ServeLate, Fill, Exchange, Finish, Release, Send, SubmitAnswered, CancelAnswered,
   CancelRejected, Raise, ServeSubmit, ServeCancel, loopVars

\* was_open is set in every stage of tick_once and cleared at the close.
LEMMA StepLoopFlags ==
    ASSUME LoopFlags, [Next]_vars
    PROVE  LoopFlags'
<1>1. CASE Loop
  <2>1. CASE main' = "idle1"
    BY <2>1 DEF LoopFlags
  <2>2. CASE main' = "closed" /\ ~wasOpen /\ wasOpen' = wasOpen
    BY <2>2 DEF LoopFlags
  <2>3. CASE main' = "poll" /\ wasOpen' = TRUE
    BY <2>3 DEF LoopFlags
  <2>4. QED
    BY <1>1, <2>1, <2>2, <2>3, Zenon DEF Loop
<1>2. CASE Drained
  BY <1>2, Zenon DEF Drained, LoopFlags
<1>3. CASE Wake
  BY <1>3, Zenon DEF Wake, LoopFlags
<1>4. CASE TurnSubmits \/ SubmitExtra \/ TurnPasses \/ DropExtra \/ EnqueueEnd
  BY <1>4, Zenon DEF TurnSubmits, SubmitExtra, TurnPasses, DropExtra, EnqueueEnd, InTurn,
     LoopFlags, loopVars
<1>5. CASE ListExpired \/ ExpireOne \/ ExpireEnd \/ FetchSnapshots
  BY <1>5, Zenon DEF ListExpired, ExpireOne, ExpireEnd, FetchSnapshots, LoopFlags, loopVars
<1>6. CASE MainBreaks \/ ListOpen \/ IdleTimesOut
  BY <1>6, Zenon DEF MainBreaks, ListOpen, IdleTimesOut, LoopFlags
<1>7. CASE CancelOpen
  BY <1>7, Zenon DEF CancelOpen, LoopFlags
<1>8. CASE Close
  BY <1>8 DEF Close, LoopFlags
<1>9. CASE TurnSession \/ Signal \/ ServeLate \/ Fill \/ UNCHANGED vars
  <2>1. UNCHANGED <<main, wasOpen>>
    BY <1>9 DEF TurnSession, Signal, ServeLate, Fill, vars, loopVars
  <2>2. QED
    BY <2>1, Zenon DEF LoopFlags
<1>10. CASE \E j \in Jobs : Exchange(j) \/ Finish(j) \/ Release(j)
  BY <1>10, MovesMain, Zenon DEF LoopFlags
<1>11. QED
  BY <1>1, <1>2, <1>3, <1>4, <1>5, <1>6, <1>7, <1>8, <1>9, <1>10
     DEF Next, Main, Job, Serve, Exchange

\* The loops of _expire_orders and cancel_all_open_orders leave nothing listed behind them.
LEMMA StepTodo ==
    ASSUME TodoInv, [Next]_vars
    PROVE  TodoInv'
<1>1. CASE Control
  BY <1>1 DEF Control, Loop, ListExpired, ExpireEnd, FetchSnapshots, MainBreaks, TurnPasses,
     DropExtra, EnqueueEnd, Wake, ListOpen, CancelOpen, Drained, IdleTimesOut, Close, TurnSession,
     Signal, InTurn, loopVars, TodoInv
<1>2. CASE ExpireOne \/ CancelOpen \/ TurnSubmits \/ SubmitExtra
  BY <1>2 DEF ExpireOne, CancelOpen, TurnSubmits, SubmitExtra, InTurn, loopVars, TodoInv
<1>3. CASE UNCHANGED vars \/ ServeLate \/ Fill
  BY <1>3 DEF vars, loopVars, ServeLate, Fill, TodoInv
<1>4. CASE \E j \in Jobs : Exchange(j) \/ Finish(j) \/ Release(j)
  BY <1>4, MovesMain DEF TodoInv
<1>5. QED
  BY <1>1, <1>2, <1>3, <1>4, Split

\* The control steps that lead to a quiet place come from one, or wait for the jobs.
LEMMA ControlQuiet ==
    ASSUME LoopFlags, Control, Quiet'
    PROVE  Quiet \/ Idled \/ \A j \in Jobs : job[j].step = "idle"
<1> USE DEF Quiet, Closed, Ending
<1>1. CASE Loop
  BY <1>1, Zenon DEF Loop
<1>2. CASE Wake
  BY <1>2, Zenon DEF Wake, LoopFlags
<1>3. CASE Drained
  BY <1>3, Zenon DEF Drained
<1>4. CASE Close
  BY <1>4, Zenon DEF Close
<1>5. CASE TurnSession \/ Signal
  BY <1>5, Zenon DEF TurnSession, Signal, loopVars
<1>6. CASE MainBreaks \/ IdleTimesOut
  BY <1>6 DEF MainBreaks, IdleTimesOut
<1>7. CASE \/ ListExpired \/ ExpireEnd \/ FetchSnapshots \/ TurnPasses \/ DropExtra \/ EnqueueEnd
           \/ ListOpen \/ (CancelOpen /\ todo = {})
  BY <1>7 DEF ListExpired, ExpireEnd, FetchSnapshots, TurnPasses, DropExtra, EnqueueEnd, InTurn,
     ListOpen, CancelOpen, loopVars
<1>8. QED
  BY <1>1, <1>2, <1>3, <1>4, <1>5, <1>6, <1>7 DEF Control

\* Every step into a quiet place of run_until_stopped has waited for the jobs, and none
\* begins there.
LEMMA StepQuiet ==
    ASSUME SlotTypes, SlotAccounting, LoopFlags, QuietInv, [Next]_vars
    PROVE  QuietInv'
<1> SUFFICES ASSUME Quiet' PROVE Unfinished' = {}
  BY DEF QuietInv
<1>1. CASE Control
  <2>1. Unfinished' = Unfinished
    BY <1>1, ControlFrame DEF Unfinished, slotVars
  <2>2. CASE Quiet
    BY <2>1, <2>2 DEF QuietInv
  <2>3. CASE Idled
    BY <2>1, <2>3, IdleMeansQuiet
  <2>4. CASE \A j \in Jobs : job[j].step = "idle"
    BY <2>1, <2>4 DEF Unfinished
  <2>5. QED
    BY <1>1, <2>2, <2>3, <2>4, ControlQuiet
<1>2. CASE ExpireOne \/ TurnSubmits \/ SubmitExtra
  BY <1>2 DEF ExpireOne, TurnSubmits, SubmitExtra, InTurn, loopVars, Quiet, Closed, Ending
<1>3. CASE CancelOpen
  BY <1>3 DEF CancelOpen, Quiet, Closed, Ending
<1>4. CASE \E j \in Jobs : Exchange(j) \/ Finish(j) \/ Release(j)
  <2>1. PICK j \in Jobs : Exchange(j) \/ Finish(j) \/ Release(j)
    BY <1>4
  <2>2. Quiet
    <3>1. UNCHANGED <<main, then, wasOpen>>
      BY <2>1, MovesMain
    <3>2. QED
      BY <3>1, Zenon DEF Quiet, Closed, Ending
  <2>3. Unfinished' \subseteq Unfinished
    <3>1. CASE Exchange(j)
      BY <3>1, ExchangeFrame DEF Unfinished, Active
    <3>2. CASE Finish(j)
      BY <3>2 DEF Finish, Unfinished, SlotTypes, JobRecord
    <3>3. CASE Release(j)
      BY <3>3 DEF Release, Unfinished, SlotTypes, Idle
    <3>4. QED
      BY <2>1, <3>1, <3>2, <3>3
  <2>4. QED
    BY <2>2, <2>3 DEF QuietInv
<1>5. CASE ServeLate \/ Fill \/ UNCHANGED vars
  <2>1. UNCHANGED <<main, then, wasOpen, job>>
    BY <1>5 DEF ServeLate, Fill, vars, loopVars, slotVars
  <2>2. Quiet
    BY <2>1, Zenon DEF Quiet, Closed, Ending
  <2>3. QED
    BY <2>1, <2>2 DEF QuietInv, Unfinished
<1>6. QED
  BY <1>1, <1>2, <1>3, <1>4, <1>5, Split

\* The rest of the invariant holds before the first step.
LEMMA InitRest ==
    Init => SlotAccounting /\ LoopInv /\ DrainInv
<1> SUFFICES ASSUME Init PROVE SlotAccounting /\ LoopInv /\ DrainInv
  OBVIOUS
<1>1. /\ job = [j \in Jobs |-> Idle] /\ main = "loop" /\ todo = {} /\ pending = 0
      /\ slots = HttpConcurrency /\ book = [o \in Orders |-> "none"]
  BY Zenon DEF Init
<1>2. Busy = {} /\ Unfinished = {} /\ Resting = {}
  BY <1>1 DEF Busy, Unfinished, Resting, Idle
<1>3. SlotAccounting
  BY <1>1, <1>2, FS_EmptySet, RunnerAssumption DEF SlotAccounting
<1>4. LoopInv
  BY <1>1, <1>2 DEF LoopInv, LoopFlags, TodoInv, QuietInv
<1>5. DrainInv
  BY <1>1, <1>2 DEF DrainInv, Idle
<1>6. QED
  BY <1>3, <1>4, <1>5

----------------------------------------------------------------------------
(* The drain: everything that rests is in hand.                            *)

\* A control step stays where the drain is, or is the listing itself.
LEMMA ControlDrains ==
    ASSUME LoopFlags, Control, Draining'
    PROVE  \/ ListOpen
           \/ Draining /\ uncanceled' = uncanceled /\ todo' = todo
<1> USE DEF Draining, Closed, Ending
<1>1. CASE Loop
  BY <1>1, Zenon DEF Loop, faultVars
<1>2. CASE Wake
  BY <1>2, Zenon DEF Wake, LoopFlags, faultVars
<1>3. CASE Drained
  BY <1>3, Zenon DEF Drained, faultVars
<1>4. CASE Close
  BY <1>4, Zenon DEF Close, faultVars
<1>5. CASE TurnSession \/ Signal
  BY <1>5, Zenon DEF TurnSession, Signal, loopVars, faultVars
<1>6. CASE MainBreaks \/ IdleTimesOut
  BY <1>6 DEF MainBreaks, IdleTimesOut
<1>7. CASE \/ ListExpired \/ ExpireEnd \/ FetchSnapshots \/ TurnPasses \/ DropExtra \/ EnqueueEnd
  BY <1>7 DEF ListExpired, ExpireEnd, FetchSnapshots, TurnPasses, DropExtra, EnqueueEnd, InTurn,
     loopVars
<1>8. CASE CancelOpen /\ todo = {}
  BY <1>8 DEF CancelOpen, faultVars
<1>9. QED
  BY <1>1, <1>2, <1>3, <1>4, <1>5, <1>6, <1>7, <1>8 DEF Control

\* The other steps neither begin nor end a drain.
LEMMA SameDrain ==
    ASSUME UNCHANGED <<main, then, wasOpen>>
    PROVE  Draining' <=> Draining
BY Zenon DEF Draining, Closed, Ending

\* A step of a job while there is no submit: its cancel goes on, has raised, or has been
\* answered, and then its order is gone.
LEMMA CancelJobStep ==
    ASSUME CoreTypes, OrderInv, NEW j \in Jobs, Exchange(j) \/ Finish(j) \/ Release(j),
           \A i \in Jobs : job[i].kind # "submit"
    PROVE  /\ \A i \in Jobs : job'[i].kind # "submit"
           /\ \A i \in Jobs : job[i].kind = "cancel" =>
                 \/ job'[i].kind = "cancel" /\ job'[i].order = job[i].order
                 \/ job[i].order \in uncanceled'
                 \/ job[i].order \notin Resting
           /\ Resting' \subseteq Resting
           /\ abandoned \subseteq abandoned' /\ uncanceled \subseteq uncanceled'
<1> USE DEF CoreTypes, SlotTypes, JobRecord
<1>1. CASE Send(j)
  BY <1>1 DEF Send, Resting, matcherVars, faultVars
<1>2. CASE SubmitAnswered(j) \/ ServeSubmit(j)
  BY <1>2 DEF SubmitAnswered, ServeSubmit
<1>3. CASE CancelAnswered(j) \/ CancelRejected(j)
  <2>1. book[job[j].order] # "resting"
    BY <1>3 DEF CancelAnswered, CancelRejected, OrderInv, AnswerInv
  <2>2. job' = [job EXCEPT ![j] = Done] /\ UNCHANGED <<book, abandoned, uncanceled>>
    BY <1>3 DEF CancelAnswered, CancelRejected, matcherVars, faultVars
  <2>3. QED
    BY <2>1, <2>2 DEF Resting, Done, Idle
<1>4. CASE Raise(j)
  <2>1. /\ job' = [job EXCEPT ![j] = Done] /\ UNCHANGED <<book, abandoned>>
        /\ uncanceled' = uncanceled \cup {job[j].order}
    BY <1>4 DEF Raise
  <2>2. QED
    BY <2>1 DEF Resting, Done, Idle
<1>5. CASE ServeCancel(j)
  <2>1. UNCHANGED <<abandoned, uncanceled>>
    BY <1>5 DEF ServeCancel, faultVars
  <2>2. Resting' \subseteq Resting
    BY <1>5 DEF ServeCancel, Resting, MatcherTypes
  <2>3. \A i \in Jobs : job'[i].kind = job[i].kind /\ job'[i].order = job[i].order
    BY <1>5 DEF ServeCancel
  <2>4. QED
    BY <2>1, <2>2, <2>3
<1>6. CASE Finish(j)
  BY <1>6 DEF Finish, Resting, matcherVars, faultVars
<1>7. CASE Release(j)
  <2>1. job[j].kind = "none"
    BY <1>7 DEF Release, OrderInv, JobsInv, JobShape
  <2>2. QED
    BY <1>7, <2>1 DEF Release, Resting, Idle, matcherVars, faultVars
<1>8. QED
  BY <1>1, <1>2, <1>3, <1>4, <1>5, <1>6, <1>7 DEF Exchange

\* From the listing in cancel_all_open_orders on, no step puts an order out of hand.
LEMMA StepDrain ==
    ASSUME CoreTypes, SlotAccounting, OrderInv, LoopFlags, DrainInv, [Next]_vars
    PROVE  DrainInv'
<1> SUFFICES ASSUME Draining'
             PROVE  /\ \A i \in Jobs : job'[i].kind # "submit"
                    /\ \A o \in Resting' : InHand(o)'
  BY DEF DrainInv
<1> DEFINE Kept == /\ \A i \in Jobs : job[i].kind # "submit"
                   /\ \A o \in Resting : InHand(o)
<1>1. CASE Control
  <2>1. UNCHANGED <<job, book, tracked, abandoned>>
    BY <1>1, ControlFrame DEF slotVars, orderVars, matcherVars
  <2>2. CASE ListOpen
    <3>1. todo' = tracked
      BY <2>2 DEF ListOpen
    <3>2. Unfinished = {}
      BY <2>2, IdleMeansQuiet DEF ListOpen
    <3>3. \A i \in Jobs : job[i].kind = "none"
      <4> TAKE i \in Jobs
      <4>1. job[i].step \in {"idle", "release"}
        BY <3>2 DEF Unfinished, CoreTypes, SlotTypes, JobRecord, Steps
      <4>2. QED
        BY <4>1 DEF OrderInv, JobsInv, JobShape
    <3>4. \A o \in Resting : o \in tracked \cup abandoned
      BY <3>3 DEF OrderInv, NothingForgotten
    <3>5. QED
      BY <2>1, <3>1, <3>3, <3>4 DEF Resting, InHand
  <2>3. CASE Draining /\ uncanceled' = uncanceled /\ todo' = todo
    BY <2>1, <2>3 DEF DrainInv, Resting, InHand
  <2>4. QED
    BY <1>1, <2>2, <2>3, ControlDrains
<1>2. CASE main = "enqueue" /\ (TurnSubmits \/ SubmitExtra)
  BY <1>2 DEF TurnSubmits, SubmitExtra, loopVars, Draining, Closed, Ending
<1>3. CASE ExpireOne
  BY <1>3 DEF ExpireOne, loopVars, Draining, Closed, Ending
<1>4. CASE CancelOpen /\ todo # {}
  <2>1. /\ main = "cancel" /\ UNCHANGED <<main, then, wasOpen, book, abandoned, uncanceled>>
        /\ \E o \in todo : StartHttp("cancel", o) /\ todo' = todo \ {o}
    BY <1>4 DEF CancelOpen, matcherVars, faultVars
  <2>2. PICK o \in todo : StartHttp("cancel", o) /\ todo' = todo \ {o}
    BY <2>1
  <2>3. PICK j \in Jobs : /\ job[j].step = "idle"
                          /\ job' = [job EXCEPT ![j] = [kind |-> "cancel", order |-> o,
                                                        step |-> "start", answer |-> "none"]]
    BY <2>2 DEF StartHttp
  <2>4. /\ job'[j].kind = "cancel" /\ job'[j].order = o
        /\ job[j].kind = "none" /\ \A i \in Jobs : i # j => job'[i] = job[i]
    BY <2>3 DEF CoreTypes, SlotTypes, OrderInv, JobsInv, JobShape
  <2>5. Kept
    BY <2>1 DEF Draining, DrainInv
  <2>6. \A i \in Jobs : job'[i].kind # "submit"
    BY <2>4, <2>5
  <2>7. ASSUME NEW x \in Resting' PROVE InHand(x)'
    <3>1. x \in Resting
      BY <2>1 DEF Resting
    <3>2. InHand(x)
      BY <2>5, <3>1
    <3>3. CASE x \in abandoned \cup uncanceled \cup todo
      BY <2>1, <2>2, <2>4, <3>3 DEF InHand
    <3>4. CASE \E i \in Jobs : job[i].kind = "cancel" /\ job[i].order = x
      BY <2>4, <3>4 DEF InHand
    <3>5. QED
      BY <3>2, <3>3, <3>4 DEF InHand
  <2>8. QED
    BY <2>6, <2>7
<1>5. CASE \E j \in Jobs : Exchange(j) \/ Finish(j) \/ Release(j)
  <2>1. PICK j \in Jobs : Exchange(j) \/ Finish(j) \/ Release(j)
    BY <1>5
  <2>2. UNCHANGED <<main, then, wasOpen, todo>>
    BY <2>1, MovesMain
  <2>3. Kept
    BY <2>2, SameDrain DEF DrainInv
  <2>4. /\ \A i \in Jobs : job'[i].kind # "submit"
        /\ \A i \in Jobs : job[i].kind = "cancel" =>
              \/ job'[i].kind = "cancel" /\ job'[i].order = job[i].order
              \/ job[i].order \in uncanceled'
              \/ job[i].order \notin Resting
        /\ Resting' \subseteq Resting
        /\ abandoned \subseteq abandoned' /\ uncanceled \subseteq uncanceled'
    BY <2>1, <2>3, CancelJobStep
  <2>5. ASSUME NEW x \in Resting' PROVE InHand(x)'
    <3>1. x \in Resting /\ InHand(x)
      BY <2>3, <2>4
    <3>2. CASE x \in abandoned \cup uncanceled \cup todo
      BY <2>2, <2>4, <3>2 DEF InHand
    <3>3. CASE \E i \in Jobs : job[i].kind = "cancel" /\ job[i].order = x
      BY <2>4, <3>1, <3>3 DEF InHand
    <3>4. QED
      BY <3>1, <3>2, <3>3 DEF InHand
  <2>6. QED
    BY <2>4, <2>5
<1>6. CASE ServeLate \/ Fill
  <2>1. UNCHANGED <<main, then, wasOpen, job, todo, abandoned, uncanceled>>
    BY <1>6 DEF ServeLate, Fill, loopVars, slotVars, faultVars
  <2>2. Kept
    BY <2>1, SameDrain DEF DrainInv
  <2>3. Resting' \subseteq Resting \cup abandoned
    <3>1. CASE Fill
      BY <3>1 DEF Fill, Resting, CoreTypes, MatcherTypes
    <3>2. CASE ServeLate
      <4>1. PICK r \in late :
               \/ /\ r.kind = "submit"
                  /\ \E outcome \in Outcome : book' = [book EXCEPT ![r.order] = outcome]
               \/ book' = [book EXCEPT ![r.order] = "canceled"]
               \/ UNCHANGED book
        BY <3>2 DEF ServeLate
      <4>2. r \in [kind : {"submit", "cancel"}, order : Orders]
        BY <4>1 DEF CoreTypes, MatcherTypes
      <4>3. r.kind = "submit" => r.order \in abandoned
        <5>1. SUFFICES ASSUME r.kind = "submit" PROVE r.order \in abandoned
          OBVIOUS
        <5>2. r = LateSubmit(r.order) /\ r.order \in Orders
          BY <4>2, <5>1 DEF LateSubmit
        <5>3. QED
          BY <5>2 DEF OrderInv, UnservedInv
      <4>4. \A o \in Orders : o # r.order => book'[o] = book[o]
        BY <4>1 DEF CoreTypes, MatcherTypes
      <4>5. r.kind # "submit" => Resting' \subseteq Resting
        BY <4>1, <4>2 DEF Resting, CoreTypes, MatcherTypes
      <4>6. QED
        BY <4>3, <4>4, <4>5, <4>1 DEF Resting
    <3>3. QED
      BY <1>6, <3>1, <3>2
  <2>4. QED
    BY <2>1, <2>2, <2>3 DEF InHand
<1>7. CASE UNCHANGED vars
  <2>1. UNCHANGED <<main, then, wasOpen, job, book, todo, abandoned, uncanceled>>
    BY <1>7 DEF vars, loopVars, slotVars, matcherVars, faultVars
  <2>2. QED
    BY <2>1, SameDrain DEF DrainInv, Resting, InHand
<1>8. QED
  BY <1>1, <1>2, <1>3, <1>4, <1>5, <1>6, <1>7, Split

----------------------------------------------------------------------------
(* The theorems.                                                           *)

\* The inductive invariant holds throughout.
LEMMA Invariance == Spec => []Inv
<1>1. Init => Inv
  BY InitTypes, InitFlags, InitOrders, InitRest DEF Inv, Types
<1>2. Inv /\ [Next]_vars => Inv'
  <2> SUFFICES ASSUME Inv, [Next]_vars PROVE Inv'
    OBVIOUS
  <2>1. /\ FlagTypes /\ CoreTypes /\ SlotTypes /\ SlotAccounting /\ OrderInv /\ JobsInv
        /\ LoopFlags /\ TodoInv /\ QuietInv /\ DrainInv
    BY Zenon DEF Inv, Types, CoreTypes, OrderInv, LoopInv
  <2>2. FlagTypes' /\ CoreTypes'
    BY <2>1, StepTypes, StepFlags, Zenon
  <2>3. SlotAccounting' /\ OrderInv' /\ DrainInv'
    BY <2>1, StepSlots, StepOrders, StepDrain, Zenon
  <2>4. LoopInv'
    BY <2>1, StepLoopFlags, StepTodo, StepQuiet, Zenon DEF LoopInv
  <2>5. QED
    BY <2>2, <2>3, <2>4, Zenon DEF Inv, Types
<1>3. QED
  BY <1>1, <1>2, PTL DEF Spec

\* The state of the runner keeps its types under every interleaving of the main thread, the
\* jobs and the matcher; in particular the semaphore of _start_http and _pending of _run_job
\* stay between zero and HTTP_CONCURRENCY.
THEOREM TypeCorrect == Spec => []TypeOK
<1>1. Inv => TypeOK
  <2> SUFFICES ASSUME Inv PROVE TypeOK
    OBVIOUS
  <2>1. open \in BOOLEAN /\ stop \in BOOLEAN /\ wasOpen \in BOOLEAN
    BY Zenon DEF Inv, Types, FlagTypes
  <2>2. pending \in 0 .. HttpConcurrency /\ slots \in 0 .. HttpConcurrency
    <3>1. Cardinality(Unfinished) <= Cardinality(Busy)
      <4>1. Unfinished \subseteq Busy
        BY DEF Unfinished, Busy
      <4>2. QED
        BY <4>1, Finite, FS_Subset
    <3>2. QED
      BY <3>1, Finite, RunnerAssumption DEF Inv, SlotAccounting, Types, CoreTypes, SlotTypes
  <2>3. QED
    BY <2>1, <2>2, SMT DEF Inv, Types, CoreTypes, LoopTypes, TickTypes, SlotTypes, OrderSetTypes,
       MatcherTypes, JobRecord, Labels, Steps, Answers, TypeOK
<1>2. QED
  BY <1>1, Invariance, PTL

\* For every number of slots and every order in which jobs begin, raise and end: each job
\* holds one slot of _start_http and _pending counts the jobs not yet in the finally clause
\* of _run_job.
THEOREM SlotsAgree == Spec => []SlotAccounting
<1>1. Inv => SlotAccounting
  BY DEF Inv
<1>2. QED
  BY <1>1, Invariance, PTL

\* _submit and _cancel never lose an order: whatever rests at the matcher is tracked in
\* _outstanding_orders, still being submitted, or its submit raised in the client.
THEOREM NoOrderForgotten == Spec => []NothingForgotten
<1>1. Inv => NothingForgotten
  BY DEF Inv, OrderInv
<1>2. QED
  BY <1>1, Invariance, PTL

\* A cancel that _cancel sends without a symbol concerns an order that no longer rests.
THEOREM BlankCancelsHarmless == Spec => []BlankCancelHarmless
<1>1. Inv => BlankCancelHarmless
  BY DEF Inv, OrderInv, AnswerInv, BlankCancelHarmless, Resting
<1>2. QED
  BY <1>1, Invariance, PTL

\* While run_until_stopped waits for the opening, and after it has returned or raised, no
\* job has a request in flight.
THEOREM QuietAtRest == Spec => []QuietOutsideHours
<1>1. Inv => QuietOutsideHours
  BY DEF Inv, LoopInv, QuietInv, Quiet, Closed, Ending, QuietOutsideHours
<1>2. QED
  BY <1>1, Invariance, PTL

\* cancel_all_open_orders leaves no order resting at the matcher except those whose submit
\* or cancel raised in the client.
THEOREM DrainComplete == Spec => []DrainLeavesNothing
<1>1. Inv => DrainLeavesNothing
  <2> SUFFICES ASSUME Inv, main \in {"closed", "ended"}, NEW o \in Resting
               PROVE  o \in abandoned \cup uncanceled
    BY DEF DrainLeavesNothing
  <2>1. todo = {} /\ Unfinished = {} /\ InHand(o)
    BY DEF Inv, LoopInv, TodoInv, QuietInv, Quiet, DrainInv, Draining, Closed, Ending
  <2>2. \A j \in Jobs : job[j].kind = "none"
    <3> TAKE j \in Jobs
    <3>1. job[j].step \in {"idle", "release"}
      BY <2>1 DEF Unfinished, Inv, Types, CoreTypes, SlotTypes, JobRecord, Steps
    <3>2. QED
      BY <3>1 DEF Inv, OrderInv, JobsInv, JobShape
  <2>3. QED
    BY <2>1, <2>2 DEF InHand
<1>2. QED
  BY <1>1, Invariance, PTL
----------------------------------------------------------------------------
(* Turns.                                                                  *)

\* How many turns ago the participant had its last one, if a round is Count turns.
Behind(q) == IF q < Current THEN Current - q ELSE Current + Count - q

\* The participants with a turn more than the others are the last k that had one: those
\* just before the cursor.  _cursor moves only by what was considered, and a round
\* starts where the last one stopped.
RoundInv ==
    /\ main # "enqueue" => considered = 0
    /\ \E k \in 0 .. Count - 1 : \A q \in Participants : turns[q] = IF Behind(q) <= k THEN 1 ELSE 0

\* A number below 2 * n wraps around n at most once.
LEMMA ModSmall ==
    ASSUME NEW n \in Nat \ {0}, NEW a \in 0 .. n - 1
    PROVE  a % n = a
OBVIOUS

LEMMA ModBig ==
    ASSUME NEW n \in Nat \ {0}, NEW a \in n .. 2 * n - 1
    PROVE  a % n = a - n
<1>1. a % n \in 0 .. n - 1
  OBVIOUS
<1>2. QED
  BY Z3

LEMMA ModOnce ==
    ASSUME NEW n \in Nat \ {0}, NEW a \in 0 .. n - 1, NEW k \in 0 .. n
    PROVE  (a + k) % n = IF a + k < n THEN a + k ELSE a + k - n
<1>1. CASE a + k < n
  BY <1>1, ModSmall
<1>2. CASE a + k >= n
  BY <1>2, ModBig
<1>3. QED
  BY <1>1, <1>2

\* Where the cursor points before and after a turn.
LEMMA NextPlace ==
    ASSUME TickTypes
    PROVE  /\ Current \in Participants
           /\ considered = 0 => Current = cursor
           /\ considered < Count =>
                (cursor + (considered + 1)) % Count = IF Current + 1 = Count THEN 0 ELSE Current + 1
<1>1. Count \in Nat \ {0} /\ cursor \in 0 .. Count - 1 /\ considered \in 0 .. Count
  BY RunnerAssumption DEF TickTypes, Participants
<1>2. Current = IF cursor + considered < Count THEN cursor + considered ELSE cursor + considered - Count
  BY <1>1, ModOnce DEF Current
<1>3. CASE considered < Count
  <2>1. considered + 1 \in 0 .. Count
    BY <1>1, <1>3
  <2>2. (cursor + (considered + 1)) % Count =
          IF cursor + (considered + 1) < Count THEN cursor + (considered + 1) ELSE cursor + (considered + 1) - Count
    BY <1>1, <2>1, ModOnce
  <2>3. QED
    BY <1>1, <1>2, <2>2 DEF Participants
<1>4. CASE considered = Count
  BY <1>1, <1>2, <1>4 DEF Participants
<1>5. QED
  BY <1>1, <1>3, <1>4

LEMMA RoundInit == Init => RoundInv
<1> SUFFICES ASSUME Init PROVE RoundInv
  OBVIOUS
<1>1. Count \in Nat \ {0} /\ main # "enqueue" /\ considered = 0 /\ \A q \in Participants : turns[q] = 0
  BY RunnerAssumption DEF Init
<1>2. Current \in 0 .. Count - 1
  BY <1>1 DEF Init, Current
<1>3. \A q \in Participants : ~(Behind(q) <= 0)
  BY <1>1, <1>2 DEF Behind, Participants
<1>4. 0 \in 0 .. Count - 1
  BY <1>1
<1>5. QED
  BY <1>1, <1>3, <1>4 DEF RoundInv

\* A turn: the participant under the cursor was the one longest without a turn.
LEMMA RoundTurn ==
    ASSUME TickTypes, RoundInv, InTurn, TakeTurn(Current), cursor' = cursor,
           considered' = considered + 1, main' = main
    PROVE  RoundInv'
<1> DEFINE c == Current
           d == IF c + 1 = Count THEN 0 ELSE c + 1
           next(q) == IF q < d THEN d - q ELSE d + Count - q
           last(q) == IF q < c THEN c - q ELSE c + Count - q
           t == [turns EXCEPT ![c] = @ + 1]
<1>1. /\ Count \in Nat \ {0} /\ considered < Count /\ considered \in Nat /\ cursor \in Nat
      /\ turns \in [Participants -> Nat]
  BY RunnerAssumption DEF TickTypes, InTurn, Participants
<1>2. c \in Participants /\ Current' = d
  BY <1>1, NextPlace DEF Current
<1>3. PICK k \in 0 .. Count - 1 : \A q \in Participants : turns[q] = IF last(q) <= k THEN 1 ELSE 0
  BY DEF RoundInv, Behind
<1>4. turns' = IF \A q \in Participants : t[q] > 0 THEN [q \in Participants |-> t[q] - 1] ELSE t
  BY DEF TakeTurn
<1> HIDE DEF c, t
<1>5. \A q \in Participants : next(q) = (IF q = c THEN 1 ELSE last(q) + 1) /\ last(q) \in 1 .. Count
        /\ (last(q) = Count <=> q = c)
  BY <1>1, <1>2 DEF Participants
<1> HIDE DEF d, next, last
<1>6. \A q \in Participants : t[q] = IF next(q) <= k + 1 THEN 1 ELSE 0
  <2> SUFFICES ASSUME NEW q \in Participants PROVE t[q] = IF next(q) <= k + 1 THEN 1 ELSE 0
    OBVIOUS
  <2>1. CASE q = c
    <3>1. turns[c] = 0
      BY <1>1, <1>2, <1>3, <1>5
    <3>2. t[c] = turns[c] + 1
      BY <1>1, <1>2 DEF t
    <3>3. QED
      BY <1>1, <1>3, <1>5, <2>1, <3>1, <3>2
  <2>2. CASE q # c
    <3>1. t[q] = turns[q]
      BY <1>1, <1>2, <2>2 DEF t
    <3>2. next(q) = last(q) + 1 /\ last(q) \in 1 .. Count
      BY <1>5, <2>2
    <3>3. QED
      BY <1>1, <1>3, <3>1, <3>2
  <2>3. QED
    BY <2>1, <2>2
<1>7. \A q \in Participants : next(q) \in 1 .. Count
  BY <1>1, <1>5
<1>8. \E m \in 0 .. Count - 1 : \A q \in Participants : turns'[q] = IF next(q) <= m THEN 1 ELSE 0
  <2>1. CASE k + 1 = Count
    <3>1. \A q \in Participants : t[q] = 1
      BY <1>1, <1>6, <1>7, <2>1
    <3>2. \A q \in Participants : turns'[q] = 0 /\ ~(next(q) <= 0)
      BY <1>4, <1>7, <3>1
    <3>3. QED
      BY <1>1, <3>2
  <2>2. CASE k + 1 # Count
    <3>1. k + 1 \in 0 .. Count - 1
      BY <1>1, <1>3, <2>2
    <3>2. \E q \in Participants : ~(t[q] > 0)
      <4> DEFINE p == IF c + 1 = Count THEN 0 ELSE c + 1
      <4>1. p \in Participants /\ next(p) = Count
        BY <1>1, <1>2 DEF Participants, next, d
      <4>2. QED
        BY <1>1, <1>6, <3>1, <4>1
    <3>3. turns' = t
      BY <1>4, <3>2
    <3>4. QED
      BY <1>6, <3>1, <3>3
  <2>3. QED
    BY <2>1, <2>2
<1>9. \A q : Behind(q)' = next(q)
  BY <1>2 DEF Behind, next
<1>10. main' = "enqueue"
  BY DEF InTurn
<1>11. QED
  BY <1>8, <1>9, <1>10 DEF RoundInv

\* No other step moves the place where the next turn is taken.
LEMMA RoundStays ==
    ASSUME RoundInv, UNCHANGED turns, Current' = Current, main' # "enqueue" => considered' = 0
    PROVE  RoundInv'
<1>1. \A q : Behind(q)' = Behind(q)
  BY DEF Behind
<1>2. QED
  BY <1>1 DEF RoundInv

LEMMA StepRound ==
    ASSUME TickTypes, RoundInv, [Next]_vars
    PROVE  RoundInv'
<1>1. CASE TurnPasses
  BY <1>1, RoundTurn DEF TurnPasses, loopVars, InTurn
<1>2. CASE TurnSubmits
  BY <1>2, RoundTurn DEF TurnSubmits, loopVars, InTurn
<1>3. CASE EnqueueEnd
  <2>1. cursor' = Current /\ considered' = 0 /\ UNCHANGED turns
    BY <1>3 DEF EnqueueEnd, Advance, Current
  <2>2. Current' = Current
    <3>1. Count \in Nat \ {0} /\ Current \in 0 .. Count - 1
      BY NextPlace, RunnerAssumption DEF Participants
    <3>2. Current % Count = Current
      BY <3>1, ModSmall
    <3>3. Current' = (Current + 0) % Count
      BY <2>1 DEF Current
    <3>4. QED
      BY <3>1, <3>2, <3>3
  <2>3. QED
    BY <2>1, <2>2, RoundStays
<1>4. CASE FetchSnapshots
  <2>1. main = "fetch" /\ UNCHANGED <<cursor, turns>> /\ considered' = 0
    BY <1>4 DEF FetchSnapshots
  <2>2. considered = 0
    BY <2>1 DEF RoundInv
  <2>3. QED
    BY <2>1, <2>2, RoundStays DEF Current
<1>5. CASE ~(TurnPasses \/ TurnSubmits \/ EnqueueEnd \/ FetchSnapshots)
  <2>1. UNCHANGED <<cursor, considered, turns>> /\ (main' # "enqueue" => main # "enqueue")
    BY <1>5 DEF Next, Main, Loop, ListExpired, ExpireOne, ExpireEnd, SubmitExtra, DropExtra, Wake, ListOpen,
       CancelOpen, Drained, Close, MainBreaks, IdleTimesOut, Job, Send, SubmitAnswered, CancelAnswered,
       CancelRejected, Finish, Release, Raise, Serve, ServeSubmit, ServeCancel, ServeLate, Fill, TurnSession,
       Signal, vars, tickVars, loopVars
  <2>2. QED
    BY <2>1, RoundStays DEF RoundInv, Current
<1>6. QED
  BY <1>1, <1>2, <1>3, <1>4, <1>5

\* _enqueue_due_intents gives no participant two turns more than another, whatever the
\* number of participants, however often the slots run out in the middle of a round and
\* whenever the market closes.
THEOREM TurnsRoundRobin == Spec => []RoundRobin
<1>1. Inv => TickTypes
  BY DEF Inv, Types, CoreTypes
<1>2. Spec => []RoundInv
  <2>1. Init => RoundInv
    BY RoundInit
  <2>2. Inv /\ RoundInv /\ [Next]_vars => RoundInv'
    BY <1>1, StepRound
  <2>3. QED
    BY <2>1, <2>2, Invariance, PTL DEF Spec
<1>3. RoundInv => RoundRobin
  BY DEF RoundInv, RoundRobin
<1>4. QED
  BY <1>2, <1>3, PTL

-----------------------------------------------------------------------------
(***************************************************************************)
(* The hours the runner keeps: the session policy and the loop that        *)
(* follows it (MarketSession).                                             *)
(***************************************************************************)

Opening(date) == InstantOf(date, MarketOpen)
Closing(date) == InstantOf(date, MarketClose)
Last == opened[Len(opened)]

\* A wait ends before the session it waits for does, and a tick and its wait are
\* shorter than a night.
PromptWaits ==
    \A lag \in Lateness : /\ Opening(0) + lag < Closing(0)
                           /\ Closing(0) + Interval + lag <= Opening(1)

\* e is a trading day, the first one after d.
Follows(d, e) == d < e /\ Weekday(e) < 5 /\ \A x \in d + 1 .. e - 1 : Weekday(x) >= 5

\* While the session of the last opened day may go on, the clock is before the
\* opening of the next day; after it, the runner waits for the opening of the trading
\* day that follows, or has just woken in it.
Pace ==
    mode = "scheduled" /\ opened # << >> =>
        /\ Weekday(Last) < 5
        /\ sessionOpen /\ phase = "wait" =>
              Opening(Last) <= now /\ now < Closing(Last) /\ wake = now + Interval
        /\ sessionOpen /\ phase = "look" => Opening(Last) <= now /\ now < Opening(Last + 1)
        /\ ~sessionOpen /\ phase = "wait" => \E e \in Nat : Follows(Last, e) /\ wake = Opening(e)
        /\ ~sessionOpen /\ phase = "look" =>
              \E e \in Nat : Follows(Last, e) /\ Opening(e) <= now /\ now < Closing(e)

\* A market that is always open is opened once.
AlwaysOpen ==
    mode = "always_open" => (opened = << >> <=> ~sessionOpen) /\ Len(opened) <= 1
                            /\ (phase = "wait" => sessionOpen)

SessionInv ==
    /\ EachDayOnce
    /\ sessionOpen => opened # << >>
    /\ Pace /\ AlwaysOpen

-----------------------------------------------------------------------------
(* The calendar *)

\* An instant is a minute of a day in Seoul.
LEMMA LocalClock ==
    ASSUME NEW t \in Nat
    PROVE  /\ LocalDate(t) \in Nat /\ LocalTime(t) \in 0 .. 1439
           /\ t = 1440 * LocalDate(t) + LocalTime(t) - 540
  BY DEF LocalDate, LocalTime, Localize, Day

LEMMA Hours ==
    ASSUME NEW d \in Int
    PROVE  Opening(d) = 1440 * d /\ Closing(d) = 1440 * d + 390
  BY DEF Opening, Closing, InstantOf, Day, MarketOpen, MarketClose

\* The date of an instant is the day whose midnights enclose it.
LEMMA DateOf ==
    ASSUME NEW t \in Nat, NEW d \in Nat
    PROVE  LocalDate(t) = d <=> 1440 * d - 540 <= t /\ t < 1440 * d + 900
<1> DEFINE m == LocalTime(t)
           l == LocalDate(t)
<1>1. l \in Nat /\ m \in 0 .. 1439 /\ t = 1440 * l + m - 540
  BY LocalClock
<1> HIDE DEF m, l
<1>2. l = d <=> 1440 * d - 540 <= t /\ t < 1440 * d + 900
  BY <1>1
<1> QED BY <1>2 DEF l

LEMMA Weekdays ==
    ASSUME NEW d \in Nat
    PROVE  /\ Weekday(d) \in 0 .. 6
           /\ Weekday(d + 1) = IF Weekday(d) = 6 THEN 0 ELSE Weekday(d) + 1
  BY DEF Weekday

\* The loop over the candidates ends with the first trading day after the date.
LEMMA NextTrading ==
    ASSUME NEW d \in Nat
    PROVE  NextTradingDay(d) \in Nat /\ Follows(d, NextTradingDay(d))
<1> DEFINE First(e) == Weekday(e) < 5 /\ \A x \in d + 1 .. e - 1 : Weekday(x) >= 5
<1>1. /\ Weekday(d) \in 0 .. 6 /\ Weekday(d + 1) \in 0 .. 6
      /\ Weekday(d + 2) \in 0 .. 6
      /\ Weekday(d + 1) = IF Weekday(d) = 6 THEN 0 ELSE Weekday(d) + 1
      /\ Weekday(d + 2) = IF Weekday(d + 1) = 6 THEN 0 ELSE Weekday(d + 1) + 1
      /\ Weekday(d + 3) = IF Weekday(d + 2) = 6 THEN 0 ELSE Weekday(d + 2) + 1
  <2>1. d + 1 \in Nat /\ d + 2 \in Nat /\ (d + 1) + 1 = d + 2 /\ (d + 2) + 1 = d + 3
    OBVIOUS
  <2> QED BY <2>1, Weekdays
<1>2. \/ Weekday(d + 1) < 5
      \/ Weekday(d + 1) >= 5 /\ Weekday(d + 2) < 5
      \/ Weekday(d + 1) >= 5 /\ Weekday(d + 2) >= 5 /\ Weekday(d + 3) < 5
  BY <1>1
<1>3. \E e \in d + 1 .. d + 3 : First(e)
  <2>1. CASE Weekday(d + 1) < 5
    BY <2>1
  <2>2. CASE Weekday(d + 1) >= 5 /\ Weekday(d + 2) < 5
    <3>1. \A x \in d + 1 .. (d + 2) - 1 : x = d + 1
      OBVIOUS
    <3> QED BY <2>2, <3>1
  <2>3. CASE Weekday(d + 1) >= 5 /\ Weekday(d + 2) >= 5 /\ Weekday(d + 3) < 5
    <3>1. \A x \in d + 1 .. (d + 3) - 1 : x = d + 1 \/ x = d + 2
      OBVIOUS
    <3> QED BY <2>3, <3>1
  <2> QED BY <1>2, <2>1, <2>2, <2>3
<1>4. NextTradingDay(d) \in d + 1 .. d + 3 /\ First(NextTradingDay(d))
  BY <1>3 DEF NextTradingDay
<1> HIDE DEF First
<1>5. NextTradingDay(d) \in Nat /\ d < NextTradingDay(d)
  BY <1>4
<1> QED BY <1>4, <1>5 DEF First, Follows

\* The hours in which a scheduled market is open.
LEMMA OpenHours ==
    ASSUME mode = "scheduled", NEW t \in Nat
    PROVE  IsOpen(t) <=>
             \E d \in Nat : Weekday(d) < 5 /\ Opening(d) <= t /\ t < Closing(d)
<1> DEFINE l == LocalDate(t)
           m == LocalTime(t)
<1>1. l \in Nat /\ m \in 0 .. 1439 /\ t = 1440 * l + m - 540
  BY LocalClock
<1>2. IsOpen(t) <=> Weekday(l) < 5 /\ 540 <= m /\ m < 930
  BY DEF IsOpen, MarketOpen, MarketClose
<1>3. ASSUME NEW d \in Nat, Opening(d) <= t, t < Closing(d) PROVE d = l
  <2>1. 1440 * d <= t /\ t < 1440 * d + 390
    BY <1>3, Hours
  <2>2. 1440 * d - 540 <= t /\ t < 1440 * d + 900
    BY <2>1
  <2> QED BY <2>2, DateOf
<1>4. Opening(l) = 1440 * l /\ Closing(l) = 1440 * l + 390
  BY <1>1, Hours
<1> HIDE DEF l, m
<1>5. 540 <= m /\ m < 930 <=> Opening(l) <= t /\ t < Closing(l)
  BY <1>1, <1>4
<1> QED BY <1>1, <1>2, <1>3, <1>5

\* next_open: the opening of a trading day after now, with no open minute in between;
\* after the session of a day, of the trading day that follows it.
LEMMA NextOpenFirst ==
    ASSUME mode = "scheduled", NEW t \in Nat, ~IsOpen(t)
    PROVE  \E e \in Nat :
             /\ NextOpen(t) = Opening(e) /\ Weekday(e) < 5 /\ t < Opening(e)
             /\ \A x \in t .. Opening(e) - 1 : ~IsOpen(x)
             /\ \A d \in Nat : Weekday(d) < 5 /\ Opening(d) <= t /\ t < Opening(d + 1)
                               => Follows(d, e)
<1> DEFINE l == LocalDate(t)
           m == LocalTime(t)
           Early == Weekday(l) < 5 /\ m < 540
           n == NextTradingDay(l)
           e == IF Early THEN l ELSE n
<1>1. l \in Nat /\ m \in 0 .. 1439 /\ t = 1440 * l + m - 540
  BY LocalClock
<1>2. n \in Nat /\ Follows(l, n)
  BY <1>1, NextTrading
<1>3. NextOpen(t) = Opening(e)
  BY DEF NextOpen, MarketOpen, Opening
<1>4. Weekday(l) < 5 => m < 540 \/ m >= 930
  BY <1>1 DEF IsOpen, MarketOpen, MarketClose
<1>5. Weekday(l) \in 0 .. 6
  BY <1>1, Weekdays
<1> HIDE DEF l, m, n
<1>6. e \in Nat /\ Weekday(e) < 5 /\ Opening(e) = 1440 * e
  BY <1>1, <1>2, Hours DEF Follows
<1>7. t < Opening(e)
  <2>1. CASE Early
    BY <1>1, <1>6, <2>1
  <2>2. CASE ~Early
    BY <1>1, <1>2, <1>6, <2>2 DEF Follows
  <2> QED BY <2>1, <2>2
<1>8. ASSUME NEW x \in t .. Opening(e) - 1, IsOpen(x) PROVE FALSE
  <2>0. x \in Nat
    BY <1>6
  <2>1. PICK d \in Nat : Weekday(d) < 5 /\ Opening(d) <= x /\ x < Closing(d)
    BY <1>8, <2>0, OpenHours
  <2>2. 1440 * d <= x /\ x < 1440 * d + 390 /\ t <= x /\ x < 1440 * e
    BY <1>6, <2>1, Hours
  <2>3. l <= d /\ d < e
    BY <1>1, <1>6, <2>2
  <2>4. CASE Early
    BY <1>1, <2>3, <2>4
  <2>5. CASE ~Early
    <3>1. d \notin l + 1 .. n - 1
      BY <1>2, <1>5, <2>1, Weekdays DEF Follows
    <3>2. d = l
      BY <1>1, <1>2, <2>3, <2>5, <3>1
    <3> QED BY <1>1, <1>4, <2>1, <2>2, <2>5, <3>2
  <2> QED BY <2>4, <2>5
<1>9. ASSUME NEW d \in Nat, Weekday(d) < 5, Opening(d) <= t, t < Opening(d + 1)
      PROVE  Follows(d, e)
  <2>1. 1440 * d <= t /\ t < 1440 * (d + 1)
    BY <1>9, Hours
  <2>2. l = d \/ l = d + 1
    BY <1>1, <2>1
  <2>3. CASE l = d
    <3>1. m >= 540
      BY <1>1, <2>1, <2>3
    <3>2. e = n
      BY <1>1, <3>1
    <3> QED BY <1>2, <2>3, <3>2
  <2>4. CASE l = d + 1
    <3>1. m < 540
      BY <1>1, <2>1, <2>4
    <3>2. CASE Early
      <4>1. e = d + 1 /\ \A y \in d + 1 .. e - 1 : FALSE
        BY <2>4, <3>2
      <4> QED BY <1>6, <4>1 DEF Follows
    <3>3. CASE ~Early
      <4>1. e = n /\ Weekday(l) >= 5
        BY <1>5, <3>1, <3>3
      <4>2. l < n /\ \A y \in l + 1 .. n - 1 : Weekday(y) >= 5
        BY <1>2 DEF Follows
      <4>3. \A y \in d + 1 .. n - 1 : y = l \/ y \in l + 1 .. n - 1
        BY <1>1, <1>2, <2>4
      <4>4. d < n /\ \A y \in d + 1 .. n - 1 : Weekday(y) >= 5
        BY <1>1, <1>2, <2>4, <4>1, <4>2, <4>3
      <4> QED BY <1>6, <4>1, <4>4 DEF Follows
    <3> QED BY <3>2, <3>3
  <2> QED BY <2>2, <2>3, <2>4
<1> HIDE DEF e
<1> QED BY <1>3, <1>6, <1>7, <1>8, <1>9

-----------------------------------------------------------------------------
(* The loop *)

\* A closed runner waits for the next opening.
Asleep == SessionTypeOK /\ SleepsToOpening

LEMMA OpenDates ==
    ASSUME SessionTypeOK, IsOpen(now)
    PROVE  /\ SessionDate(now) = LocalDate(now) /\ LocalDate(now) \in Nat
           /\ mode = "scheduled" => /\ Weekday(LocalDate(now)) < 5
                                    /\ Opening(LocalDate(now)) <= now
                                    /\ now < Closing(LocalDate(now))
<1>1. now \in Nat /\ mode \in {"scheduled", "always_open"}
  BY DEF SessionTypeOK, Modes
<1>2. LocalDate(now) \in Nat
  BY <1>1, LocalClock
<1>3. mode = "always_open" => SessionDate(now) = LocalDate(now)
  BY DEF SessionDate
<1>4. CASE mode = "scheduled"
  <2>1. PICK d \in Nat : Weekday(d) < 5 /\ Opening(d) <= now /\ now < Closing(d)
    BY <1>1, <1>4, OpenHours
  <2>2. 1440 * d - 540 <= now /\ now < 1440 * d + 900
    BY <1>1, <2>1, Hours
  <2>3. LocalDate(now) = d
    BY <1>1, <2>2, DateOf
  <2> QED BY <1>2, <2>1, <2>3 DEF SessionDate
<1> QED BY <1>1, <1>2, <1>3, <1>4

LEMMA SessionConstants ==
    Start \subseteq Nat /\ Interval \in Nat \ {0} /\ Lateness \subseteq Nat /\ Until \in Nat
BY SessionAssumption

LEMMA AsleepInit == SessionInit => Asleep
<1> SUFFICES ASSUME SessionInit PROVE Asleep
  OBVIOUS
<1>1. SessionTypeOK
  <2>1. /\ now \in Start /\ wake = now /\ opened = << >> /\ mode \in Modes
        /\ phase = "look" /\ sessionOpen = FALSE
    BY DEF SessionInit
  <2>2. now \in Nat /\ sessionOpen \in BOOLEAN
    BY <2>1, SessionConstants
  <2>3. opened \in Seq(Nat)
    BY <2>1
  <2> QED BY <2>1, <2>2, <2>3 DEF SessionTypeOK
<1>2. SleepsToOpening
  BY DEF SessionInit, SleepsToOpening
<1> QED BY <1>1, <1>2 DEF Asleep

LEMMA AsleepNext ==
    ASSUME Asleep, [SessionNext]_sessionVars
    PROVE  Asleep'
<1>0. /\ SessionTypeOK /\ mode \in Modes /\ now \in Nat /\ wake \in Nat
      /\ opened \in Seq(Nat) /\ Interval \in Nat /\ Lateness \subseteq Nat
      /\ mode = "scheduled" \/ mode = "always_open"
  BY SessionConstants DEF Asleep, SessionTypeOK, Modes
<1>1. CASE UNCHANGED sessionVars
  <2>1. UNCHANGED <<mode, now, phase, wake, sessionOpen, opened>>
    BY <1>1 DEF sessionVars
  <2>2. \A t : IsOpen(t)' <=> IsOpen(t)
    BY <2>1 DEF IsOpen, LocalDate, LocalTime, Weekday, Localize,
                Day, MarketOpen, MarketClose
  <2> QED BY <2>1, <2>2 DEF Asleep, SessionTypeOK, SleepsToOpening, Modes
<1>2. CASE LookClosed
  <2>1. /\ mode' = mode /\ now' = now /\ opened' = opened /\ phase' = "wait" /\ sessionOpen' = FALSE
        /\ wake' = NextOpen(now) /\ ~IsOpen(now)
    BY <1>2 DEF LookClosed
  <2>2. mode = "scheduled"
    BY <1>0, <2>1 DEF IsOpen
  <2>3. PICK e \in Nat : /\ NextOpen(now) = Opening(e) /\ Weekday(e) < 5
                         /\ now < Opening(e) /\ \A x \in now .. Opening(e) - 1 : ~IsOpen(x)
    BY <1>0, <2>1, <2>2, NextOpenFirst
  <2>4. Opening(e) \in Nat /\ Opening(e) < Closing(e)
    BY Hours
  <2>5. IsOpen(Opening(e))
    BY <2>2, <2>3, <2>4, OpenHours
  <2>6. \A t : IsOpen(t)' <=> IsOpen(t)
    BY <2>1 DEF IsOpen, LocalDate, LocalTime, Weekday, Localize,
                Day, MarketOpen, MarketClose
  <2>7. SessionTypeOK'
    BY <1>0, <2>1, <2>3, <2>4 DEF SessionTypeOK, Modes
  <2>8. IsOpen(wake)' /\ \A t \in now .. wake' - 1 : ~IsOpen(t)'
    <3>1. IsOpen(wake)' <=> IsOpen(Opening(e))
      BY <2>1, <2>3 DEF IsOpen, LocalDate, LocalTime, Weekday, Localize,
                Day, MarketOpen, MarketClose
    <3> QED BY <2>1, <2>3, <2>5, <2>6, <3>1
  <2> QED BY <2>1, <2>7, <2>8 DEF Asleep, SleepsToOpening
<1>3. CASE LookOpen
  <2>1. /\ mode' = mode /\ now' = now /\ sessionOpen' = TRUE /\ phase' = "wait" /\ wake' = now + Interval
        /\ opened' = opened \/ opened' = Append(opened, SessionDate(now))
        /\ IsOpen(now)
    BY <1>3 DEF LookOpen
  <2>2. opened' \in Seq(Nat)
    BY <1>0, <2>1, OpenDates
  <2>3. SessionTypeOK'
    BY <1>0, <2>1, <2>2 DEF SessionTypeOK, Modes
  <2> QED BY <2>1, <2>3 DEF Asleep, SleepsToOpening
<1>4. CASE TimedOut
  <2>1. /\ mode' = mode /\ wake' = wake /\ sessionOpen' = sessionOpen /\ opened' = opened /\ phase' = "look"
        /\ now' \in Nat
    BY <1>0, <1>4 DEF TimedOut
  <2> QED BY <1>0, <2>1 DEF Asleep, SessionTypeOK, SleepsToOpening, Modes
<1>5. CASE Stop
  <2>1. UNCHANGED <<mode, now, wake, sessionOpen, opened>> /\ phase' = "stopped"
    BY <1>5 DEF Stop
  <2> QED BY <1>0, <2>1 DEF Asleep, SessionTypeOK, SleepsToOpening, Modes
<1> QED BY <1>1, <1>2, <1>3, <1>4, <1>5 DEF SessionNext

\* Whenever the runner starts, over nights and weekends: while it waits with the market
\* closed there is no open minute before the one it wakes in (next_open in
\* market_session.py, run_until_stopped in runner.py).
THEOREM SleepsUntilOpening == SessionSpec => []SleepsToOpening
<1>1. SessionInit => Asleep
  BY AsleepInit
<1>2. Asleep /\ [SessionNext]_sessionVars => Asleep'
  BY AsleepNext
<1>3. Asleep => SleepsToOpening
  BY DEF Asleep
<1> QED BY <1>1, <1>2, <1>3, PTL DEF SessionSpec

-----------------------------------------------------------------------------
(* The days the runner opens *)

LEMMA PaceInit == SessionInit => SessionInv
<1> SUFFICES ASSUME SessionInit PROVE SessionInv
  OBVIOUS
<1>1. SessionTypeOK
  BY AsleepInit DEF Asleep
<1>2. opened = << >> /\ sessionOpen = FALSE /\ phase = "look"
  BY DEF SessionInit
<1>3. Len(opened) = 0
  BY <1>2
<1>4. EachDayOnce
  BY <1>1, <1>3 DEF EachDayOnce
<1> QED BY <1>2, <1>3, <1>4 DEF SessionInv, Pace, AlwaysOpen

\* What the history says of its last entry, as a fact about any sequence of dates.
LEMMA Appended ==
    ASSUME NEW s \in Seq(Nat), NEW d \in Nat
    PROVE  /\ Append(s, d) \in Seq(Nat) /\ Len(Append(s, d)) = Len(s) + 1
           /\ Append(s, d)[Len(Append(s, d))] = d /\ Append(s, d) # << >>
           /\ \A i \in 1 .. Len(s) : Append(s, d)[i] = s[i]
  OBVIOUS

LEMMA NonEmpty ==
    ASSUME NEW s \in Seq(Nat)
    PROVE  /\ Len(s) \in Nat
           /\ s # << >> => Len(s) \in 1 .. Len(s) /\ s[Len(s)] \in Nat
           /\ s = << >> <=> Len(s) = 0
  OBVIOUS

\* The market is open: the day is opened unless it has been.
LEMMA OpenStep ==
    ASSUME SessionTypeOK, SessionTypeOK', SessionInv, LookOpen
    PROVE  SessionInv'
<1> DEFINE d == LocalDate(now)
<1>0. /\ now \in Nat /\ opened \in Seq(Nat) /\ mode \in Modes
      /\ mode = "scheduled" \/ mode = "always_open"
  BY DEF SessionTypeOK, Modes
<1>1. /\ phase = "look" /\ mode' = mode /\ now' = now /\ sessionOpen' = TRUE /\ phase' = "wait"
      /\ wake' = now + Interval /\ IsOpen(now)
      /\ opened' = IF sessionOpen THEN opened ELSE Append(opened, SessionDate(now))
  BY DEF LookOpen
<1>2. /\ SessionDate(now) = d /\ d \in Nat
      /\ mode = "scheduled" => Weekday(d) < 5 /\ Opening(d) <= now /\ now < Closing(d)
  BY <1>1, OpenDates
<1> HIDE DEF d
<1>3. ASSUME mode = "scheduled", opened # << >>, ~sessionOpen PROVE Follows(Last, d)
  <2>1. PICK e \in Nat : Follows(Last, e) /\ Opening(e) <= now /\ now < Closing(e)
    BY <1>1, <1>3 DEF SessionInv, Pace
  <2>2. d = e
    <3>1. 1440 * e <= now /\ now < 1440 * e + 390 /\ 1440 * d <= now /\ now < 1440 * d + 390
      BY <1>2, <1>3, <2>1, Hours
    <3> QED BY <1>0, <1>2, <3>1
  <2> QED BY <2>1, <2>2
<1>4. ASSUME mode = "scheduled", opened # << >>, sessionOpen PROVE d = Last
  <2>1. Opening(Last) <= now /\ now < Opening(Last + 1) /\ Last \in Nat
    BY <1>0, <1>1, <1>4, NonEmpty DEF SessionInv, Pace, Last
  <2> DEFINE l == Last
  <2> HIDE DEF l
  <2>2. l \in Nat /\ Opening(l) <= now /\ now < Opening(l + 1)
    BY <2>1 DEF l
  <2>3. 1440 * l <= now /\ now < 1440 * (l + 1) /\ 1440 * d <= now /\ now < 1440 * d + 390
    BY <1>2, <1>4, <2>2, Hours
  <2>4. d = l
    BY <1>0, <1>2, <2>2, <2>3
  <2> QED BY <2>4 DEF l
<1>5. opened' # << >> /\ (mode = "scheduled" => Last' = d)
  <2>1. CASE sessionOpen
    BY <1>1, <1>4, <2>1 DEF SessionInv, Last
  <2>2. CASE ~sessionOpen
    <3>1. opened' = Append(opened, d)
      BY <1>1, <1>2, <2>2
    <3> QED BY <1>0, <1>2, <3>1, Appended DEF Last
  <2> QED BY <2>1, <2>2
<1>6. Pace'
  <2>1. Weekday(d) < 5 /\ Opening(d) <= now /\ now < Closing(d) /\ Last' = d
        => (/\ Weekday(Last) < 5 /\ Opening(Last) <= now /\ now < Closing(Last))'
    BY <1>1 DEF Weekday, Opening, Closing, InstantOf, Day,
                MarketOpen, MarketClose
  <2> QED BY <1>1, <1>2, <1>5, <2>1 DEF Pace
<1>7. EachDayOnce'
  <2>1. CASE sessionOpen
    BY <1>1, <2>1 DEF SessionInv, EachDayOnce, Weekday
  <2>2. CASE ~sessionOpen
    <3>1. opened' = Append(opened, d)
      BY <1>1, <1>2, <2>2
    <3>2. /\ Len(opened') = Len(opened) + 1 /\ Len(opened) \in Nat
          /\ opened'[Len(opened) + 1] = d /\ \A i \in 1 .. Len(opened) : opened'[i] = opened[i]
      BY <1>0, <1>2, <3>1, Appended
    <3>3. ASSUME NEW i \in 2 .. Len(opened')
          PROVE  /\ opened'[i - 1] < opened'[i]
                 /\ \A date \in opened'[i - 1] + 1 .. opened'[i] - 1 : Weekday(date) >= 5
      <4>1. CASE i \in 2 .. Len(opened)
        <5>1. /\ opened[i - 1] < opened[i]
              /\ \A date \in opened[i - 1] + 1 .. opened[i] - 1 : Weekday(date) >= 5
          BY <4>1 DEF SessionInv, EachDayOnce
        <5>2. opened'[i - 1] = opened[i - 1] /\ opened'[i] = opened[i]
          BY <3>2, <4>1
        <5> QED BY <5>1, <5>2
      <4>2. CASE i = Len(opened) + 1
        <5>1. Len(opened) \in 1 .. Len(opened) /\ opened # << >> /\ i - 1 = Len(opened)
          BY <1>0, <3>2, <3>3, <4>2
        <5>2. mode = "scheduled"
          <6>1. ASSUME mode = "always_open" PROVE FALSE
            BY <2>2, <5>1, <6>1 DEF SessionInv, AlwaysOpen
          <6> QED BY <1>0, <6>1
        <5>3. Follows(opened[Len(opened)], d)
          BY <1>3, <2>2, <5>1, <5>2 DEF Last
        <5>4. opened'[i - 1] = opened[Len(opened)] /\ opened'[i] = d
          BY <3>2, <4>2, <5>1
        <5> QED BY <5>3, <5>4 DEF Follows
      <4> QED BY <3>2, <3>3, <4>1, <4>2
    <3> QED BY <3>3 DEF EachDayOnce, Weekday
  <2> QED BY <2>1, <2>2
<1>8. AlwaysOpen'
  <2>1. ASSUME mode = "always_open" PROVE Len(opened') <= 1
    <3>1. CASE sessionOpen
      BY <1>1, <2>1, <3>1 DEF SessionInv, AlwaysOpen
    <3>2. CASE ~sessionOpen
      <4>1. opened = << >> /\ opened' = Append(opened, d)
        BY <1>1, <1>2, <2>1, <3>2 DEF SessionInv, AlwaysOpen
      <4>2. Len(opened) = 0 /\ Len(opened') = Len(opened) + 1
        BY <1>0, <1>2, <4>1, Appended
      <4> QED BY <4>2
    <3> QED BY <3>1, <3>2
  <2> QED BY <1>1, <1>5, <2>1 DEF AlwaysOpen
<1> QED BY <1>5, <1>6, <1>7, <1>8 DEF SessionInv

\* The market is closed: the session that was open is over, and the next one is awaited.
LEMMA ClosedStep ==
    ASSUME SessionTypeOK, SessionTypeOK', SessionInv, LookClosed
    PROVE  SessionInv'
<1>0. /\ now \in Nat /\ opened \in Seq(Nat)
      /\ mode = "scheduled" \/ mode = "always_open"
  BY DEF SessionTypeOK, Modes
<1>1. /\ phase = "look" /\ mode' = mode /\ now' = now /\ opened' = opened
      /\ sessionOpen' = FALSE /\ phase' = "wait"
      /\ wake' = NextOpen(now) /\ ~IsOpen(now)
  BY DEF LookClosed
<1>2. mode = "scheduled"
  BY <1>0, <1>1 DEF IsOpen
<1>3. PICK e \in Nat :
        /\ NextOpen(now) = Opening(e) /\ Weekday(e) < 5
        /\ \A d \in Nat : Weekday(d) < 5 /\ Opening(d) <= now /\ now < Opening(d + 1)
                          => Follows(d, e)
  BY <1>0, <1>1, <1>2, NextOpenFirst
<1>4. ASSUME opened # << >> PROVE Follows(Last, e) /\ Weekday(Last) < 5
  <2>1. Last \in Nat /\ Weekday(Last) < 5
    BY <1>0, <1>2, <1>4, NonEmpty DEF SessionInv, Pace, Last
  <2>2. CASE sessionOpen
    BY <1>1, <1>2, <1>3, <1>4, <2>1, <2>2 DEF SessionInv, Pace
  <2>3. CASE ~sessionOpen
    <3>1. PICK d \in Nat : Follows(Last, d) /\ Opening(d) <= now /\ now < Closing(d)
      BY <1>1, <1>2, <1>4, <2>3 DEF SessionInv, Pace
    <3>2. IsOpen(now)
      BY <1>0, <1>2, <3>1, OpenHours DEF Follows
    <3> QED BY <1>1, <3>2
  <2> QED BY <2>1, <2>2, <2>3
<1>5. Last' = Last
  BY <1>1 DEF Last
<1>6. Pace'
  <2>1. opened # << >> => (\E x \in Nat : Follows(Last, x) /\ wake = Opening(x))'
    <3>1. Opening(e) = wake'
      BY <1>1, <1>3
    <3>2. Follows(Last, e) => Follows(Last, e)'
      BY <1>5 DEF Follows, Weekday
    <3> QED BY <1>4, <3>1, <3>2 DEF Opening, InstantOf, Day, MarketOpen
  <2>2. opened # << >> => (Weekday(Last) < 5)'
    BY <1>4, <1>5 DEF Weekday
  <2> QED BY <1>1, <2>1, <2>2 DEF Pace
<1>7. EachDayOnce'
  BY <1>1 DEF SessionInv, EachDayOnce, Weekday
<1>8. AlwaysOpen'
  BY <1>1, <1>2 DEF AlwaysOpen
<1> QED BY <1>1, <1>6, <1>7, <1>8 DEF SessionInv

\* A wait ends in time.
LEMMA TimedOutStep ==
    ASSUME PromptWaits, SessionTypeOK, SessionTypeOK', SessionInv, TimedOut
    PROVE  SessionInv'
<1>0. /\ now \in Nat /\ wake \in Nat /\ opened \in Seq(Nat) /\ Interval \in Nat
      /\ mode = "scheduled" \/ mode = "always_open"
  BY SessionConstants DEF SessionTypeOK, Modes
<1>1. PICK lag \in Lateness : now' = wake + lag
  BY DEF TimedOut
<1>2. /\ phase = "wait" /\ phase' = "look" /\ mode' = mode /\ sessionOpen' = sessionOpen /\ opened' = opened
  BY DEF TimedOut
<1>3. lag \in Nat /\ lag < 390 /\ 390 + Interval + lag <= 1440
  <2>1. lag \in Nat
    BY SessionConstants
  <2>2. Opening(0) = 0 /\ Closing(0) = 390 /\ Opening(1) = 1440
    BY Hours
  <2>3. Opening(0) + lag < Closing(0) /\ Closing(0) + Interval + lag <= Opening(1)
    BY DEF PromptWaits
  <2> QED BY <1>0, <2>1, <2>2, <2>3
<1>4. ASSUME mode = "scheduled", opened # << >>, sessionOpen
      PROVE  Opening(Last) <= now' /\ now' < Opening(Last + 1)
  <2> DEFINE l == Last
  <2>1. l \in Nat /\ Opening(l) <= now /\ now < Closing(l) /\ wake = now + Interval
    BY <1>0, <1>2, <1>4, NonEmpty DEF SessionInv, Pace, Last
  <2> HIDE DEF l
  <2>2. /\ Opening(l) = 1440 * l /\ Closing(l) = 1440 * l + 390 /\ Opening(l + 1) = 1440 * (l + 1)
    BY <2>1, Hours
  <2>3. Opening(l) <= now' /\ now' < Opening(l + 1)
    BY <1>0, <1>1, <1>3, <2>1, <2>2
  <2> QED BY <2>3 DEF l
<1>5. ASSUME mode = "scheduled", opened # << >>, ~sessionOpen
      PROVE  \E e \in Nat : Follows(Last, e) /\ Opening(e) <= now' /\ now' < Closing(e)
  <2>1. PICK e \in Nat : Follows(Last, e) /\ wake = Opening(e)
    BY <1>2, <1>5 DEF SessionInv, Pace
  <2>2. Opening(e) = 1440 * e /\ Closing(e) = 1440 * e + 390
    BY Hours
  <2>3. Opening(e) <= now' /\ now' < Closing(e)
    BY <1>0, <1>1, <1>3, <2>1, <2>2
  <2> QED BY <2>1, <2>3
<1>6. Last' = Last
  BY <1>2 DEF Last
<1>7. ASSUME mode = "scheduled", opened # << >> PROVE Weekday(Last) < 5
  BY <1>7 DEF SessionInv, Pace
<1>8. Pace'
  <2>1. opened # << >> /\ mode = "scheduled" => (Weekday(Last) < 5)'
    BY <1>6, <1>7 DEF Weekday
  <2>2. mode = "scheduled" /\ opened # << >> /\ sessionOpen => (Opening(Last) <= now /\ now < Opening(Last + 1))'
    BY <1>4, <1>6 DEF Opening, InstantOf, Day, MarketOpen
  <2>3. mode = "scheduled" /\ opened # << >> /\ ~sessionOpen =>
          (\E e \in Nat : Follows(Last, e) /\ Opening(e) <= now /\ now < Closing(e))'
    BY <1>5, <1>6 DEF Follows, Weekday, Opening, Closing, InstantOf, Day,
                      MarketOpen, MarketClose
  <2> QED BY <1>2, <2>1, <2>2, <2>3 DEF Pace
<1>9. EachDayOnce'
  BY <1>2 DEF SessionInv, EachDayOnce, Weekday
<1>10. AlwaysOpen'
  BY <1>2 DEF SessionInv, AlwaysOpen
<1> QED BY <1>2, <1>8, <1>9, <1>10 DEF SessionInv

LEMMA StopStep ==
    ASSUME SessionTypeOK', SessionInv, Stop
    PROVE  SessionInv'
<1>1. UNCHANGED <<mode, now, wake, sessionOpen, opened>> /\ phase' = "stopped"
  BY DEF Stop
<1>2. Pace'
  BY <1>1 DEF SessionInv, Pace, Last, Weekday
<1>3. EachDayOnce'
  BY <1>1 DEF SessionInv, EachDayOnce, Weekday
<1>4. AlwaysOpen'
  BY <1>1 DEF SessionInv, AlwaysOpen
<1> QED BY <1>1, <1>2, <1>3, <1>4 DEF SessionInv

LEMMA IdleStep ==
    ASSUME SessionTypeOK', SessionInv, UNCHANGED sessionVars
    PROVE  SessionInv'
<1>1. UNCHANGED <<mode, now, phase, wake, sessionOpen, opened>>
  BY DEF sessionVars
<1>2. Pace'
  BY <1>1 DEF SessionInv, Pace, Last, Follows, Opening, Closing, Weekday, InstantOf,
              Day, MarketOpen, MarketClose
<1>3. EachDayOnce'
  BY <1>1 DEF SessionInv, EachDayOnce, Weekday
<1>4. AlwaysOpen'
  BY <1>1 DEF SessionInv, AlwaysOpen
<1> QED BY <1>1, <1>2, <1>3, <1>4 DEF SessionInv

\* Over nights and weekends, however late the waits end within the bound: each trading day
\* is opened once, in order, and between two opened days there is no other trading day
\* (run_until_stopped in runner.py).
THEOREM EveryDayOpenedOnce ==
    ASSUME PromptWaits
    PROVE  SessionSpec => []EachDayOnce
<1>1. SessionInit => Asleep /\ SessionInv
  BY AsleepInit, PaceInit
<1>2. Asleep /\ SessionInv /\ [SessionNext]_sessionVars => (Asleep /\ SessionInv)'
  <2> SUFFICES ASSUME Asleep, SessionInv, [SessionNext]_sessionVars PROVE Asleep' /\ SessionInv'
    OBVIOUS
  <2>1. Asleep' /\ SessionTypeOK /\ SessionTypeOK'
    BY AsleepNext DEF Asleep
  <2>2. CASE UNCHANGED sessionVars
    BY <2>1, <2>2, IdleStep
  <2>3. CASE LookClosed
    BY <2>1, <2>3, ClosedStep
  <2>4. CASE LookOpen
    BY <2>1, <2>4, OpenStep
  <2>5. CASE TimedOut
    BY <2>1, <2>5, TimedOutStep
  <2>6. CASE Stop
    BY <2>1, <2>6, StopStep
  <2> QED BY <2>1, <2>2, <2>3, <2>4, <2>5, <2>6 DEF SessionNext
<1>3. SessionInv => EachDayOnce
  BY DEF SessionInv
<1> QED BY <1>1, <1>2, <1>3, PTL DEF SessionSpec
=============================================================================
