--------------------------- MODULE MarketSession ---------------------------
(***************************************************************************)
(* The regular session of the market (market_session.py), a policy that    *)
(* matcher and runner share, and the loop of the runner that follows it    *)
(* (run_until_stopped in runner.py): it ticks while the market is open and *)
(* sleeps to the next opening otherwise.  What a tick does, and how orders *)
(* are cancelled at the close, is in Runner.                               *)
(*                                                                         *)
(* An instant is a number of minutes of UTC since the midnight a Monday    *)
(* begins with; the policy looks at it in Asia/Seoul, nine hours ahead and *)
(* without daylight saving.                                                *)
(***************************************************************************)
EXTENDS Integers, Sequences

CONSTANTS
    Start,     \* instants at which the runner may start
    Interval,  \* minutes between two ticks, a scaled tick_interval_ms
    Lateness,  \* minutes by which a timed wait may end late
    Until      \* bound: the last instant at which a wait may end

ASSUME SessionAssumption ==
    Start \subseteq Nat /\ Interval \in Nat \ {0} /\ Lateness \subseteq Nat /\ Until \in Nat

Day == 24 * 60
MarketOpen == 9 * 60
MarketClose == 15 * 60 + 30
Modes == {"scheduled", "always_open"}
NoDate == -1

VARIABLES
    mode,     \* mode of the MarketSession
    now,      \* the wall clock
    phase,    \* the loop is about to look, waits, or has ended
    wake,     \* the instant it waits for
    sessionOpen, \* was_open
    opened    \* history: session dates the runner opened

sessionVars == <<mode, now, phase, wake, sessionOpen, opened>>

-----------------------------------------------------------------------------
(* The policy *)

Localize(t) == t + 9 * 60

\* Date and time of day in Seoul; a Monday has weekday 0.
LocalDate(t) == Localize(t) \div Day
LocalTime(t) == Localize(t) % Day
Weekday(date) == date % 7
InstantOf(date, time) == date * Day + time - 9 * 60

IsOpen(t) ==
    \/ mode = "always_open"
    \/ /\ Weekday(LocalDate(t)) < 5
       /\ MarketOpen <= LocalTime(t) /\ LocalTime(t) < MarketClose

SessionDate(t) ==
    IF mode = "always_open" \/ Weekday(LocalDate(t)) < 5 THEN LocalDate(t) ELSE NoDate

\* Mutant of NextTradingDay: the candidate is moved before it is looked at.
NextTradingDayMoved(date) ==
    CHOOSE d \in date + 2 .. date + 4 : Weekday(d) < 5 /\ \A e \in date + 2 .. d - 1 : Weekday(e) >= 5

\* The loop over candidate: the first day after date that is not of a weekend.
NextTradingDay(date) ==
    CHOOSE d \in date + 1 .. date + 3 : Weekday(d) < 5 /\ \A e \in date + 1 .. d - 1 : Weekday(e) >= 5

\* Mutant of NextOpen: the morning of a trading day counts as passed.
NextOpenTomorrow(t) ==
    IF IsOpen(t) THEN t ELSE InstantOf(NextTradingDay(LocalDate(t)), MarketOpen)

NextOpen(t) ==
    IF IsOpen(t) THEN t
    ELSE IF Weekday(LocalDate(t)) < 5 /\ LocalTime(t) < MarketOpen
         THEN InstantOf(LocalDate(t), MarketOpen)
         ELSE InstantOf(NextTradingDay(LocalDate(t)), MarketOpen)

-----------------------------------------------------------------------------
(* The loop *)

SessionInit ==
    /\ mode \in Modes /\ now \in Start
    /\ phase = "look" /\ wake = now /\ sessionOpen = FALSE /\ opened = << >>

\* The market is closed: close if it was open, and wait for the next opening.
LookClosed ==
    /\ phase = "look" /\ ~IsOpen(now)
    /\ sessionOpen' = FALSE
    /\ wake' = NextOpen(now) /\ phase' = "wait"
    /\ UNCHANGED <<mode, now, opened>>

\* The market is open: open if it was not, tick, and wait one interval.
LookOpen ==
    /\ phase = "look" /\ IsOpen(now)
    /\ sessionOpen' = TRUE
    /\ opened' = IF sessionOpen THEN opened ELSE Append(opened, SessionDate(now))
    /\ wake' = now + Interval /\ phase' = "wait"
    /\ UNCHANGED <<mode, now>>

\* The wait times out, perhaps late.
TimedOut ==
    /\ phase = "wait"
    /\ \E late \in Lateness : now' = wake + late
    /\ now' <= Until
    /\ phase' = "look"
    /\ UNCHANGED <<mode, wake, sessionOpen, opened>>

\* The stop event is set while the loop waits.
Stop ==
    /\ phase = "wait"
    /\ phase' = "stopped"
    /\ UNCHANGED <<mode, now, wake, sessionOpen, opened>>

SessionNext == LookClosed \/ LookOpen \/ TimedOut \/ Stop

SessionSpec == SessionInit /\ [][SessionNext]_sessionVars

-----------------------------------------------------------------------------
(* Properties *)

\* The types of the loop's state: every session the runner opens has a date.
SessionTypeOK ==
    /\ mode \in Modes /\ now \in Nat /\ wake \in Nat
    /\ phase \in {"look", "wait", "stopped"} /\ sessionOpen \in BOOLEAN
    /\ opened \in Seq(Nat)

\* next_open is the first instant from now on at which is_open holds: a runner
\* that waits sleeps through no open minute and wakes in an open one.
SleepsToOpening ==
    phase = "wait" /\ ~sessionOpen =>
        /\ IsOpen(wake)
        /\ \A t \in now .. wake - 1 : ~IsOpen(t)

\* Each trading day is opened once and none is left out between two sessions of
\* a scheduled market, over nights and weekends, when waits end late by less
\* than a session; dates only grow and have a weekday (run_until_stopped).
EachDayOnce ==
    /\ SessionTypeOK
    /\ \A i \in 2 .. Len(opened) :
        /\ opened[i - 1] < opened[i]
        /\ \A date \in opened[i - 1] + 1 .. opened[i] - 1 : Weekday(date) >= 5
=============================================================================
