------------------------------ MODULE Traders ------------------------------
(***************************************************************************)
(* The strategies of the participants (participants/traders.py): when a    *)
(* trader is due and which limit orders it places on the book it is shown. *)
(* One trader, with any settings; the book it is shown is whatever the     *)
(* market made of it since the last tick.  When an EventReactiveTrader has *)
(* orders is decided in EventCoordinator; its prices are here.             *)
(***************************************************************************)
EXTENDS Integers, Sequences, FiniteSets

CONSTANTS
    Reference,      \* reference_price
    Steps,          \* values of price_step
    Offsets,        \* values of max_offset_steps
    IntervalTicks,  \* values of ticks_for_interval(interval_seconds, tick_interval_ms)
    Seeds,          \* values of seed
    Prices,         \* bound: prices that may be best in the book
    MaxTick         \* bound: ticks

ASSUME TradersAssumption ==
    /\ Reference \in Nat \ {0} /\ Steps \subseteq Nat \ {0} /\ Offsets \subseteq Nat
    /\ IntervalTicks \subseteq Nat \ {0} /\ Seeds \subseteq Int
    /\ Prices \subseteq Nat \ {0} /\ MaxTick \in Nat

Strategies == {"noise", "momentum", "mean_reversion", "liquidity_provider", "event_reactive"}
NoPrice == 0

VARIABLES
    strategy, step, reach, period, seed,  \* the settings; period is ticks_for_interval
    tick,       \* the tick of the runner
    book,       \* best bid and ask of the snapshot
    midpoint,   \* _previous_midpoint of a MomentumTrader
    lastDue,    \* history: the last tick in which the trader was due, 0 before
    placed      \* its orders in this tick

settingVars == <<strategy, step, reach, period, seed>>
traderVars == <<settingVars, tick, book, midpoint, lastDue, placed>>

AtMost(m, n) == IF m <= n THEN m ELSE n
AtLeast(m, n) == IF m >= n THEN m ELSE n

\* Snapshots of an uncrossed book.
Books == {b \in [bid : Prices \cup {NoPrice}, ask : Prices \cup {NoPrice}] :
             b.bid # NoPrice /\ b.ask # NoPrice => b.bid < b.ask}

TraderInit ==
    /\ strategy \in Strategies
    /\ step \in Steps /\ reach \in Offsets /\ period \in IntervalTicks /\ seed \in Seeds
    /\ tick = 0 /\ book = [bid |-> NoPrice, ask |-> NoPrice]
    /\ midpoint = NoPrice /\ lastDue = 0 /\ placed = << >>

-----------------------------------------------------------------------------
(* BaseTrader *)

Phase == seed % period

\* Mutant of IsDue: one tick more than the interval.
IsDueOneMore(t) == (t + Phase) % (period + 1) = 0

IsDue(t) == (t + Phase) % period = 0

\* A price below one step becomes one step.
Intent(side, price) == [side |-> side, price |-> AtLeast(step, price)]

Midpoint(b) ==
    CASE b.bid # NoPrice /\ b.ask # NoPrice -> (b.bid + b.ask) \div 2
      [] b.bid # NoPrice /\ b.ask = NoPrice -> b.bid
      [] b.bid = NoPrice /\ b.ask # NoPrice -> b.ask
      [] b.bid = NoPrice /\ b.ask = NoPrice -> Reference

AskOr(b, price) == IF b.ask # NoPrice THEN b.ask ELSE price
BidOr(b, price) == IF b.bid # NoPrice THEN b.bid ELSE price

-----------------------------------------------------------------------------
(* Strategies *)

\* An order of either side, up to max_offset_steps from the reference price.
Noise == {<<Intent(side, Reference + k * step)>> : side \in {"BUY", "SELL"}, k \in -reach .. reach}

\* After a rise a BUY at the best ask, after a fall a SELL at the best bid.
Momentum(b) ==
    CASE midpoint = NoPrice \/ Midpoint(b) = midpoint -> << >>
      [] midpoint # NoPrice /\ Midpoint(b) > midpoint -> <<Intent("BUY", AskOr(b, Midpoint(b) + step))>>
      [] midpoint # NoPrice /\ Midpoint(b) < midpoint -> <<Intent("SELL", BidOr(b, Midpoint(b) - step))>>

\* Mutant of MeanReversion: the order joins its own side.
MeanReversionOwnSide(b) ==
    CASE Midpoint(b) <= Reference - step -> <<Intent("BUY", BidOr(b, Midpoint(b) + step))>>
      [] Midpoint(b) >= Reference + step -> <<Intent("SELL", AskOr(b, Midpoint(b) - step))>>
      [] OTHER -> << >>

\* One step or more below the reference a BUY, above it a SELL.
MeanReversion(b) ==
    CASE Midpoint(b) <= Reference - step -> <<Intent("BUY", AskOr(b, Midpoint(b) + step))>>
      [] Midpoint(b) >= Reference + step -> <<Intent("SELL", BidOr(b, Midpoint(b) - step))>>
      [] OTHER -> << >>

\* The midpoint, held within max_offset_steps of the reference price.
Center(b) == AtMost(Reference + reach * step, AtLeast(Reference - reach * step, Midpoint(b)))

\* Mutant of LiquidityProvider: both orders at the center.
LiquidityProviderLocked(b) == <<Intent("BUY", Center(b)), Intent("SELL", Center(b))>>

LiquidityProvider(b) == <<Intent("BUY", Center(b) - step), Intent("SELL", Center(b) + step)>>

\* The best price of the other side, or one step beyond the reference price.
ReactionPrice(b, side) ==
    IF side = "BUY" THEN AskOr(b, AtLeast(step, Reference + step))
                    ELSE BidOr(b, AtLeast(step, Reference - step))

React(b) == {<<[side |-> side, price |-> ReactionPrice(b, side)]>> : side \in {"BUY", "SELL"}}

\* next_intents of a strategy that is due: what it may place.
NextIntents(b) ==
    CASE strategy = "noise" -> Noise
      [] strategy = "momentum" -> {Momentum(b)}
      [] strategy = "mean_reversion" -> {MeanReversion(b)}
      [] strategy = "liquidity_provider" -> {LiquidityProvider(b)}

-----------------------------------------------------------------------------

\* The next tick shows the trader a book.  Only a MomentumTrader remembers it.
Due(b) ==
    /\ tick < MaxTick /\ strategy # "event_reactive" /\ IsDue(tick + 1)
    /\ placed' \in NextIntents(b)
    /\ midpoint' = IF strategy = "momentum" THEN Midpoint(b) ELSE midpoint
    /\ lastDue' = tick + 1
    /\ tick' = tick + 1 /\ book' = b
    /\ UNCHANGED settingVars

NotDue(b) ==
    /\ tick < MaxTick /\ strategy # "event_reactive" /\ ~IsDue(tick + 1)
    /\ placed' = << >>
    /\ tick' = tick + 1 /\ book' = b
    /\ UNCHANGED <<settingVars, midpoint, lastDue>>

\* An EventReactiveTrader places an order when its plan says so.
Reacts(b) ==
    /\ tick < MaxTick /\ strategy = "event_reactive"
    /\ placed' \in React(b)
    /\ tick' = tick + 1 /\ book' = b
    /\ UNCHANGED <<settingVars, midpoint, lastDue>>

TraderNext == \E b \in Books : Due(b) \/ NotDue(b) \/ Reacts(b)

TraderSpec == TraderInit /\ [][TraderNext]_traderVars

-----------------------------------------------------------------------------
(* Properties *)

\* The types of a trader's state.  Every price is at least 1, as the matcher
\* requires of an order, also one computed below a small reference price.
TraderTypeOK ==
    /\ strategy \in Strategies /\ step \in Steps /\ reach \in Offsets
    /\ period \in IntervalTicks /\ seed \in Seeds
    /\ tick \in Nat /\ lastDue \in Nat /\ book \in Books /\ midpoint \in Nat
    /\ placed \in Seq([side : {"BUY", "SELL"}, price : Nat \ {0}])

\* Whatever the seed, also a negative one, a trader is due within period
\* ticks of its start, and then exactly once in every period ticks (is_due).
DueEachInterval ==
    [][strategy # "event_reactive" =>
        IF lastDue = 0 THEN lastDue' = 0 => tick' < period
                       ELSE lastDue' # lastDue <=> tick' = lastDue + period]_traderVars

\* The two orders of the liquidity provider never trade with each other, also
\* where the smallest price replaces one of them.
QuotesApart ==
    strategy = "liquidity_provider" /\ placed # << >> => placed[1].price < placed[2].price

\* However far the market has gone, the liquidity provider and the noise
\* trader quote no more than a step beyond max_offset_steps.
QuotesInBand ==
    strategy \in {"liquidity_provider", "noise"} =>
        \A k \in DOMAIN placed :
            /\ placed[k].price <= AtLeast(step, Reference + (reach + 1) * step)
            /\ placed[k].price >= Reference - (reach + 1) * step

\* Momentum and mean reversion, and reactions to events, take the other side
\* when there is one: the order matches at once, unless the best bid is below
\* the smallest price they name.
TakersMatch ==
    strategy \in {"momentum", "mean_reversion", "event_reactive"} =>
        \A k \in DOMAIN placed :
            IF placed[k].side = "BUY" THEN book.ask # NoPrice => placed[k].price >= book.ask
                                      ELSE book.bid >= step => placed[k].price <= book.bid

\* "Place one passive bid and ask around the current midpoint each due tick."
\* (LiquidityProvider, traders.py:232): as long as the midpoint is in the band,
\* neither order matches at once, unless the smallest price replaces the bid.
Passive ==
    strategy = "liquidity_provider" /\ placed # << >> /\ Center(book) = Midpoint(book) =>
        /\ book.ask # NoPrice => placed[1].price < book.ask \/ placed[1].price = step
        /\ placed[2].price > book.bid

\* What the LiquidityProvider places is sound on every book it is shown, also
\* where clamping and the smallest price meet, and every trader's state is typed.
QuotesSound == TraderTypeOK /\ QuotesApart /\ QuotesInBand

\* Makers rest and takers take: quotes add to the book, and the orders of the
\* other strategies are matched at once when there is someone to match them.
RolesKept == Passive /\ TakersMatch
=============================================================================
