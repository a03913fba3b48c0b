-------------------------- MODULE ReactionPlanner --------------------------
(***************************************************************************)
(* How a market event becomes orders: ReactionPlanner._resolve and         *)
(* _resolve_candidate (participants/events.py).                            *)
(*                                                                         *)
(* One call is modelled: the draws for the event, then a plan for each     *)
(* eligible trader in the order of the user ids.  The seeds come from a    *)
(* hash, so a draw is any value of its range and the traders that react    *)
(* are any of the right number.  Times are in milliseconds.  The side and  *)
(* the quantity of an order, drawn one by one, are left out: the           *)
(* probability of a BUY is kept.                                           *)
(***************************************************************************)
EXTENDS Integers, Sequences, FiniteSets

CONSTANTS
    Users,          \* user ids of the candidates, as numbers
    Profiles,       \* their settings: symbol and seconds (interval_seconds)
    Symbol,         \* symbol of the event
    Starts,         \* values of starts_after_ms
    TickIntervals,  \* values of tick_interval_ms
    Samples         \* bound: the values a draw may have, where its range allows them

BasisPoints == 10000
Presets == {"minor_news", "breaking_news", "market_panic", "mixed_reaction", "rumor"}
Hints == {"BUY", "SELL", "MIXED", "NONE"}

ASSUME PlannerAssumption ==
    /\ Users \subseteq Nat /\ IsFiniteSet(Users)
    /\ \A f \in Profiles : f.seconds \in Nat \ {0}
    /\ Starts \subseteq Nat /\ TickIntervals \subseteq Nat \ {0} /\ Samples \subseteq Nat

\* Lower and upper bound of every draw, and the probabilities, in basis points.
Preset(ratio, delay, count, gap, directional, lag) ==
    [ratio |-> ratio, delay |-> delay, count |-> count, gap |-> gap,
     default |-> 5000, directional |-> directional, lag |-> lag]

PresetDefinitions ==
    [p \in Presets |->
        CASE p = "minor_news" ->
               Preset(<<1000, 3000>>, <<10000, 60000>>, <<1, 2>>, <<2, 5>>, 7000, 5000)
          [] p = "breaking_news" ->
               Preset(<<4000, 8000>>, <<0, 20000>>, <<1, 4>>, <<1, 3>>, 8000, 2000)
          [] p = "market_panic" ->
               Preset(<<7000, 10000>>, <<0, 3000>>, <<2, 6>>, <<1, 2>>, 9000, 1000)
          [] p = "mixed_reaction" ->
               Preset(<<4000, 8000>>, <<0, 20000>>, <<1, 4>>, <<1, 3>>, 5000, 2000)
          [] p = "rumor" ->
               Preset(<<1500, 5000>>, <<10000, 120000>>, <<1, 3>>, <<2, 6>>, 6500, 5000)]

VARIABLES
    interval,   \* _tick_interval_ms
    event,      \* the event: its preset, hint and starts_after_ms
    profile,    \* settings of each candidate
    ratio,      \* activation_ratio_bps
    activated,  \* activated_ids
    probability,\* buy_probability_bps
    todo,       \* eligible candidates without a plan; None before the draws
    reaction    \* the plan resolved last

vars == <<interval, event, profile, ratio, activated, probability, todo, reaction>>
inputVars == <<interval, event, profile>>

-----------------------------------------------------------------------------
(* Arithmetic *)

Larger(m, n) == IF m >= n THEN m ELSE n
Smaller(m, n) == IF m <= n THEN m ELSE n

\* Mutant of CeilDiv: rounds down.
CeilDivDown(value, divisor) == value \div divisor

CeilDiv(value, divisor) == (value + divisor - 1) \div divisor

\* Mutant of TicksForInterval: rounds down.
TicksForIntervalDown(seconds, tickInterval) == Larger(1, (seconds * 1000) \div tickInterval)

TicksForInterval(seconds, tickInterval) ==
    Larger(1, (seconds * 1000 + tickInterval - 1) \div tickInterval)

\* Mutant of ActivationCount: nobody when the share rounds to zero.
ActivationCountRounded(count, share) == (count * share + BasisPoints \div 2) \div BasisPoints

\* The share of the candidates, rounded to the nearest and at least one.
ActivationCount(count, share) ==
    IF count = 0 \/ share = 0 THEN 0
    ELSE Smaller(count, Larger(1, (count * share + BasisPoints \div 2) \div BasisPoints))

\* randint.
Draws(range) == {d \in Samples : range[1] <= d /\ d <= range[2]}

-----------------------------------------------------------------------------
(* Resolving *)

NoReaction == [user |-> -1, activated |-> FALSE, after |-> 0, gap |-> 1, offsets |-> << >>]
NotDrawn == {-1}

Init ==
    /\ interval \in TickIntervals
    /\ event \in [preset : Presets, hint : Hints, starts : Starts]
    /\ profile \in [Users -> Profiles]
    /\ ratio = 0 /\ activated = {} /\ probability = 0
    /\ todo = NotDrawn /\ reaction = NoReaction

Rules == PresetDefinitions[event.preset]
Eligible == {u \in Users : profile[u].symbol = Symbol}

\* What the probability of a BUY may be: a hint decides it, a panic without a
\* hint goes one way or the other.
BuyProbability ==
    CASE event.hint = "BUY" -> {Rules.directional}
      [] event.hint = "SELL" -> {BasisPoints - Rules.directional}
      [] event.hint = "MIXED" -> {BasisPoints \div 2}
      [] event.hint = "NONE" /\ event.preset = "market_panic" ->
           {Rules.directional, BasisPoints - Rules.directional}
      [] event.hint = "NONE" /\ event.preset # "market_panic" -> {Rules.default}

\* The draws for the event.
DrawEvent ==
    /\ todo = NotDrawn
    /\ ratio' \in Draws(Rules.ratio)
    /\ activated' \in {S \in SUBSET Eligible :
                          Cardinality(S) = ActivationCount(Cardinality(Eligible), ratio')}
    /\ probability' \in BuyProbability
    /\ todo' = Eligible
    /\ UNCHANGED <<inputVars, reaction>>

Dormant(u) == [NoReaction EXCEPT !.user = u, !.gap = TicksForInterval(profile[u].seconds, interval)]

OrderCounts == Draws(Rules.count)

FirstOrderTick(after) == CeilDiv(event.starts, interval) + CeilDiv(after, interval)

\* The plan of a trader that reacts: its orders are gap ticks apart.
ReactionOf(u, after, count, gap) ==
    [user |-> u, activated |-> TRUE, after |-> after, gap |-> gap,
     offsets |-> [k \in 1 .. count |-> FirstOrderTick(after) + (k - 1) * gap]]

\* The next candidate's plan.
ResolveCandidate(u) ==
    /\ todo # NotDrawn
    /\ u \in todo /\ \A v \in todo : u <= v
    /\ \/ u \notin activated /\ reaction' = Dormant(u)
       \/ /\ u \in activated
          /\ \E after \in Draws(Rules.delay), count \in OrderCounts, drawn \in Draws(Rules.gap) :
               reaction' = ReactionOf(u, after, count,
                   Larger(TicksForInterval(profile[u].seconds, interval), drawn))
    /\ todo' = todo \ {u}
    /\ UNCHANGED <<inputVars, ratio, activated, probability>>

Next == DrawEvent \/ \E u \in Users : ResolveCandidate(u)

Spec == Init /\ [][Next]_vars

-----------------------------------------------------------------------------
(* Properties *)

\* The types of a call: the draws are within the ranges __post_init__
\* asks for and only eligible traders react.
TypeOK ==
    /\ interval \in TickIntervals
    /\ event \in [preset : Presets, hint : Hints, starts : Starts]
    /\ profile \in [Users -> Profiles]
    /\ ratio \in 0 .. BasisPoints /\ probability \in 0 .. BasisPoints
    /\ activated \subseteq Eligible
    /\ todo = NotDrawn \/ todo \subseteq Eligible
    /\ reaction.user \in Users \cup {-1} /\ reaction.activated \in BOOLEAN
    /\ reaction.after \in Nat /\ reaction.gap \in Nat \ {0}
    /\ reaction.offsets \in Seq(Nat)

\* No plan is refused by ResolvedReactionPlan.__post_init__, which would raise
\* in the middle of a tick: one order at least for a trader that reacts, none
\* for another, and offsets in order.
PlanAccepted ==
    /\ reaction.activated <=> reaction.offsets # << >>
    /\ \A j, k \in DOMAIN reaction.offsets : j < k => reaction.offsets[j] <= reaction.offsets[k]

\* An event with an eligible trader moves someone, never more traders than
\* there are, and as close to the drawn share of them as one trader allows.
ShareActivated ==
    todo # NotDrawn =>
        LET n == Cardinality(Eligible)
            a == Cardinality(activated)
        IN  /\ n > 0 => a \in 1 .. n
            /\ a * BasisPoints <= n * ratio + BasisPoints \div 2 \/ a = 1
            /\ n * ratio < a * BasisPoints + BasisPoints \div 2 \/ n = 0

\* Orders are never due before the event and the reaction delay, both rounded
\* up to ticks, and less than two ticks after.
NeverEarly ==
    reaction.activated =>
        LET earliest == event.starts + reaction.after
        IN  /\ earliest <= reaction.offsets[1] * interval
            /\ reaction.offsets[1] * interval < earliest + 2 * interval

\* Two orders of a trader are as far apart as its interval_seconds and the
\* preset ask for.
Spaced ==
    reaction.activated =>
        \A k \in 2 .. Len(reaction.offsets) :
            LET ticks == reaction.offsets[k] - reaction.offsets[k - 1]
            IN  /\ profile[reaction.user].seconds * 1000 <= ticks * interval
                /\ Rules.gap[1] <= ticks

\* A hint turns the probabilities its way and a mixed event favours no side.
FollowsHint ==
    todo # NotDrawn =>
        /\ event.hint = "BUY" => probability >= BasisPoints \div 2
        /\ event.hint = "SELL" => probability <= BasisPoints \div 2
        /\ event.hint = "MIXED" => probability = BasisPoints \div 2
=============================================================================
