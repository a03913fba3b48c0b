------------------------ MODULE ReactionPlannerProofs ------------------------
(***************************************************************************)
(* Proofs about the reaction planner, for any candidates, tick length,     *)
(* start of the event and draws; and about the orders and due ticks of the *)
(* other strategies, for any settings and books.                           *)
(***************************************************************************)
EXTENDS ReactionPlanner, Traders, FiniteSetTheorems, SequenceTheorems, TLAPS

-----------------------------------------------------------------------------
(* Arithmetic *)

\* The quotient and the remainder of a division.
LEMMA Division ==
    ASSUME NEW a \in Nat, NEW d \in Nat \ {0}
    PROVE  /\ a \div d \in Nat
           /\ d * (a \div d) <= a
           /\ a < d * (a \div d) + d
OBVIOUS

\* _ceil_div rounds up, by less than one divisor.
LEMMA CeilDivExact ==
    ASSUME NEW v \in Nat, NEW d \in Nat \ {0}
    PROVE  /\ CeilDiv(v, d) \in Nat
           /\ v <= CeilDiv(v, d) * d
           /\ CeilDiv(v, d) * d < v + d
<1> DEFINE q == CeilDiv(v, d)
<1>1. v + d - 1 \in Nat
  OBVIOUS
<1>2. q \in Nat /\ d * q <= v + d - 1 /\ v + d - 1 < d * q + d
  BY <1>1, Division DEF CeilDiv
<1>3. d * q = q * d /\ d * q \in Nat
  BY <1>2
<1> QED BY <1>2, <1>3

\* ticks_for_interval covers the interval and is never zero.
LEMMA TicksCover ==
    ASSUME NEW s \in Nat, NEW d \in Nat \ {0}
    PROVE  /\ TicksForInterval(s, d) \in Nat \ {0}
           /\ s * 1000 <= TicksForInterval(s, d) * d
<1> DEFINE q == CeilDiv(s * 1000, d)
<1>1. s * 1000 \in Nat
  OBVIOUS
<1>2. q \in Nat /\ s * 1000 <= q * d
  BY <1>1, CeilDivExact
<1>3. TicksForInterval(s, d) = IF 1 >= q THEN 1 ELSE q
  BY DEF TicksForInterval, CeilDiv, Larger
<1> HIDE DEF q
<1>4. CASE 1 >= q
  <2>1. q = 0 \/ q = 1
    BY <1>2, <1>4
  <2> QED BY <1>1, <1>2, <1>3, <1>4, <2>1
<1>5. CASE ~(1 >= q)
  BY <1>2, <1>3, <1>5
<1> QED BY <1>4, <1>5

-----------------------------------------------------------------------------
(* The presets *)

\* The bounds of every preset are in order, every reaction has an order and
\* orders are a tick apart at least.
LEMMA PresetBounds ==
    ASSUME NEW p \in Presets
    PROVE  /\ PresetDefinitions[p].ratio[1] \in 1 .. BasisPoints
           /\ PresetDefinitions[p].ratio[2] \in 0 .. BasisPoints
           /\ PresetDefinitions[p].delay[1] \in Nat
           /\ PresetDefinitions[p].count[1] \in Nat \ {0}
           /\ PresetDefinitions[p].gap[1] \in Nat \ {0}
           /\ PresetDefinitions[p].directional \in 5000 .. BasisPoints
           /\ PresetDefinitions[p].default = 5000
<1>1. CASE p = "minor_news"
  <2>1. PresetDefinitions[p] = Preset(<<1000, 3000>>, <<10000, 60000>>, <<1, 2>>, <<2, 5>>, 7000, 5000)
    BY <1>1 DEF PresetDefinitions, Presets
  <2> QED BY <2>1 DEF Preset, BasisPoints
<1>2. CASE p = "breaking_news"
  <2>1. PresetDefinitions[p] = Preset(<<4000, 8000>>, <<0, 20000>>, <<1, 4>>, <<1, 3>>, 8000, 2000)
    BY <1>2 DEF PresetDefinitions, Presets
  <2> QED BY <2>1 DEF Preset, BasisPoints
<1>3. CASE p = "market_panic"
  <2>1. PresetDefinitions[p] = Preset(<<7000, 10000>>, <<0, 3000>>, <<2, 6>>, <<1, 2>>, 9000, 1000)
    BY <1>3 DEF PresetDefinitions, Presets
  <2> QED BY <2>1 DEF Preset, BasisPoints
<1>4. CASE p = "mixed_reaction"
  <2>1. PresetDefinitions[p] = Preset(<<4000, 8000>>, <<0, 20000>>, <<1, 4>>, <<1, 3>>, 5000, 2000)
    BY <1>4 DEF PresetDefinitions, Presets
  <2> QED BY <2>1 DEF Preset, BasisPoints
<1>5. CASE p = "rumor"
  <2>1. PresetDefinitions[p] = Preset(<<1500, 5000>>, <<10000, 120000>>, <<1, 3>>, <<2, 6>>, 6500, 5000)
    BY <1>5 DEF PresetDefinitions, Presets
  <2> QED BY <2>1 DEF Preset, BasisPoints
<1> QED BY <1>1, <1>2, <1>3, <1>4, <1>5 DEF Presets

-----------------------------------------------------------------------------
(* The share of the traders that react *)

\* The rounding of activation_count: one at least, all at most, and within half
\* a trader of the share where one at least does not decide.
LEMMA ShareRounded ==
    ASSUME NEW n \in Nat, NEW share \in 1 .. BasisPoints
    PROVE  LET a == ActivationCount(n, share)
           IN  /\ a \in Nat
               /\ n > 0 => a \in 1 .. n
               /\ a * BasisPoints <= n * share + BasisPoints \div 2 \/ a = 1
               /\ n * share < a * BasisPoints + BasisPoints \div 2 \/ n = 0
<1> DEFINE a == ActivationCount(n, share)
           p == n * share
           q == (p + 5000) \div 10000
<1>1. BasisPoints = 10000 /\ BasisPoints \div 2 = 5000
  BY DEF BasisPoints
<1>2. share \in Nat \ {0} /\ share <= 10000
  BY <1>1
<1>3. p \in Nat /\ p <= n * 10000
  BY <1>2
<1>4. q \in Nat /\ 10000 * q <= p + 5000 /\ p + 5000 < 10000 * q + 10000
  <2>1. p + 5000 \in Nat /\ 10000 \in Nat \ {0}
    BY <1>3
  <2> HIDE DEF p
  <2> QED BY <2>1, Division
<1>5. CASE n = 0
  BY <1>1, <1>3, <1>5 DEF ActivationCount
<1>6. CASE n # 0
  <2>1. a = Smaller(n, Larger(1, q))
    BY <1>1, <1>2, <1>6 DEF ActivationCount
  <2> HIDE DEF a, p, q
  <2>2. q <= n
    BY <1>3, <1>4
  <2>3. a = IF 1 >= q THEN 1 ELSE q
    BY <1>4, <1>6, <2>1, <2>2 DEF Smaller, Larger
  <2>4. CASE 1 >= q
    <3>1. a = 1 /\ a * 10000 = 10000
      BY <2>3, <2>4
    <3> QED BY <1>1, <1>3, <1>4, <1>6, <2>4, <3>1 DEF a, p
  <2>5. CASE ~(1 >= q)
    <3>1. a = q
      BY <2>3, <2>5
    <3> QED BY <1>1, <1>3, <1>4, <2>2, <2>5, <3>1 DEF a, p
  <2> QED BY <2>4, <2>5
<1> QED BY <1>5, <1>6

-----------------------------------------------------------------------------
(* The inductive invariant *)

Inputs ==
    /\ interval \in TickIntervals
    /\ event \in [preset : Presets, hint : Hints, starts : Starts]
    /\ profile \in [Users -> Profiles]

\* What the draws for the event left behind.
Drawn ==
    /\ ratio \in 1 .. BasisPoints
    /\ activated \subseteq Eligible
    /\ Cardinality(activated) = ActivationCount(Cardinality(Eligible), ratio)
    /\ probability \in BuyProbability
    /\ todo \subseteq Eligible

NotYet == todo = NotDrawn /\ ratio = 0 /\ activated = {} /\ probability = 0

\* The gap of a reaction whose draw for it was d.
Gap(u, d) == Larger(TicksForInterval(profile[u].seconds, interval), d)

Silent ==
    /\ reaction.activated = FALSE /\ reaction.user \in Users \cup {-1}
    /\ reaction.after \in Nat /\ reaction.gap \in Nat \ {0} /\ reaction.offsets = << >>

\* n orders, the first one in tick "first" and the others g ticks apart.
Timetable(n, first, g) == [k \in 1 .. n |-> first + (k - 1) * g]

Reacting ==
    /\ reaction.activated = TRUE /\ reaction.user \in Users /\ reaction.after \in Nat
    /\ reaction.gap \in Nat \ {0} /\ Rules.gap[1] <= reaction.gap
    /\ profile[reaction.user].seconds * 1000 <= reaction.gap * interval
    /\ \E n \in Nat \ {0}, first \in Nat :
         /\ event.starts + reaction.after <= first * interval
         /\ first * interval < event.starts + reaction.after + 2 * interval
         /\ reaction.offsets = Timetable(n, first, reaction.gap)

Inv == Inputs /\ (NotYet \/ Drawn) /\ (Silent \/ Reacting)

-----------------------------------------------------------------------------
(* What a plan says *)

\* The inputs of the arithmetic are natural numbers.
LEMMA InputNumbers ==
    ASSUME Inputs
    PROVE  /\ interval \in Nat \ {0} /\ event.starts \in Nat
           /\ \A u \in Users : profile[u].seconds \in Nat \ {0}
           /\ event.preset \in Presets /\ event.hint \in Hints
BY PlannerAssumption DEF Inputs

\* A trader that does not react has a gap and no order.
LEMMA DormantPlan ==
    ASSUME Inputs, NEW u \in Users
    PROVE  LET p == Dormant(u)
           IN  /\ p.user = u /\ p.activated = FALSE
               /\ p.after = 0 /\ p.gap \in Nat \ {0} /\ p.offsets = << >>
BY InputNumbers, TicksCover DEF Dormant, NoReaction

\* The first order covers the start and the delay, by less than two ticks.
LEMMA FirstOrder ==
    ASSUME Inputs, NEW after \in Nat
    PROVE  LET first == FirstOrderTick(after)
           IN  /\ first \in Nat
               /\ event.starts + after <= first * interval
               /\ first * interval < event.starts + after + 2 * interval
<1> DEFINE s == event.starts
           a == CeilDiv(s, interval)
           b == CeilDiv(after, interval)
<1>1. interval \in Nat \ {0} /\ s \in Nat
  BY InputNumbers
<1>2. a \in Nat /\ s <= a * interval /\ a * interval < s + interval
  BY <1>1, CeilDivExact
<1>3. b \in Nat /\ after <= b * interval /\ b * interval < after + interval
  BY <1>1, CeilDivExact
<1>4. FirstOrderTick(after) = a + b
  BY DEF FirstOrderTick
<1> HIDE DEF a, b, s
<1>5. (a + b) * interval = a * interval + b * interval /\ a * interval \in Nat /\ b * interval \in Nat
  BY <1>1, <1>2, <1>3
<1>6. /\ a + b \in Nat /\ s + after <= (a + b) * interval
      /\ (a + b) * interval < s + after + 2 * interval
  BY <1>1, <1>2, <1>3, <1>5
<1> QED BY <1>4, <1>6 DEF s

\* What the draws for a trader that reacts may be.
LEMMA DrawnNumbers ==
    ASSUME Inputs
    PROVE  /\ \A d \in Draws(Rules.delay) : d \in Nat
           /\ \A n \in OrderCounts : n \in Nat \ {0}
           /\ \A d \in Draws(Rules.gap) : d \in Nat /\ Rules.gap[1] <= d
           /\ Rules.gap[1] \in Nat
<1>1. Rules.count[1] \in Nat \ {0} /\ Rules.gap[1] \in Nat \ {0}
  BY InputNumbers, PresetBounds DEF Rules
<1>2. \A d \in Draws(Rules.delay) : d \in Nat
  BY PlannerAssumption DEF Draws
<1>3. \A n \in OrderCounts : n \in Nat /\ Rules.count[1] <= n
  BY PlannerAssumption DEF Draws, OrderCounts
<1>4. \A d \in Draws(Rules.gap) : d \in Nat /\ Rules.gap[1] <= d
  BY PlannerAssumption DEF Draws
<1> QED BY <1>1, <1>2, <1>3, <1>4

\* The orders of a trader that reacts are as far apart as its interval and the
\* preset ask for.
LEMMA GapCovers ==
    ASSUME Inputs, NEW u \in Users, NEW drawn \in Nat, Rules.gap[1] \in Nat, Rules.gap[1] <= drawn
    PROVE  /\ Gap(u, drawn) \in Nat \ {0} /\ Rules.gap[1] <= Gap(u, drawn)
           /\ profile[u].seconds * 1000 <= Gap(u, drawn) * interval
<1> DEFINE ticks == TicksForInterval(profile[u].seconds, interval)
           seconds == profile[u].seconds
           g == Gap(u, drawn)
<1>1. ticks \in Nat \ {0} /\ seconds * 1000 <= ticks * interval
  BY ZenonT(30), InputNumbers, TicksCover
<1>2. g = IF ticks >= drawn THEN ticks ELSE drawn
  BY DEF Gap, Larger
<1>3. interval \in Nat \ {0} /\ seconds \in Nat
  BY InputNumbers
<1>4. g \in Nat \ {0} /\ ticks <= g /\ drawn <= g
  BY <1>1, <1>2
<1>5. ticks * interval <= g * interval
  <2> HIDE DEF ticks, g
  <2> QED BY <1>1, <1>3, <1>4
<1> HIDE DEF ticks, g, seconds
<1>6. seconds * 1000 <= g * interval
  BY <1>1, <1>3, <1>4, <1>5
<1>7. Rules.gap[1] <= g
  BY <1>2, <1>4
<1> QED BY <1>4, <1>6, <1>7 DEF g, seconds

-----------------------------------------------------------------------------
(* The steps *)

\* A call begins with nothing drawn and no plan.
LEMMA InitInv == Init => Inv
BY DEF Init, Inv, Inputs, NotYet, Silent, NoReaction

\* A step that leaves the plan and the inputs alone keeps what is known of the plan.
LEMMA SameReaction ==
    ASSUME UNCHANGED inputVars, Rules' = Rules, reaction' = reaction, Silent \/ Reacting
    PROVE  (Silent \/ Reacting)'
<1>1. event' = event /\ profile' = profile /\ interval' = interval
  BY DEF inputVars
<1>2. CASE Silent
  BY <1>2 DEF Silent
<1>3. CASE Reacting
  <2>1. PICK n \in Nat \ {0}, first \in Nat :
          /\ event.starts + reaction.after <= first * interval
          /\ first * interval < event.starts + reaction.after + 2 * interval
          /\ reaction.offsets = Timetable(n, first, reaction.gap)
    BY <1>3 DEF Reacting
  <2> QED BY <1>1, <1>3, <2>1 DEF Reacting
<1> QED BY <1>2, <1>3

\* Both steps of a call keep the invariant.
LEMMA NextInv == Inv /\ [Next]_vars => Inv'
<1> SUFFICES ASSUME Inv, [Next]_vars PROVE Inv'
  OBVIOUS
<1>1. UNCHANGED inputVars
  BY DEF Next, vars, inputVars, DrawEvent, ResolveCandidate
<1>2. Inputs' /\ Rules' = Rules /\ Eligible' = Eligible
  BY <1>1 DEF Inv, inputVars, Inputs, Rules, Eligible
<1>3. BuyProbability' = BuyProbability
  BY <1>1, <1>2 DEF inputVars, BuyProbability
<1>4. CASE DrawEvent
  <2>1. ratio' \in 1 .. BasisPoints
    <3> DEFINE low == Rules.ratio[1]
               high == Rules.ratio[2]
    <3>1. ratio' \in Nat /\ low <= ratio' /\ ratio' <= high
      BY <1>4, PlannerAssumption DEF DrawEvent, Draws
    <3>2. low \in 1 .. BasisPoints /\ high \in 0 .. BasisPoints
      BY PresetBounds DEF Inv, Inputs, Rules
    <3> HIDE DEF low, high
    <3> QED BY <3>1, <3>2 DEF BasisPoints
  <2>2. Drawn'
    BY <1>2, <1>3, <1>4, <2>1 DEF DrawEvent, Drawn
  <2>3. (Silent \/ Reacting)'
    <3>1. reaction' = reaction
      BY <1>4 DEF DrawEvent
    <3> QED BY <1>1, <1>2, <3>1, SameReaction DEF Inv
  <2> QED BY <1>2, <2>2, <2>3 DEF Inv
<1>5. CASE \E u \in Users : ResolveCandidate(u)
  <2>1. PICK u \in Users : ResolveCandidate(u)
    BY <1>5
  <2>2. Drawn
    BY <2>1 DEF ResolveCandidate, Inv, NotYet
  <2>3. Drawn'
    BY <1>2, <1>3, <2>1, <2>2 DEF ResolveCandidate, Drawn
  <2>4. (Silent \/ Reacting)'
    <3>3. Inputs
      BY DEF Inv
    <3>1. CASE reaction' = Dormant(u)
      <4>1. /\ Dormant(u).user = u /\ Dormant(u).activated = FALSE
            /\ Dormant(u).after = 0 /\ Dormant(u).gap \in Nat \ {0} /\ Dormant(u).offsets = << >>
        BY <3>3, DormantPlan
      <4> QED BY <3>1, <4>1 DEF Silent
    <3>2. CASE \E after \in Draws(Rules.delay), count \in OrderCounts, drawn \in Draws(Rules.gap) :
                 reaction' = ReactionOf(u, after, count, Gap(u, drawn))
      <4>1. PICK after \in Draws(Rules.delay), count \in OrderCounts, drawn \in Draws(Rules.gap) :
                   reaction' = ReactionOf(u, after, count, Gap(u, drawn))
        BY <3>2
      <4> DEFINE first == FirstOrderTick(after)
                 g == Gap(u, drawn)
      <4>2. after \in Nat /\ count \in Nat \ {0} /\ drawn \in Nat /\ Rules.gap[1] <= drawn /\ Rules.gap[1] \in Nat
        BY <3>3, <4>1, DrawnNumbers
      <4>3. g \in Nat \ {0} /\ Rules.gap[1] <= g /\ profile[u].seconds * 1000 <= g * interval
        BY <3>3, <4>2, GapCovers
      <4>4. /\ reaction'.user = u /\ reaction'.activated = TRUE
            /\ reaction'.after = after /\ reaction'.gap = g
            /\ reaction'.offsets = Timetable(count, first, g)
        BY <4>1 DEF ReactionOf, Timetable
      <4>5. /\ first \in Nat /\ event.starts + after <= first * interval
            /\ first * interval < event.starts + after + 2 * interval
        BY <3>3, <4>2, FirstOrder
      <4> HIDE DEF first, g
      <4> QED BY <1>1, <1>2, <4>2, <4>3, <4>4, <4>5 DEF inputVars, Reacting
    <3> QED BY <2>1, <3>1, <3>2 DEF ResolveCandidate, Gap
  <2> QED BY <1>2, <2>3, <2>4 DEF Inv
<1>6. CASE UNCHANGED vars
  <2>1. NotYet' \/ Drawn'
    BY <1>2, <1>3, <1>6 DEF Inv, vars, NotYet, Drawn
  <2>2. (Silent \/ Reacting)'
    <3>1. reaction' = reaction
      BY <1>6 DEF vars
    <3> QED BY <1>1, <1>2, <3>1, SameReaction DEF Inv
  <2> QED BY <1>2, <2>1, <2>2 DEF Inv
<1> QED BY <1>4, <1>5, <1>6 DEF Next

\* The inductive invariant holds throughout a call.
LEMMA Invariant == Spec => []Inv
BY InitInv, NextInv, PTL DEF Spec

-----------------------------------------------------------------------------
(* The theorems *)

\* A probability of a BUY is one, and a hint turns it its way.
LEMMA Probabilities ==
    ASSUME Inputs, NEW b \in BuyProbability
    PROVE  /\ b \in 0 .. BasisPoints
           /\ event.hint = "BUY" => b >= 5000
           /\ event.hint = "SELL" => b <= 5000
           /\ event.hint = "MIXED" => b = 5000
<1> DEFINE d == Rules.directional
<1>1. d \in Nat /\ 5000 <= d /\ d <= 10000 /\ Rules.default = 5000
  <2>1. d \in 5000 .. BasisPoints /\ Rules.default = 5000
    BY InputNumbers, PresetBounds DEF Rules
  <2> HIDE DEF d
  <2> QED BY <2>1 DEF BasisPoints
<1>2. BasisPoints = 10000 /\ BasisPoints \div 2 = 5000
  BY DEF BasisPoints
<1>3. event.hint \in {"BUY", "SELL", "MIXED", "NONE"}
  BY InputNumbers DEF Hints
<1>4. CASE event.hint = "BUY"
  <2>1. b = d
    BY <1>4 DEF BuyProbability
  <2> HIDE DEF d
  <2>2. b \in 0 .. 10000
    BY <1>1, <2>1
  <2> QED BY <1>1, <1>2, <2>2, <1>4, <2>1
<1>5. CASE event.hint = "SELL"
  <2>1. b = 10000 - d
    BY <1>2, <1>5 DEF BuyProbability
  <2> HIDE DEF d
  <2>2. b \in 0 .. 10000
    BY <1>1, <2>1
  <2> QED BY <1>1, <1>2, <2>2, <1>5, <2>1
<1>6. CASE event.hint = "MIXED"
  <2>1. b = 5000
    BY <1>2, <1>6 DEF BuyProbability
  <2> QED BY <1>2, <1>6, <2>1
<1>7. CASE event.hint = "NONE"
  <2>1. b = d \/ b = 10000 - d \/ b = 5000
    BY <1>1, <1>2, <1>7 DEF BuyProbability
  <2> HIDE DEF d
  <2>2. b \in 0 .. 10000
    <3>1. CASE b = d
      BY <1>1, <3>1
    <3>2. CASE b = 10000 - d
      BY <1>1, <3>2
    <3>3. CASE b = 5000
      BY <3>3
    <3> QED BY <2>1, <3>1, <3>2, <3>3
  <2> QED BY <1>1, <1>2, <2>2, <1>7, <2>1
<1> QED BY <1>3, <1>4, <1>5, <1>6, <1>7

\* A timetable is a sequence of ticks in order, its first order in tick "first".
LEMMA Timetables ==
    ASSUME NEW n \in Nat \ {0}, NEW first \in Nat, NEW g \in Nat \ {0},
           NEW table, table = Timetable(n, first, g)
    PROVE  /\ table \in Seq(Nat) /\ table # << >> /\ Len(table) = n /\ DOMAIN table = 1 .. n
           /\ table[1] = first
           /\ \A j, k \in 1 .. n : j < k => table[j] <= table[k]
<1>1. \A k \in 1 .. n : first + (k - 1) * g \in Nat
  <2> SUFFICES ASSUME NEW k \in 1 .. n PROVE first + (k - 1) * g \in Nat
    OBVIOUS
  <2>1. k - 1 \in Nat
    OBVIOUS
  <2>2. (k - 1) * g \in Nat
    BY <2>1
  <2> QED BY <2>2
<1>2. table \in [1 .. n -> Nat] /\ DOMAIN table = 1 .. n
  BY <1>1 DEF Timetable
<1>3. table \in Seq(Nat) /\ Len(table) = n
  BY <1>2, LenProperties, SeqDef
<1>4. table # << >> /\ table[1] = first
  BY <1>3 DEF Timetable
<1>5. \A j, k \in 1 .. n : j < k => table[j] <= table[k]
  <2> SUFFICES ASSUME NEW j \in 1 .. n, NEW k \in 1 .. n, j < k
               PROVE  first + (j - 1) * g <= first + (k - 1) * g
    BY DEF Timetable
  <2>1. (k - 1) * g = (j - 1) * g + (k - j) * g
    OBVIOUS
  <2>2. (k - j) * g \in Nat /\ (j - 1) * g \in Nat /\ (k - 1) * g \in Nat
    <3>1. k - j \in Nat /\ j - 1 \in Nat /\ k - 1 \in Nat
      OBVIOUS
    <3> QED BY <3>1
  <2> QED BY <2>1, <2>2
<1> QED BY <1>2, <1>3, <1>4, <1>5

\* Two orders of a timetable that follow each other are g ticks apart.
LEMMA TimetableGaps ==
    ASSUME NEW n \in Nat \ {0}, NEW first \in Nat, NEW g \in Nat \ {0},
           NEW table, table = Timetable(n, first, g), NEW k \in 2 .. n
    PROVE  table[k] - table[k - 1] = g
<1>1. k \in 1 .. n /\ k - 1 \in 1 .. n
  OBVIOUS
<1>2. table[k] = first + (k - 1) * g /\ table[k - 1] = first + ((k - 1) - 1) * g
  BY <1>1 DEF Timetable
<1>3. (k - 1) * g = ((k - 1) - 1) * g + g
  OBVIOUS
<1>4. (k - 1) * g \in Int /\ ((k - 1) - 1) * g \in Int
  OBVIOUS
<1> QED BY <1>2, <1>3, <1>4

\* What the timetable of a reacting trader looks like.
LEMMA ReactingTable ==
    ASSUME Reacting
    PROVE  \E n \in Nat \ {0}, first \in Nat :
             /\ event.starts + reaction.after <= first * interval
             /\ first * interval < event.starts + reaction.after + 2 * interval
             /\ reaction.offsets \in Seq(Nat) /\ reaction.offsets # << >>
             /\ Len(reaction.offsets) = n /\ DOMAIN reaction.offsets = 1 .. n
             /\ reaction.offsets[1] = first
             /\ \A j, k \in 1 .. n : j < k => reaction.offsets[j] <= reaction.offsets[k]
             /\ \A k \in 2 .. n : reaction.offsets[k] - reaction.offsets[k - 1] = reaction.gap
<1>1. PICK n \in Nat \ {0}, first \in Nat :
         /\ event.starts + reaction.after <= first * interval
         /\ first * interval < event.starts + reaction.after + 2 * interval
         /\ reaction.offsets = Timetable(n, first, reaction.gap)
  BY DEF Reacting
<1> DEFINE g == reaction.gap
           table == reaction.offsets
<1>2. g \in Nat \ {0} /\ table = Timetable(n, first, g)
  BY <1>1 DEF Reacting
<1> HIDE DEF g, table
<1>3. table \in Seq(Nat) /\ table # << >> /\ Len(table) = n /\ DOMAIN table = 1 .. n
  BY <1>2, Timetables
<1>4. table[1] = first
  BY <1>2, Timetables
<1>5. \A j, k \in 1 .. n : j < k => table[j] <= table[k]
  BY <1>2, Timetables
<1>6. \A k \in 2 .. n : table[k] - table[k - 1] = g
  <2> SUFFICES ASSUME NEW k \in 2 .. n PROVE table[k] - table[k - 1] = g
    OBVIOUS
  <2> QED BY <1>2, TimetableGaps
<1> QED BY <1>1, <1>3, <1>4, <1>5, <1>6 DEF g, table

\* The planner keeps its types: share and probability are basis points, and the
\* traders drawn to react are eligible ones.
THEOREM TypeCorrect == Spec => []TypeOK
<1>1. Inv => TypeOK
  <2> SUFFICES ASSUME Inv PROVE TypeOK
    OBVIOUS
  <2>1. Inputs
    BY DEF Inv
  <2>2. /\ ratio \in 0 .. BasisPoints /\ probability \in 0 .. BasisPoints
        /\ activated \subseteq Eligible /\ (todo = NotDrawn \/ todo \subseteq Eligible)
    <3>1. CASE NotYet
      BY <3>1 DEF NotYet, BasisPoints
    <3>2. CASE Drawn
      BY <2>1, <3>2, Probabilities DEF Drawn, BasisPoints
    <3> QED BY <3>1, <3>2 DEF Inv
  <2>3. /\ reaction.user \in Users \cup {-1} /\ reaction.activated \in BOOLEAN
        /\ reaction.after \in Nat /\ reaction.gap \in Nat \ {0}
        /\ reaction.offsets \in Seq(Nat)
    <3>1. CASE Silent
      <4>1. << >> \in Seq(Nat)
        OBVIOUS
      <4>2. reaction.offsets \in Seq(Nat)
        BY <3>1, <4>1 DEF Silent
      <4> QED BY <3>1, <4>2 DEF Silent
    <3>2. CASE Reacting
      <4>1. reaction.offsets \in Seq(Nat)
        BY <3>2, ReactingTable
      <4> QED BY <3>2, <4>1 DEF Reacting
    <3> QED BY <3>1, <3>2 DEF Inv
  <2> QED BY <2>1, <2>2, <2>3 DEF TypeOK, Inputs
<1> QED BY <1>1, Invariant, PTL

\* A plan has orders if and only if its trader reacts, and their offsets never decrease:
\* what ResolvedReactionPlan demands of the tables the planner computes.
THEOREM EveryPlanAccepted == Spec => []PlanAccepted
<1>1. Inv => PlanAccepted
  <2> SUFFICES ASSUME Inv PROVE PlanAccepted
    OBVIOUS
  <2>1. CASE Silent
    BY <2>1 DEF Silent, PlanAccepted
  <2>2. CASE Reacting
    <3>1. reaction.activated = TRUE
      BY <2>2 DEF Reacting
    <3>2. PICK n \in Nat \ {0} :
            /\ reaction.offsets # << >> /\ DOMAIN reaction.offsets = 1 .. n
            /\ \A j, k \in 1 .. n : j < k => reaction.offsets[j] <= reaction.offsets[k]
      BY <2>2, ReactingTable
    <3> QED BY <3>1, <3>2 DEF PlanAccepted
  <2> QED BY <2>1, <2>2 DEF Inv
<1> QED BY <1>1, Invariant, PTL

\* For any number of eligible traders and any share drawn, someone reacts, and as
\* many traders as the share says to within half a trader.
THEOREM SharesActivated == Spec => []ShareActivated
<1>1. Inv => ShareActivated
  <2> SUFFICES ASSUME Inv, todo # NotDrawn
               PROVE  LET n == Cardinality(Eligible)
                          a == Cardinality(activated)
                      IN  /\ n > 0 => a \in 1 .. n
                          /\ a * BasisPoints <= n * ratio + BasisPoints \div 2 \/ a = 1
                          /\ n * ratio < a * BasisPoints + BasisPoints \div 2 \/ n = 0
    BY DEF ShareActivated
  <2>1. Drawn
    BY DEF Inv, NotYet
  <2>2. Cardinality(Eligible) \in Nat
    <3>1. IsFiniteSet(Eligible)
      BY PlannerAssumption, FS_Subset DEF Eligible
    <3> QED BY <3>1, FS_CardinalityType
  <2> QED BY <2>1, <2>2, ShareRounded DEF Drawn
<1> QED BY <1>1, Invariant, PTL

\* No order is due before its event and its delay have passed, or two ticks later.
THEOREM OrdersNeverEarly == Spec => []NeverEarly
<1>1. Inv => NeverEarly
  <2> SUFFICES ASSUME Inv, reaction.activated
               PROVE  LET earliest == event.starts + reaction.after
                      IN  /\ earliest <= reaction.offsets[1] * interval
                          /\ reaction.offsets[1] * interval < earliest + 2 * interval
    BY DEF NeverEarly
  <2>1. Reacting
    BY DEF Inv, Silent
  <2>2. PICK first \in Nat :
          /\ event.starts + reaction.after <= first * interval
          /\ first * interval < event.starts + reaction.after + 2 * interval
          /\ reaction.offsets[1] = first
    BY <2>1, ReactingTable
  <2> QED BY <2>2
<1> QED BY <1>1, Invariant, PTL

\* Two orders of a trader are never closer than its interval and the preset ask for.
THEOREM OrdersSpaced == Spec => []Spaced
<1>1. Inv => Spaced
  <2> SUFFICES ASSUME Inv, reaction.activated, NEW k \in 2 .. Len(reaction.offsets)
               PROVE  LET ticks == reaction.offsets[k] - reaction.offsets[k - 1]
                      IN  /\ profile[reaction.user].seconds * 1000 <= ticks * interval
                          /\ Rules.gap[1] <= ticks
    BY DEF Spaced
  <2>1. Reacting
    BY DEF Inv, Silent
  <2>2. PICK n \in Nat \ {0} :
          /\ Len(reaction.offsets) = n
          /\ \A j \in 2 .. n : reaction.offsets[j] - reaction.offsets[j - 1] = reaction.gap
    BY <2>1, ReactingTable
  <2>3. reaction.offsets[k] - reaction.offsets[k - 1] = reaction.gap
    BY <2>2
  <2> QED BY <2>1, <2>3 DEF Reacting
<1> QED BY <1>1, Invariant, PTL

\* With the hint BUY the probability of a BUY is at least one half, with SELL at most, with
\* MIXED exactly, under every preset.
THEOREM HintFollowed == Spec => []FollowsHint
<1>1. Inv => FollowsHint
  <2> SUFFICES ASSUME Inv, todo # NotDrawn PROVE FollowsHint
    BY DEF FollowsHint
  <2>1. Drawn /\ Inputs
    BY DEF Inv, NotYet
  <2>2. /\ event.hint = "BUY" => probability >= 5000
        /\ event.hint = "SELL" => probability <= 5000
        /\ event.hint = "MIXED" => probability = 5000
    BY <2>1, Probabilities DEF Drawn
  <2>3. BasisPoints \div 2 = 5000
    BY DEF BasisPoints
  <2> QED BY <2>2, <2>3 DEF FollowsHint
<1> QED BY <1>1, Invariant, PTL

-----------------------------------------------------------------------------
(***************************************************************************)
(* The strategies of the other participants (Traders).                     *)
(***************************************************************************)

\* The ticks of a trader that is not woken by events: none is due before the first one
\* in which it was due, and the last one is less than an interval ago.
OnSchedule ==
    strategy # "event_reactive" =>
        /\ lastDue = 0 => \A t \in 1 .. tick : ~IsDue(t)
        /\ lastDue # 0 => IsDue(lastDue) /\ lastDue <= tick /\ tick < lastDue + period

TradingInv ==
    /\ QuotesSound /\ RolesKept
    /\ OnSchedule

\* What division leaves, for numbers of either sign.
LEMMA RemainderUnique ==
    ASSUME NEW n \in Nat \ {0}, NEW q \in Int, NEW r \in 0 .. n - 1, NEW x \in Int, x = n * q + r
    PROVE  x % n = r
OBVIOUS

LEMMA Remainder ==
    ASSUME NEW n \in Nat \ {0}, NEW x \in Int
    PROVE  x % n = x - n * (x \div n)
OBVIOUS

\* After a multiple of n the next one is n further.
LEMMA NextMultiple ==
    ASSUME NEW n \in Nat \ {0}, NEW a \in Int, a % n = 0, NEW k \in 1 .. n
    PROVE  (a + k) % n = 0 <=> k = n
<1> DEFINE d == a \div n
<1>1. d \in Int /\ a = n * d
  <2>1. a \div n \in Int /\ a % n = a - n * (a \div n)
    BY Remainder
  <2>2. n * (a \div n) \in Int
    BY <2>1
  <2> QED BY <2>1, <2>2
<1> HIDE DEF d
<1>2. n * d \in Int
  BY <1>1
<1>3. CASE k = n
  <2>1. n * (d + 1) = n * d + n
    BY <1>1
  <2>2. a + k = n * (d + 1) + 0 /\ d + 1 \in Int /\ 0 \in 0 .. n - 1
    BY <1>1, <1>2, <1>3, <2>1
  <2>3. (a + k) % n = 0
    BY <2>2, RemainderUnique
  <2> QED BY <1>3, <2>3
<1>4. CASE k # n
  <2>1. k \in 0 .. n - 1 /\ k # 0 /\ a + k = n * d + k
    BY <1>1, <1>4
  <2>2. (a + k) % n = k
    BY <1>1, <2>1, RemainderUnique
  <2> QED BY <1>4, <2>1, <2>2
<1> QED BY <1>3, <1>4

\* A product grows with its first factor.
LEMMA ProductGrows ==
    ASSUME NEW c \in Nat, NEW j \in Int, NEW k \in Int, j <= k
    PROVE  j * c <= k * c
<1>1. k - j \in Nat
  OBVIOUS
<1>2. (k - j) * c \in Nat
  BY <1>1
<1>3. (k - j) * c = k * c - j * c /\ k * c \in Int /\ j * c \in Int
  OBVIOUS
<1> QED BY <1>2, <1>3

-----------------------------------------------------------------------------
(* Prices *)

LEMMA TradingConstants ==
    /\ Reference \in Nat \ {0} /\ Steps \subseteq Nat \ {0} /\ Offsets \subseteq Nat
    /\ IntervalTicks \subseteq Nat \ {0} /\ Seeds \subseteq Int
    /\ Prices \subseteq Nat \ {0} /\ MaxTick \in Nat
BY TradersAssumption

\* A book has positive prices, and its midpoint lies between them.
LEMMA MidpointBetween ==
    ASSUME NEW b \in Books
    PROVE  /\ b.bid \in Nat /\ b.ask \in Nat /\ NoPrice = 0
           /\ Midpoint(b) \in Nat \ {0}
           /\ b.bid <= Midpoint(b) \/ b.bid = 0
           /\ b.ask # 0 => Midpoint(b) <= b.ask
<1>1. /\ b.bid \in Nat /\ b.ask \in Nat /\ NoPrice = 0
      /\ b.bid # 0 /\ b.ask # 0 => b.bid < b.ask
  <2>1. NoPrice = 0 /\ Prices \subseteq Nat \ {0}
    BY TradingConstants DEF NoPrice
  <2>2. /\ b \in [bid : Prices \cup {NoPrice}, ask : Prices \cup {NoPrice}]
        /\ b.bid # NoPrice /\ b.ask # NoPrice => b.bid < b.ask
    BY DEF Books
  <2>3. b.bid \in Prices \cup {0} /\ b.ask \in Prices \cup {0}
    BY <2>1, <2>2
  <2>4. b.bid \in Nat /\ b.ask \in Nat
    <3>1. \A n \in Prices \cup {0} : n \in Nat
      BY <2>1
    <3> QED BY <2>3, <3>1
  <2>5. b.bid # 0 /\ b.ask # 0 => b.bid < b.ask
    BY <2>1, <2>2
  <2> QED BY <2>1, <2>4, <2>5
<1>2. Reference \in Nat \ {0}
  BY TradingConstants
<1>3. CASE b.bid # 0 /\ b.ask # 0
  <2>1. Midpoint(b) = (b.bid + b.ask) \div 2
    BY <1>1, <1>3 DEF Midpoint
  <2>2. (b.bid + b.ask) \div 2 \in Nat /\ b.bid <= (b.bid + b.ask) \div 2 /\ (b.bid + b.ask) \div 2 <= b.ask
    BY <1>1, <1>3
  <2> QED BY <1>1, <1>3, <2>1, <2>2
<1>4. CASE ~(b.bid # 0 /\ b.ask # 0)
  BY <1>1, <1>2, <1>4 DEF Midpoint
<1> QED BY <1>1, <1>3, <1>4

\* One order.
LEMMA IntentIs ==
    ASSUME NEW side \in {"BUY", "SELL"}, NEW price \in Int, step \in Nat \ {0}
    PROVE  /\ Intent(side, price) \in [side : {"BUY", "SELL"}, price : Nat \ {0}]
           /\ Intent(side, price).side = side
           /\ Intent(side, price).price = IF step >= price THEN step ELSE price
  BY DEF Intent, AtLeast

\* Sequences of no, one and two orders.
LEMMA Orders ==
    ASSUME NEW R
    PROVE  /\ << >> \in Seq(R) /\ DOMAIN << >> = {}
           /\ \A x \in R : <<x>> \in Seq(R) /\ DOMAIN <<x>> = {1} /\ <<x>>[1] = x
           /\ \A x, y \in R : /\ <<x, y>> \in Seq(R) /\ DOMAIN <<x, y>> = {1, 2}
                              /\ <<x, y>>[1] = x /\ <<x, y>>[2] = y /\ <<x, y>> # << >>
  OBVIOUS

-----------------------------------------------------------------------------
(* The strategies *)

\* What a placed order may be, for the strategy, the settings and the book at hand.
Placeable(p, b) ==
    /\ p \in Seq([side : {"BUY", "SELL"}, price : Nat \ {0}])
    /\ strategy = "liquidity_provider" /\ p # << >> => p[1].price < p[2].price
    /\ strategy \in {"liquidity_provider", "noise"} =>
         \A k \in DOMAIN p :
             /\ p[k].price <= AtLeast(step, Reference + (reach + 1) * step)
             /\ p[k].price >= Reference - (reach + 1) * step
    /\ strategy \in {"momentum", "mean_reversion", "event_reactive"} =>
         \A k \in DOMAIN p :
             IF p[k].side = "BUY" THEN b.ask # 0 => p[k].price >= b.ask
                                  ELSE b.bid >= step => p[k].price <= b.bid
    /\ strategy = "liquidity_provider" /\ p # << >> /\ Center(b) = Midpoint(b) =>
         /\ b.ask # 0 => p[1].price < b.ask \/ p[1].price = step
         /\ p[2].price > b.bid

Settings ==
    /\ strategy \in Strategies /\ step \in Nat \ {0} /\ reach \in Nat
    /\ period \in Nat \ {0} /\ seed \in Int

\* The band in steps and its products.
LEMMA Band ==
    ASSUME Settings
    PROVE  /\ reach * step \in Nat /\ (reach + 1) * step = reach * step + step
           /\ \A k \in -reach .. reach : /\ k * step \in Int /\ k * step <= reach * step
                                         /\ -(reach * step) <= k * step
<1>1. reach \in Nat /\ step \in Nat
  BY DEF Settings
<1>2. reach * step \in Nat /\ (reach + 1) * step = reach * step + step
  BY <1>1
<1>3. ASSUME NEW k \in -reach .. reach
      PROVE  k * step \in Int /\ k * step <= reach * step /\ -(reach * step) <= k * step
  <2>1. k \in Int /\ -reach \in Int /\ -reach <= k /\ k <= reach
    BY <1>1
  <2>2. k * step \in Int /\ k * step <= reach * step /\ (-reach) * step <= k * step
    BY <1>1, <2>1, ProductGrows
  <2>3. (-reach) * step = -(reach * step)
    BY <1>1
  <2> QED BY <2>2, <2>3
<1> QED BY <1>2, <1>3

LEMMA NoisePlaces ==
    ASSUME Settings, strategy = "noise",
           NEW b \in Books, NEW p \in Noise
    PROVE  Placeable(p, b)
<1>1. PICK side \in {"BUY", "SELL"}, k \in -reach .. reach : p = <<Intent(side, Reference + k * step)>>
  BY DEF Noise
<1> DEFINE r == reach * step
           m == k * step
           x == Intent(side, Reference + k * step)
           price == x.price
<1>2. /\ r \in Nat /\ (reach + 1) * step = r + step /\ m \in Int /\ m <= r /\ -r <= m
      /\ Reference \in Nat \ {0} /\ step \in Nat \ {0}
  BY Band, TradingConstants DEF Settings
<1> HIDE DEF r, m
<1>3. /\ x \in [side : {"BUY", "SELL"}, price : Nat \ {0}]
      /\ price = IF step >= Reference + m THEN step ELSE Reference + m
  <2>1. Reference + m \in Int
    BY <1>2
  <2> QED BY <1>2, <2>1, IntentIs DEF m
<1> HIDE DEF x
<1>4. p \in Seq([side : {"BUY", "SELL"}, price : Nat \ {0}]) /\ DOMAIN p = {1} /\ p[1] = x
  BY <1>1, <1>3, Orders DEF x
<1>5. /\ price <= AtLeast(step, Reference + (r + step))
      /\ price >= Reference - (r + step)
  BY <1>2, <1>3 DEF AtLeast
<1>6. strategy = "noise" /\ "noise" \notin {"momentum", "mean_reversion", "event_reactive"}
  OBVIOUS
<1> QED BY <1>2, <1>4, <1>5, <1>6 DEF Placeable

LEMMA ProviderPlaces ==
    ASSUME Settings, strategy = "liquidity_provider",
           NEW b \in Books, NEW p, p = LiquidityProvider(b)
    PROVE  Placeable(p, b)
<1> DEFINE r == reach * step
           c == Center(b)
           m == Midpoint(b)
           x == Intent("BUY", c - step)
           y == Intent("SELL", c + step)
<1>1. /\ r \in Nat /\ (reach + 1) * step = r + step
      /\ Reference \in Nat \ {0} /\ step \in Nat \ {0}
  BY Band, TradingConstants DEF Settings
<1>2. /\ m \in Nat \ {0} /\ b.bid \in Nat /\ b.ask \in Nat
      /\ b.bid <= m \/ b.bid = 0
      /\ b.ask # 0 => m <= b.ask
  BY MidpointBetween
<1>3. p = <<x, y>>
  BY DEF LiquidityProvider
<1> HIDE DEF r, m
<1>4. c \in Nat \ {0} /\ Reference - r <= c /\ c <= Reference + r
  <2>1. c = IF Reference + r <= IF Reference - r >= m THEN Reference - r ELSE m
            THEN Reference + r ELSE IF Reference - r >= m THEN Reference - r ELSE m
    BY DEF Center, AtMost, AtLeast, r, m
  <2> HIDE DEF c
  <2> QED BY <1>1, <1>2, <2>1
<1> HIDE DEF c
<1>5. /\ x \in [side : {"BUY", "SELL"}, price : Nat \ {0}]
      /\ x.price = IF step >= c - step THEN step ELSE c - step
  BY <1>1, <1>4, IntentIs
<1>6. /\ y \in [side : {"BUY", "SELL"}, price : Nat \ {0}]
      /\ y.price = IF step >= c + step THEN step ELSE c + step
  BY <1>1, <1>4, IntentIs
<1> HIDE DEF x, y
<1>7. /\ p \in Seq([side : {"BUY", "SELL"}, price : Nat \ {0}])
      /\ DOMAIN p = {1, 2} /\ p[1] = x /\ p[2] = y
  BY <1>3, <1>5, <1>6, Orders
<1>8. x.price < y.price
  BY <1>1, <1>4, <1>5, <1>6
<1>9. \A k \in {x.price, y.price} : /\ k <= AtLeast(step, Reference + (r + step))
                                    /\ k >= Reference - (r + step)
  BY <1>1, <1>4, <1>5, <1>6 DEF AtLeast
<1>10. c = m => /\ b.ask # 0 => x.price < b.ask \/ x.price = step
                /\ y.price > b.bid
  BY <1>1, <1>2, <1>4, <1>5, <1>6
<1>11. strategy \notin {"momentum", "mean_reversion", "event_reactive"}
  OBVIOUS
<1> QED BY <1>1, <1>7, <1>8, <1>9, <1>10, <1>11 DEF Placeable, c, m

\* Momentum and mean reversion place at most one order, at the best price of the other
\* side when there is one.
LEMMA TakerPlaces ==
    ASSUME Settings, strategy \in {"momentum", "mean_reversion", "event_reactive"},
           NEW b \in Books, b.bid \in Nat, b.ask \in Nat,
           NEW side \in {"BUY", "SELL"}, NEW price \in Int,
           side = "BUY" /\ b.ask # 0 => price = b.ask,
           side = "SELL" /\ b.bid # 0 => price = b.bid
    PROVE  Placeable(<<Intent(side, price)>>, b)
<1> DEFINE x == Intent(side, price)
           p == <<x>>
<1>1. step \in Nat \ {0}
  BY DEF Settings
<1>2. /\ x \in [side : {"BUY", "SELL"}, price : Nat \ {0}] /\ x.side = side
      /\ x.price = IF step >= price THEN step ELSE price
  BY <1>1, IntentIs
<1> HIDE DEF x
<1>3. p \in Seq([side : {"BUY", "SELL"}, price : Nat \ {0}]) /\ DOMAIN p = {1} /\ p[1] = x
  BY <1>2, Orders
<1>4. IF x.side = "BUY" THEN b.ask # 0 => x.price >= b.ask
                        ELSE b.bid >= step => x.price <= b.bid
  <2>1. CASE side = "BUY"
    BY <1>1, <1>2, <2>1
  <2>2. CASE side = "SELL"
    BY <1>1, <1>2, <2>2
  <2> QED BY <2>1, <2>2
<1>5. strategy # "liquidity_provider" /\ strategy # "noise"
  OBVIOUS
<1> HIDE DEF p
<1>6. Placeable(p, b)
  BY <1>3, <1>4, <1>5 DEF Placeable
<1> QED BY <1>6 DEF p, x

LEMMA NothingPlaced ==
    ASSUME NEW b
    PROVE  Placeable(<< >>, b)
  BY Orders DEF Placeable

LEMMA MomentumPlaces ==
    ASSUME Settings, strategy = "momentum", midpoint \in Nat,
           NEW b \in Books
    PROVE  Placeable(Momentum(b), b)
<1> DEFINE m == Midpoint(b)
<1>1. /\ b.bid \in Nat /\ b.ask \in Nat /\ m \in Nat \ {0} /\ NoPrice = 0 /\ step \in Nat \ {0}
  BY MidpointBetween DEF Settings
<1> HIDE DEF m
<1>2. CASE midpoint = 0 \/ m = midpoint
  <2>1. Momentum(b) = << >>
    BY <1>1, <1>2 DEF Momentum, m
  <2> QED BY <2>1, NothingPlaced
<1>3. CASE midpoint # 0 /\ m > midpoint
  <2> DEFINE price == AskOr(b, m + step)
  <2>1. Momentum(b) = <<Intent("BUY", price)>>
    BY <1>1, <1>3 DEF Momentum, m
  <2>2. price \in Int /\ (b.ask # 0 => price = b.ask)
    BY <1>1 DEF AskOr
  <2> HIDE DEF price
  <2> QED BY <1>1, <2>1, <2>2, TakerPlaces
<1>4. CASE midpoint # 0 /\ m < midpoint
  <2> DEFINE price == BidOr(b, m - step)
  <2>1. Momentum(b) = <<Intent("SELL", price)>>
    BY <1>1, <1>4 DEF Momentum, m
  <2>2. price \in Int /\ (b.bid # 0 => price = b.bid)
    BY <1>1 DEF BidOr
  <2> HIDE DEF price
  <2> QED BY <1>1, <2>1, <2>2, TakerPlaces
<1>5. m = midpoint \/ m > midpoint \/ m < midpoint
  BY <1>1
<1> QED BY <1>2, <1>3, <1>4, <1>5

LEMMA ReversionPlaces ==
    ASSUME Settings, strategy = "mean_reversion", NEW b \in Books
    PROVE  Placeable(MeanReversion(b), b)
<1> DEFINE m == Midpoint(b)
<1>1. /\ b.bid \in Nat /\ b.ask \in Nat /\ m \in Nat \ {0} /\ NoPrice = 0 /\ step \in Nat \ {0}
      /\ Reference \in Nat \ {0}
  BY MidpointBetween, TradingConstants DEF Settings
<1> HIDE DEF m
<1>2. CASE m <= Reference - step
  <2> DEFINE price == AskOr(b, m + step)
  <2>1. ~(m >= Reference + step)
    BY <1>1, <1>2
  <2>2. MeanReversion(b) = <<Intent("BUY", price)>>
    BY <1>2, <2>1 DEF MeanReversion, m
  <2>3. price \in Int /\ (b.ask # 0 => price = b.ask)
    BY <1>1 DEF AskOr
  <2> HIDE DEF price
  <2> QED BY <1>1, <2>2, <2>3, TakerPlaces
<1>3. CASE m >= Reference + step
  <2> DEFINE price == BidOr(b, m - step)
  <2>1. ~(m <= Reference - step)
    BY <1>1, <1>3
  <2>2. MeanReversion(b) = <<Intent("SELL", price)>>
    BY <1>3, <2>1 DEF MeanReversion, m
  <2>3. price \in Int /\ (b.bid # 0 => price = b.bid)
    BY <1>1 DEF BidOr
  <2> HIDE DEF price
  <2> QED BY <1>1, <2>2, <2>3, TakerPlaces
<1>4. CASE ~(m <= Reference - step) /\ ~(m >= Reference + step)
  <2>1. MeanReversion(b) = << >>
    BY <1>4 DEF MeanReversion, m
  <2> QED BY <2>1, NothingPlaced
<1> QED BY <1>2, <1>3, <1>4

LEMMA ReactionPlaces ==
    ASSUME Settings, strategy = "event_reactive",
           NEW b \in Books, NEW p \in React(b)
    PROVE  Placeable(p, b)
<1>1. PICK side \in {"BUY", "SELL"} : p = <<[side |-> side, price |-> ReactionPrice(b, side)]>>
  BY DEF React
<1> DEFINE price == ReactionPrice(b, side)
           x == [side |-> side, price |-> price]
<1>2. b.bid \in Nat /\ b.ask \in Nat /\ NoPrice = 0 /\ step \in Nat \ {0} /\ Reference \in Nat \ {0}
  BY MidpointBetween, TradingConstants DEF Settings
<1>3. price = IF side = "BUY"
              THEN IF b.ask # 0 THEN b.ask ELSE AtLeast(step, Reference + step)
              ELSE IF b.bid # 0 THEN b.bid ELSE AtLeast(step, Reference - step)
  BY <1>2 DEF ReactionPrice, AskOr, BidOr
<1> HIDE DEF price
<1>4. /\ price \in Nat \ {0}
      /\ side = "BUY" /\ b.ask # 0 => price = b.ask
      /\ side = "SELL" /\ b.bid # 0 => price = b.bid
  BY <1>2, <1>3 DEF AtLeast
<1>5. x \in [side : {"BUY", "SELL"}, price : Nat \ {0}] /\ x.side = side /\ x.price = price
  BY <1>4
<1> HIDE DEF x
<1>6. p \in Seq([side : {"BUY", "SELL"}, price : Nat \ {0}]) /\ DOMAIN p = {1} /\ p[1] = x
  BY <1>1, <1>5, Orders DEF x, price
<1>7. IF x.side = "BUY" THEN b.ask # 0 => x.price >= b.ask
                        ELSE b.bid >= step => x.price <= b.bid
  <2>1. CASE side = "BUY"
    BY <1>2, <1>4, <1>5, <2>1
  <2>2. CASE side = "SELL"
    BY <1>2, <1>4, <1>5, <2>2
  <2> QED BY <2>1, <2>2
<1>8. strategy # "liquidity_provider" /\ strategy # "noise"
  OBVIOUS
<1> QED BY <1>6, <1>7, <1>8 DEF Placeable

\* Whatever a strategy that is due may place.
LEMMA IntentsPlaces ==
    ASSUME Settings, strategy # "event_reactive", midpoint \in Nat,
           NEW b \in Books, NEW p \in NextIntents(b)
    PROVE  Placeable(p, b)
<1>1. CASE strategy = "noise"
  BY <1>1, NoisePlaces DEF NextIntents
<1>2. CASE strategy = "momentum"
  <2>1. p = Momentum(b)
    BY <1>2 DEF NextIntents
  <2> QED BY <1>2, <2>1, MomentumPlaces
<1>3. CASE strategy = "mean_reversion"
  <2>1. p = MeanReversion(b)
    BY <1>3 DEF NextIntents
  <2> QED BY <1>3, <2>1, ReversionPlaces
<1>4. CASE strategy = "liquidity_provider"
  <2>1. p = LiquidityProvider(b)
    BY <1>4 DEF NextIntents
  <2> QED BY <1>4, <2>1, ProviderPlaces
<1> QED BY <1>1, <1>2, <1>3, <1>4 DEF Settings, Strategies

-----------------------------------------------------------------------------
(* The inductive invariant *)

LEMMA TradingStart ==
    ASSUME TraderInit
    PROVE  TradingInv
<1> USE DEF TraderInit
<1>1. placed = << >> /\ DOMAIN placed = {} /\ NoPrice = 0
  BY Orders DEF NoPrice
<1>2. book \in Books
  BY DEF Books
<1>3. TraderTypeOK
  <2>1. placed \in Seq([side : {"BUY", "SELL"}, price : Nat \ {0}])
    BY Orders
  <2> QED BY <1>1, <1>2, <2>1 DEF TraderTypeOK
<1>4. /\ QuotesApart /\ QuotesInBand
      /\ Passive /\ TakersMatch
  BY <1>1 DEF QuotesApart, QuotesInBand, Passive, TakersMatch
<1>5. OnSchedule
  <2>1. 1 .. tick = {}
    OBVIOUS
  <2> QED BY <2>1 DEF OnSchedule
<1> QED BY <1>3, <1>4, <1>5 DEF TradingInv, QuotesSound, RolesKept

LEMMA SettingsTyped ==
    ASSUME TraderTypeOK
    PROVE  Settings
  BY TradingConstants DEF TraderTypeOK, Settings

\* A placeable order keeps the properties of the orders.
LEMMA PlacedSound ==
    ASSUME TraderTypeOK, NEW b \in Books, NEW p, Placeable(p, b),
           placed' = p, book' = b, midpoint' \in Nat, lastDue' \in Nat, tick' \in Nat,
           UNCHANGED settingVars
    PROVE  QuotesSound' /\ RolesKept'
<1>1. /\ strategy' = strategy /\ step' = step /\ reach' = reach /\ period' = period /\ seed' = seed
      /\ NoPrice = 0 /\ NoPrice' = 0
  BY DEF settingVars, NoPrice
<1>2. Books' = Books
  BY DEF Books, NoPrice
<1>3. TraderTypeOK'
  <2>1. placed' \in Seq([side : {"BUY", "SELL"}, price : Nat \ {0}])
    BY DEF Placeable
  <2> QED BY <1>1, <1>2, <2>1 DEF TraderTypeOK, Strategies
<1>4. QuotesApart'
  BY <1>1 DEF Placeable, QuotesApart
<1>5. QuotesInBand'
  BY <1>1 DEF Placeable, QuotesInBand, AtLeast
<1>6. TakersMatch'
  BY <1>1 DEF Placeable, TakersMatch
<1>7. Passive'
  <2>1. Center(book)' = Center(b) /\ Midpoint(book)' = Midpoint(b)
    BY <1>1 DEF Center, Midpoint, AtMost, AtLeast
  <2> QED BY <1>1, <2>1 DEF Placeable, Passive
<1> QED BY <1>3, <1>4, <1>5, <1>6, <1>7 DEF QuotesSound, RolesKept

\* Every tick shows a book and places what the strategy may place on it.
LEMMA TickPlaces ==
    ASSUME TraderTypeOK, NEW b \in Books,
           Due(b) \/ NotDue(b) \/ Reacts(b)
    PROVE  QuotesSound' /\ RolesKept'
<1>1. Settings /\ midpoint \in Nat /\ tick \in Nat /\ lastDue \in Nat /\ Midpoint(b) \in Nat
  BY SettingsTyped, MidpointBetween DEF TraderTypeOK
<1>2. book' = b /\ tick' \in Nat /\ UNCHANGED settingVars
  BY <1>1 DEF Due, NotDue, Reacts
<1>3. midpoint' \in Nat /\ lastDue' \in Nat
  <2>1. midpoint' \in {midpoint, Midpoint(b)} /\ lastDue' \in {lastDue, tick + 1}
    BY DEF Due, NotDue, Reacts
  <2> QED BY <1>1, <2>1
<1>4. Placeable(placed', b)
  <2>1. CASE Due(b)
    <3>1. placed' \in NextIntents(b) /\ strategy # "event_reactive"
      BY <2>1 DEF Due
    <3> QED BY <1>1, <3>1, IntentsPlaces
  <2>2. CASE NotDue(b)
    <3>1. placed' = << >>
      BY <2>2 DEF NotDue
    <3> QED BY <3>1, NothingPlaced
  <2>3. CASE Reacts(b)
    <3>1. placed' \in React(b) /\ strategy = "event_reactive"
      BY <2>3 DEF Reacts
    <3> QED BY <1>1, <3>1, ReactionPlaces
  <2> QED BY <2>1, <2>2, <2>3
<1> QED BY <1>2, <1>3, <1>4, PlacedSound

-----------------------------------------------------------------------------
(* The ticks in which a trader is due *)

\* One of the first interval ticks is due.
LEMMA DueAtStart ==
    ASSUME Settings
    PROVE  \E t \in 1 .. period : IsDue(t)
<1>1. period \in Nat \ {0} /\ seed \in Int
  BY DEF Settings
<1> DEFINE f == seed % period
           t == period - f
<1>2. f \in 0 .. period - 1
  BY <1>1
<1>3. Phase = f
  BY DEF Phase
<1> HIDE DEF f
<1>4. t \in 1 .. period /\ t + f = period * 1 + 0 /\ 0 \in 0 .. period - 1 /\ t + f \in Int
  BY <1>1, <1>2
<1>5. (t + f) % period = 0
  BY <1>1, <1>4, RemainderUnique
<1>6. IsDue(t)
  BY <1>3, <1>5 DEF IsDue
<1> QED BY <1>4, <1>6

\* After a due tick the next one is an interval later.
LEMMA DueAfter ==
    ASSUME Settings, NEW l \in Nat, IsDue(l), NEW k \in 1 .. period
    PROVE  IsDue(l + k) <=> k = period
<1>1. period \in Nat \ {0} /\ seed \in Int
  BY DEF Settings
<1> DEFINE f == Phase
<1>2. f \in Int
  BY <1>1 DEF Phase
<1>3. (l + f) % period = 0
  BY DEF IsDue
<1>4. IsDue(l + k) <=> ((l + k) + f) % period = 0
  BY DEF IsDue
<1> HIDE DEF f
<1>5. l + f \in Int /\ (l + k) + f = (l + f) + k
  BY <1>1, <1>2
<1>6. ((l + f) + k) % period = 0 <=> k = period
  BY <1>1, <1>3, <1>5, NextMultiple
<1> QED BY <1>4, <1>5, <1>6

\* What a tick does to a trader that is not woken by events.
LEMMA ScheduledTick ==
    ASSUME TradingInv, strategy # "event_reactive", TraderNext
    PROVE  /\ strategy' = strategy /\ tick' = tick + 1
           /\ \A t : IsDue(t)' <=> IsDue(t)
           /\ lastDue' = IF IsDue(tick + 1) THEN tick + 1 ELSE lastDue
           /\ period' = period
<1>1. PICK b \in Books : Due(b) \/ NotDue(b)
  BY DEF TraderNext, Reacts
<1>2. UNCHANGED settingVars
  BY <1>1 DEF Due, NotDue
<1>3. strategy' = strategy /\ period' = period /\ seed' = seed
  BY <1>2 DEF settingVars
<1>4. \A t : IsDue(t)' <=> IsDue(t)
  BY <1>3 DEF IsDue, Phase
<1>5. tick' = tick + 1 /\ lastDue' = IF IsDue(tick + 1) THEN tick + 1 ELSE lastDue
  BY <1>1 DEF Due, NotDue
<1> QED BY <1>3, <1>4, <1>5

LEMMA ScheduleKept ==
    ASSUME TradingInv, strategy # "event_reactive", TraderNext
    PROVE  /\ OnSchedule'
           /\ IF lastDue = 0 THEN lastDue' = 0 => tick' < period
                             ELSE lastDue' # lastDue <=> tick' = lastDue + period
<1>1. /\ strategy' = strategy /\ tick' = tick + 1
      /\ \A t : IsDue(t)' <=> IsDue(t)
      /\ lastDue' = IF IsDue(tick + 1) THEN tick + 1 ELSE lastDue
      /\ period' = period
  BY ScheduledTick
<1>2. /\ Settings /\ period \in Nat \ {0} /\ tick \in Nat /\ lastDue \in Nat
  BY SettingsTyped DEF TradingInv, QuotesSound, TraderTypeOK, Settings
<1>3. /\ lastDue = 0 => \A t \in 1 .. tick : ~IsDue(t)
      /\ lastDue # 0 => IsDue(lastDue) /\ lastDue <= tick /\ tick < lastDue + period
  BY DEF TradingInv, OnSchedule
<1>4. CASE lastDue = 0 /\ ~IsDue(tick + 1)
  <2>1. \A t \in 1 .. tick + 1 : ~IsDue(t)
    <3>1. \A t \in 1 .. tick + 1 : t \in 1 .. tick \/ t = tick + 1
      BY <1>2
    <3> QED BY <1>3, <1>4, <3>1
  <2>2. PICK t \in 1 .. period : IsDue(t)
    BY <1>2, DueAtStart
  <2>3. tick + 1 < period
    <3>1. t \notin 1 .. tick + 1
      BY <2>1, <2>2
    <3> QED BY <1>2, <3>1
  <2>4. OnSchedule'
    BY <1>1, <1>4, <2>1 DEF OnSchedule
  <2> QED BY <1>1, <1>4, <2>3, <2>4
<1>5. CASE lastDue = 0 /\ IsDue(tick + 1)
  <2>1. lastDue' = tick + 1 /\ lastDue' # 0
    BY <1>1, <1>2, <1>5
  <2>3. OnSchedule'
    <3>1. lastDue' <= tick' /\ tick' < lastDue' + period'
      BY <1>1, <1>2, <2>1
    <3>2. IsDue(lastDue)'
      BY <1>1, <1>5, <2>1 DEF IsDue, Phase
    <3> QED BY <2>1, <3>1, <3>2 DEF OnSchedule
  <2> QED BY <1>5, <2>1, <2>3
<1>6. CASE lastDue # 0
  <2> DEFINE k == tick + 1 - lastDue
  <2>1. k \in 1 .. period /\ lastDue + k = tick + 1
    BY <1>2, <1>3, <1>6
  <2>2. IsDue(tick + 1) <=> k = period
    <3>1. IsDue(lastDue + k) <=> k = period
      BY <1>2, <1>3, <1>6, <2>1, DueAfter
    <3> QED BY <2>1, <3>1
  <2>3. lastDue' # lastDue <=> tick' = lastDue + period
    BY <1>1, <1>2, <1>3, <1>6, <2>2
  <2>4. OnSchedule'
    <3>1. lastDue' # 0 /\ lastDue' <= tick' /\ tick' < lastDue' + period'
      BY <1>1, <1>2, <1>3, <1>6, <2>1, <2>2
    <3>2. IsDue(lastDue)'
      <4>1. IsDue(lastDue) /\ (IsDue(tick + 1) => lastDue' = tick + 1)
        BY <1>1, <1>3, <1>6
      <4>2. UNCHANGED <<seed, period>> => (IsDue(lastDue)' <=> (lastDue' + Phase) % period = 0)
        BY DEF IsDue, Phase
      <4> QED BY <1>1, <4>1, <4>2 DEF IsDue, Phase
    <3> QED BY <3>1, <3>2 DEF OnSchedule
  <2> QED BY <1>6, <2>3, <2>4
<1> QED BY <1>4, <1>5, <1>6

LEMMA TradingStep ==
    ASSUME TradingInv, [TraderNext]_traderVars
    PROVE  TradingInv'
<1>1. CASE UNCHANGED traderVars
  <2>1. /\ strategy' = strategy /\ step' = step /\ reach' = reach /\ period' = period /\ seed' = seed
        /\ tick' = tick /\ book' = book /\ midpoint' = midpoint /\ lastDue' = lastDue /\ placed' = placed
    BY <1>1 DEF traderVars, settingVars
  <2>2. QuotesSound'
    BY <2>1 DEF TradingInv, QuotesSound, TraderTypeOK, QuotesApart, QuotesInBand,
                AtLeast, Books, NoPrice, Strategies
  <2>3. RolesKept'
    <3>1. Center(book)' = Center(book) /\ Midpoint(book)' = Midpoint(book)
      BY <2>1 DEF Center, Midpoint, AtMost, AtLeast
    <3> QED BY <2>1, <3>1 DEF TradingInv, RolesKept, Passive, TakersMatch, NoPrice
  <2>4. OnSchedule'
    <3>1. \A t : IsDue(t)' <=> IsDue(t)
      BY <2>1 DEF IsDue, Phase
    <3>2. IsDue(lastDue)' <=> IsDue(lastDue)
      BY <2>1 DEF IsDue, Phase
    <3> QED BY <2>1, <3>1, <3>2 DEF TradingInv, OnSchedule
  <2> QED BY <2>2, <2>3, <2>4 DEF TradingInv
<1>2. CASE TraderNext
  <2>1. QuotesSound' /\ RolesKept'
    <3>1. PICK b \in Books : Due(b) \/ NotDue(b) \/ Reacts(b)
      BY <1>2 DEF TraderNext
    <3> QED BY <3>1, TickPlaces DEF TradingInv, QuotesSound
  <2>2. OnSchedule'
    <3>1. CASE strategy # "event_reactive"
      BY <1>2, <3>1, ScheduleKept
    <3>2. CASE strategy = "event_reactive"
      <4>1. strategy' = strategy
        BY <1>2 DEF TraderNext, Due, NotDue, Reacts, settingVars
      <4> QED BY <3>2, <4>1 DEF OnSchedule
    <3> QED BY <3>1, <3>2
  <2> QED BY <2>1, <2>2 DEF TradingInv
<1> QED BY <1>1, <1>2

LEMMA TradingInvariant == TraderSpec => []TradingInv
<1>1. TraderInit => TradingInv
  BY TradingStart
<1>2. TradingInv /\ [TraderNext]_traderVars => TradingInv'
  BY TradingStep
<1> QED BY <1>1, <1>2, PTL DEF TraderSpec

-----------------------------------------------------------------------------
(* What follows from the invariant *)

\* Whatever the reference price, the step, the offset and the book: the two quotes of the
\* liquidity provider never trade with each other, quotes stay in the band, and every
\* price is one a matcher accepts (traders.py).
THEOREM QuotesAlwaysSound == TraderSpec => []QuotesSound
<1>1. TradingInv => QuotesSound
  BY DEF TradingInv
<1> QED BY <1>1, TradingInvariant, PTL

\* Quotes rest and the orders of the takers are matched at once, on every book
\* (traders.py).
THEOREM RolesAlwaysKept == TraderSpec => []RolesKept
<1>1. TradingInv => RolesKept
  BY DEF TradingInv
<1> QED BY <1>1, TradingInvariant, PTL

\* Whatever the seed, a trader is due within its interval, and then exactly once in every
\* interval (is_due of BaseTrader, traders.py).
THEOREM DueOnceAnInterval == TraderSpec => DueEachInterval
<1> DEFINE Regular == strategy # "event_reactive" =>
             IF lastDue = 0 THEN lastDue' = 0 => tick' < period
                            ELSE lastDue' # lastDue <=> tick' = lastDue + period
<1>1. TradingInv /\ [TraderNext]_traderVars => [Regular]_traderVars
  BY ScheduleKept
<1> QED BY <1>1, TradingInvariant, PTL DEF TraderSpec, DueEachInterval
=============================================================================
