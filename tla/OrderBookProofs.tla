-------------------------- MODULE OrderBookProofs --------------------------
(***************************************************************************)
(* Proofs about OrderBook, for any number of orders, any prices and        *)
(* quantities, any maximum age, clock and compaction threshold: what lazy  *)
(* deletion keeps, that every step of the production book is a step of the *)
(* reference book, and that its answers are the reference book's.          *)
(***************************************************************************)
EXTENDS OrderBook, FiniteSetTheorems, WellFoundedInduction, SequenceTheorems, TLAPS

-----------------------------------------------------------------------------
(* Least numbers and running sums *)

\* A non-empty set of natural numbers has a least one, and Min is it.
LEMMA LeastNat ==
    ASSUME NEW T \in SUBSET Nat, T # {}
    PROVE  Min(T) \in T /\ \A y \in T : Min(T) <= y
<1>1. PICK x \in T : \A y \in T : ~(<<y, x>> \in OpToRel(<, Nat))
  BY NatLessThanWellFounded, WFMin
<1>2. ASSUME NEW y \in T PROVE x <= y
  <2>1. <<y, x>> \in Nat \X Nat /\ <<y, x>>[1] = y /\ <<y, x>>[2] = x
    OBVIOUS
  <2>2. ~(y < x)
    BY <1>1, <2>1 DEF OpToRel
  <2> QED BY <2>2
<1> QED BY <1>2 DEF Min

\* n is what the quantities w of all orders add up to: the last running sum.
Adds(w, n) ==
    \E f \in [0 .. MaxOrders -> Int] :
        /\ f[0] = 0 /\ f[MaxOrders] = n
        /\ \A o \in Ids : f[o] = f[o - 1] + w[o]

LEMMA AddsZero ==
    ASSUME NEW w, \A o \in Ids : w[o] = 0
    PROVE  Adds(w, 0)
<1> DEFINE f == [i \in 0 .. MaxOrders |-> 0]
<1>1. f \in [0 .. MaxOrders -> Int] /\ f[0] = 0 /\ f[MaxOrders] = 0
  BY BoundAssumption
<1>2. \A o \in Ids : f[o] = f[o - 1] + w[o]
  BY BoundAssumption DEF Ids
<1> QED BY <1>1, <1>2 DEF Adds

\* Running sums of natural numbers grow.
LEMMA SumsGrow ==
    ASSUME NEW w \in [Ids -> Nat], NEW f \in [0 .. MaxOrders -> Int],
           \A o \in Ids : f[o] = f[o - 1] + w[o],
           NEW i \in 0 .. MaxOrders, NEW j \in 0 .. MaxOrders, i <= j
    PROVE  f[i] <= f[j]
<1> DEFINE T == {k \in 0 .. MaxOrders : i <= k /\ f[i] > f[k]}
<1> SUFFICES ASSUME T # {} PROVE FALSE
  BY BoundAssumption
<1> DEFINE k == Min(T)
<1>1. k \in T /\ \A l \in T : k <= l
  <2>1. T \in SUBSET Nat
    BY BoundAssumption
  <2> HIDE DEF T
  <2> QED BY <2>1, LeastNat
<1> HIDE DEF k
<1>2. k \in Ids /\ k - 1 \in 0 .. MaxOrders /\ i <= k - 1 /\ k - 1 \notin T
  <2>1. k # i /\ k \in 0 .. MaxOrders /\ i <= k
    BY <1>1
  <2>2. k - 1 \notin T
    <3> HIDE DEF T
    <3> QED BY <1>1, <2>1
  <2> QED BY <2>1, <2>2, BoundAssumption DEF Ids
<1>3. f[i] <= f[k - 1] /\ f[k] = f[k - 1] + w[k] /\ f[i] > f[k]
  BY <1>1, <1>2
<1> QED BY <1>2, <1>3

LEMMA AddsBounds ==
    ASSUME NEW w \in [Ids -> Nat], NEW n, Adds(w, n)
    PROVE  n \in Nat /\ \A o \in Ids : w[o] <= n
<1>1. PICK f \in [0 .. MaxOrders -> Int] :
        f[0] = 0 /\ f[MaxOrders] = n /\ \A o \in Ids : f[o] = f[o - 1] + w[o]
  BY DEF Adds
<1>2. 0 \in 0 .. MaxOrders /\ MaxOrders \in 0 .. MaxOrders /\ 0 <= MaxOrders
  BY BoundAssumption
<1>3. n \in Nat
  <2>1. f[0] <= f[MaxOrders]
    BY <1>1, <1>2, SumsGrow
  <2> QED BY <1>1, <1>2, <2>1
<1>4. ASSUME NEW o \in Ids PROVE w[o] <= n
  <2>1. o \in 0 .. MaxOrders /\ o - 1 \in 0 .. MaxOrders /\ 0 <= o - 1 /\ o <= MaxOrders
    BY BoundAssumption DEF Ids
  <2>2. f[0] <= f[o - 1] /\ f[o] <= f[MaxOrders]
    BY <1>1, <1>2, <2>1, SumsGrow
  <2> QED BY <1>1, <1>3, <2>1, <2>2
<1> QED BY <1>3, <1>4

\* The sum is the only number that Adds finds.
LEMMA AddsOnce ==
    ASSUME NEW w \in [Ids -> Nat], NEW n, NEW m, Adds(w, n), Adds(w, m)
    PROVE  n = m
<1>1. PICK f \in [0 .. MaxOrders -> Int] :
        f[0] = 0 /\ f[MaxOrders] = n /\ \A o \in Ids : f[o] = f[o - 1] + w[o]
  BY DEF Adds
<1>2. PICK g \in [0 .. MaxOrders -> Int] :
        g[0] = 0 /\ g[MaxOrders] = m /\ \A o \in Ids : g[o] = g[o - 1] + w[o]
  BY DEF Adds
<1> DEFINE T == {k \in 0 .. MaxOrders : f[k] # g[k]}
<1> SUFFICES ASSUME T # {} PROVE FALSE
  BY <1>1, <1>2, BoundAssumption
<1> DEFINE k == Min(T)
<1>3. k \in T /\ \A l \in T : k <= l
  <2>1. T \in SUBSET Nat
    BY BoundAssumption
  <2> HIDE DEF T
  <2> QED BY <2>1, LeastNat
<1> HIDE DEF k
<1>4. k \in Ids /\ k - 1 \in 0 .. MaxOrders /\ k - 1 \notin T
  <2>1. k # 0 /\ k \in 0 .. MaxOrders
    BY <1>1, <1>2, <1>3
  <2>2. k - 1 \notin T
    <3> HIDE DEF T
    <3> QED BY <1>3, <2>1
  <2> QED BY <2>1, <2>2, BoundAssumption DEF Ids
<1>5. f[k - 1] = g[k - 1] /\ f[k] # g[k]
  BY <1>3, <1>4
<1> QED BY <1>1, <1>2, <1>4, <1>5

LEMMA AddsPut ==
    ASSUME NEW w \in [Ids -> Nat], NEW n, Adds(w, n), NEW o \in Ids, NEW v \in Nat,
           NEW w2, \A x \in Ids : w2[x] = IF x = o THEN v ELSE w[x]
    PROVE  Adds(w2, n - w[o] + v)
<1>1. PICK f \in [0 .. MaxOrders -> Int] :
        f[0] = 0 /\ f[MaxOrders] = n /\ \A x \in Ids : f[x] = f[x - 1] + w[x]
  BY DEF Adds
<1> DEFINE g == [i \in 0 .. MaxOrders |-> IF i < o THEN f[i] ELSE f[i] - w[o] + v]
<1>2. g \in [0 .. MaxOrders -> Int]
  BY <1>1
<1>3. g[0] = 0 /\ g[MaxOrders] = n - w[o] + v
  BY <1>1, BoundAssumption DEF Ids
<1>4. ASSUME NEW x \in Ids PROVE g[x] = g[x - 1] + w2[x]
  <2>1. x \in 0 .. MaxOrders /\ x - 1 \in 0 .. MaxOrders /\ x \in Int /\ o \in Int
    BY BoundAssumption DEF Ids
  <2>2. f[x] = f[x - 1] + w[x] /\ f[x] \in Int /\ f[x - 1] \in Int
    BY <1>1, <2>1
  <2>3. g[x] = (IF x < o THEN f[x] ELSE f[x] - w[o] + v)
        /\ g[x - 1] = (IF x - 1 < o THEN f[x - 1] ELSE f[x - 1] - w[o] + v)
    BY <2>1
  <2>4. w2[x] = IF x = o THEN v ELSE w[x]
    OBVIOUS
  <2> HIDE DEF g
  <2> QED BY <2>1, <2>2, <2>3, <2>4
<1> QED BY <1>2, <1>3, <1>4 DEF Adds

-----------------------------------------------------------------------------
(* Sequences *)

Ascending(keys) == \A i, j \in 1 .. Len(keys) : i < j => keys[i] < keys[j]

\* One element put in after position m, and one taken out at position m.
LEMMA Inserted ==
    ASSUME NEW s \in Seq(Int), NEW k \in Int, NEW m \in 0 .. Len(s)
    PROVE  /\ InsertAt(s, m + 1, k) \in Seq(Int)
           /\ Len(InsertAt(s, m + 1, k)) = Len(s) + 1
           /\ \A i \in 1 .. Len(s) + 1 :
                InsertAt(s, m + 1, k)[i] = IF i <= m THEN s[i] ELSE IF i = m + 1 THEN k ELSE s[i - 1]
<1> DEFINE a == SubSeq(s, 1, m)
           b == SubSeq(s, m + 1, Len(s))
           c == a \o <<k>>
           d == c \o b
<1>0. Len(s) \in Nat /\ m \in Nat
  OBVIOUS
<1>1. a \in Seq(Int) /\ Len(a) = m /\ \A i \in 1 .. m : a[i] = s[i]
  OBVIOUS
<1>2. b \in Seq(Int) /\ Len(b) = Len(s) - m /\ \A i \in 1 .. Len(s) - m : b[i] = s[m + i]
  <2>1. CASE m = Len(s)
    BY <2>1
  <2>2. CASE m < Len(s)
    BY <2>2
  <2> QED BY <2>1, <2>2
<1>3. InsertAt(s, m + 1, k) = d
  <2>1. (m + 1) - 1 = m
    OBVIOUS
  <2> QED BY <2>1 DEF InsertAt
<1> HIDE DEF a, b
<1>4. c \in Seq(Int) /\ Len(c) = m + 1 /\ \A i \in 1 .. m + 1 : c[i] = IF i <= m THEN s[i] ELSE k
  <2>1. <<k>> \in Seq(Int) /\ Len(<<k>>) = 1 /\ <<k>>[1] = k
    OBVIOUS
  <2>2. /\ c \in Seq(Int) /\ Len(c) = m + 1
        /\ \A i \in 1 .. m + 1 : c[i] = IF i <= m THEN a[i] ELSE <<k>>[i - m]
    BY <1>1, <2>1, ConcatProperties
  <2> HIDE DEF c
  <2>3. \A i \in 1 .. m + 1 : i <= m \/ i - m = 1
    OBVIOUS
  <2> QED BY <1>1, <2>1, <2>2, <2>3
<1> HIDE DEF c
<1>5. /\ Len(d) = Len(s) + 1 /\ d \in Seq(Int)
      /\ \A i \in 1 .. Len(s) + 1 : d[i] = IF i <= m + 1 THEN c[i] ELSE b[i - (m + 1)]
  <2>1. /\ Len(d) = Len(c) + Len(b) /\ d \in Seq(Int)
        /\ \A i \in 1 .. Len(c) + Len(b) : d[i] = IF i <= Len(c) THEN c[i] ELSE b[i - Len(c)]
    BY <1>2, <1>4, ConcatProperties
  <2> HIDE DEF d
  <2>2. Len(c) + Len(b) = Len(s) + 1
    BY <1>2, <1>4
  <2> QED BY <1>4, <2>1, <2>2
<1> HIDE DEF d
<1>6. ASSUME NEW i \in 1 .. Len(s) + 1
      PROVE  d[i] = IF i <= m THEN s[i] ELSE IF i = m + 1 THEN k ELSE s[i - 1]
  <2>1. CASE i <= m + 1
    <3>1. i \in 1 .. m + 1 /\ d[i] = c[i]
      BY <1>5, <2>1
    <3> QED BY <1>4, <3>1
  <2>2. CASE i > m + 1
    <3>1. d[i] = b[i - (m + 1)]
      BY <1>0, <1>5, <2>2
    <3>2. i - (m + 1) \in 1 .. Len(s) - m /\ m + (i - (m + 1)) = i - 1
      BY <2>2
    <3>3. b[i - (m + 1)] = s[m + (i - (m + 1))]
      BY <1>2, <3>2
    <3> QED BY <2>2, <3>1, <3>2, <3>3
  <2> QED BY <1>0, <2>1, <2>2
<1> QED BY <1>0, <1>3, <1>5, <1>6

LEMMA Removed ==
    ASSUME NEW s \in Seq(Int), NEW m \in 1 .. Len(s)
    PROVE  /\ RemoveAt(s, m) \in Seq(Int)
           /\ Len(RemoveAt(s, m)) = Len(s) - 1
           /\ \A i \in 1 .. Len(s) - 1 : RemoveAt(s, m)[i] = IF i < m THEN s[i] ELSE s[i + 1]
<1> DEFINE a == SubSeq(s, 1, m - 1)
           b == SubSeq(s, m + 1, Len(s))
           d == a \o b
<1>0. Len(s) \in Nat /\ m \in Nat
  OBVIOUS
<1>1. a \in Seq(Int) /\ Len(a) = m - 1 /\ \A i \in 1 .. m - 1 : a[i] = s[i]
  <2>1. CASE m = 1
    BY <2>1
  <2>2. CASE m > 1
    BY <2>2
  <2> QED BY <2>1, <2>2
<1>2. b \in Seq(Int) /\ Len(b) = Len(s) - m /\ \A i \in 1 .. Len(s) - m : b[i] = s[m + i]
  <2>1. CASE m = Len(s)
    BY <2>1
  <2>2. CASE m < Len(s)
    BY <2>2
  <2> QED BY <2>1, <2>2
<1>3. RemoveAt(s, m) = d
  BY DEF RemoveAt
<1> HIDE DEF a, b
<1>4. /\ Len(d) = Len(s) - 1 /\ d \in Seq(Int)
      /\ \A i \in 1 .. Len(s) - 1 : d[i] = IF i <= m - 1 THEN a[i] ELSE b[i - (m - 1)]
  <2>1. /\ Len(d) = Len(a) + Len(b) /\ d \in Seq(Int)
        /\ \A i \in 1 .. Len(a) + Len(b) : d[i] = IF i <= Len(a) THEN a[i] ELSE b[i - Len(a)]
    BY <1>1, <1>2, ConcatProperties
  <2> HIDE DEF d
  <2>2. Len(a) + Len(b) = Len(s) - 1
    BY <1>1, <1>2
  <2> QED BY <1>1, <2>1, <2>2
<1> HIDE DEF d
<1>5. ASSUME NEW i \in 1 .. Len(s) - 1
      PROVE  d[i] = IF i < m THEN s[i] ELSE s[i + 1]
  <2>1. CASE i < m
    BY <1>1, <1>4, <2>1
  <2>2. CASE i >= m
    <3>1. d[i] = b[i - (m - 1)]
      BY <1>0, <1>4, <2>2
    <3>2. i - (m - 1) \in 1 .. Len(s) - m /\ m + (i - (m - 1)) = i + 1
      BY <2>2
    <3>3. b[i - (m - 1)] = s[m + (i - (m - 1))]
      BY <1>2, <3>2
    <3> QED BY <2>2, <3>1, <3>2, <3>3
  <2> QED BY <1>0, <2>1, <2>2
<1> QED BY <1>0, <1>3, <1>4, <1>5

\* How many keys are below a bound says where the bound falls.
LEMMA CountsBelow ==
    ASSUME NEW n \in Nat, NEW T \in SUBSET (1 .. n),
           \A i \in T : \A j \in 1 .. i : j \in T
    PROVE  /\ Cardinality(T) \in 0 .. n
           /\ \A i \in 1 .. n : i \in T <=> i <= Cardinality(T)
<1> DEFINE U == (1 .. n + 1) \ T
           m == Min(U)
<1>1. m \in U /\ \A y \in U : m <= y
  <2>1. U \in SUBSET Nat /\ n + 1 \in U
    OBVIOUS
  <2> HIDE DEF U
  <2> QED BY <2>1, LeastNat
<1> HIDE DEF m
<1>2. T = 1 .. m - 1
  <2>1. m \in 1 .. n + 1 /\ m \notin T /\ \A y \in 1 .. m - 1 : y \in T
    BY <1>1
  <2>2. \A y \in T : y \in 1 .. n /\ y < m
    BY <2>1
  <2>3. \A y \in T : y \in 1 .. m - 1
    BY <2>1, <2>2
  <2> QED BY <2>1, <2>3
<1>3. Cardinality(T) = m - 1
  <2>1. m \in 1 .. n + 1
    BY <1>1
  <2>2. Cardinality(1 .. m - 1) = IF 1 > m - 1 THEN 0 ELSE (m - 1) - 1 + 1
    BY <2>1, FS_Interval
  <2> QED BY <1>2, <2>1, <2>2
<1> QED BY <1>1, <1>2, <1>3

LEMMA InsortPlace ==
    ASSUME NEW keys \in Seq(Int), Ascending(keys), NEW k \in Int
    PROVE  \E m \in 0 .. Len(keys) :
             /\ Insort(keys, k) = InsertAt(keys, m + 1, k)
             /\ \A i \in 1 .. Len(keys) : keys[i] <= k <=> i <= m
<1> DEFINE T == {i \in DOMAIN keys : keys[i] <= k}
           m == Cardinality(T)
<1>1. Len(keys) \in Nat /\ DOMAIN keys = 1 .. Len(keys) /\ \A i \in 1 .. Len(keys) : keys[i] \in Int
  OBVIOUS
<1>2. T \in SUBSET (1 .. Len(keys)) /\ \A i \in T : \A j \in 1 .. i : j \in T
  BY <1>1 DEF Ascending
<1>3. m \in 0 .. Len(keys) /\ \A i \in 1 .. Len(keys) : i \in T <=> i <= m
  <2> HIDE DEF T
  <2> QED BY <1>1, <1>2, CountsBelow
<1>4. Insort(keys, k) = InsertAt(keys, m + 1, k)
  BY DEF Insort
<1> HIDE DEF m
<1> QED BY <1>1, <1>3, <1>4

LEMMA BisectPlace ==
    ASSUME NEW keys \in Seq(Int), Ascending(keys), NEW n \in 1 .. Len(keys)
    PROVE  BisectLeft(keys, keys[n]) = n
<1> DEFINE T == {i \in DOMAIN keys : keys[i] < keys[n]}
<1>1. Len(keys) \in Nat /\ DOMAIN keys = 1 .. Len(keys) /\ \A i \in 1 .. Len(keys) : keys[i] \in Int
  OBVIOUS
<1>2. T = 1 .. n - 1
  BY <1>1 DEF Ascending
<1>3. Cardinality(1 .. n - 1) = n - 1
  <2>1. Cardinality(1 .. n - 1) = IF 1 > n - 1 THEN 0 ELSE (n - 1) - 1 + 1
    BY <1>1, FS_Interval
  <2> QED BY <1>1, <2>1
<1>4. BisectLeft(keys, keys[n]) = Cardinality(T) + 1
  BY DEF BisectLeft
<1> HIDE DEF T
<1> QED BY <1>1, <1>2, <1>3, <1>4
-----------------------------------------------------------------------------
(***************************************************************************)
(* The inductive invariant.                                                *)
(*                                                                         *)
(* GoodSide says of one side what it must be for the orders O, of which    *)
(* those in A rest, with R the remaining quantities and Q the insertion    *)
(* sequences of the entries; it is stated about values, not about the      *)
(* variables, so that it can be used of the state before and after a step. *)
(***************************************************************************)
Level == [queue : Seq(Ids), quantity : Nat, dead : Nat]
Entry == [remaining : Nat, sequence : Nat, restedAt : Nat, alive : BOOLEAN]
CallType == [op : {"none", "submit", "cancel", "read", "best_price"}, phase : {"expire", "body"},
             id : 0 .. MaxOrders, rem : Nat, trades : Seq(Trade), deadline : Int]

AliveIn(E) == {o \in Ids : E[o].alive}
RemainingIn(E) == [o \in Ids |-> E[o].remaining]
SequenceIn(E) == [o \in Ids |-> E[o].sequence]

\* The orders resting on a side, and those at one of its prices.
OfSide(A, O, sd) == {o \in A : O[o].side = sd}
AtPrice(A, O, sd, p) == {o \in OfSide(A, O, sd) : O[o].price = p}
Only(R, T) == [o \in Ids |-> IF o \in T THEN R[o] ELSE 0]

\* A queue holds the resting orders of its price, and dead ones, in the order
\* in which they arrived; dead counts the dead, quantity what the others have left.
GoodLevel(L, sd, p, A, R, Q, O) ==
    /\ L \in Level
    /\ \A i \in 1 .. Len(L.queue) :
         Q[L.queue[i]] > 0 /\ O[L.queue[i]].side = sd /\ O[L.queue[i]].price = p
    /\ \A i, j \in 1 .. Len(L.queue) : i < j => Q[L.queue[i]] < Q[L.queue[j]]
    /\ \A o \in AtPrice(A, O, sd, p) : \E i \in 1 .. Len(L.queue) : L.queue[i] = o
    /\ L.dead = Len(L.queue) - Cardinality(AtPrice(A, O, sd, p))
    /\ Adds(Only(R, AtPrice(A, O, sd, p)), L.quantity)

\* The sorted keys are those of the prices that have a level.
Shape(S, sd) ==
    /\ S = [keys |-> S.keys, levels |-> S.levels, total |-> S.total]
    /\ S.keys \in Seq(Int) /\ Ascending(S.keys)
    /\ DOMAIN S.levels = {PriceOf(sd, S.keys[i]) : i \in 1 .. Len(S.keys)}

GoodSide(S, sd, A, R, Q, O) ==
    /\ Shape(S, sd)
    /\ DOMAIN S.levels \subseteq Prices
    /\ \A p \in DOMAIN S.levels : GoodLevel(S.levels[p], sd, p, A, R, Q, O)
    /\ \A o \in OfSide(A, O, sd) : O[o].price \in DOMAIN S.levels
    /\ Adds(Only(R, OfSide(A, O, sd)), S.total)

\* A level of S2 without quantity was without it in S.
NoneEmptied(S2, S) ==
    \A x \in DOMAIN S2.levels :
        S2.levels[x].quantity = 0 => x \in DOMAIN S.levels /\ S.levels[x].quantity = 0

\* A step that leaves no level behind without the quantity it had.
NothingEmptied == \A sd \in Sides : NoneEmptied(sides'[sd], sides[sd])

TypeInv ==
    /\ issued \in 0 .. MaxOrders
    /\ order \in [Ids -> Order \cup {NoOrder}] /\ \A o \in 1 .. issued : order[o] \in Order
    /\ entry \in [Ids -> Entry]
    /\ DOMAIN sides = Sides /\ sides = [sd \in Sides |-> sides[sd]]
    /\ index \subseteq Ids /\ arrivals \in Seq(Ids)
    /\ sequence \in Nat /\ now \in Nat
    /\ recent \in Seq(Trade) /\ Len(recent) <= RecentTradeCapacity
    /\ filled \in [Ids -> Nat] /\ withdrawn \in [Ids -> Nat]
    /\ call \in CallType

\* An order has an entry once it rested; one that is being submitted has none.
EntryInv ==
    /\ index = AliveIn(entry)
    /\ \A o \in Ids :
         /\ entry[o].alive => entry[o].remaining > 0 /\ entry[o].sequence > 0
         /\ entry[o].sequence > 0 => o <= issued /\ ~(call.op = "submit" /\ call.id = o)
         /\ entry[o].sequence <= sequence /\ entry[o].restedAt <= now

CallInv ==
    /\ call.op \in {"submit", "cancel"} => call.id \in 1 .. issued
    /\ call.op # "none" /\ call.phase = "body" /\ MaxAge > 0 =>
         \A o \in AliveIn(entry) : entry[o].restedAt > call.deadline

\* The deque of arrivals: who rests is in it, the oldest first.
ArrivalInv ==
    /\ MaxAge = 0 => arrivals = << >>
    /\ MaxAge > 0 => \A o \in AliveIn(entry) : \E i \in 1 .. Len(arrivals) : arrivals[i] = o
    /\ \A i \in 1 .. Len(arrivals) : entry[arrivals[i]].sequence > 0
    /\ \A i, j \in 1 .. Len(arrivals) :
         i < j => entry[arrivals[i]].restedAt <= entry[arrivals[j]].restedAt

SidesInv ==
    \A sd \in Sides :
        GoodSide(sides[sd], sd, AliveIn(entry), RemainingIn(entry), SequenceIn(entry), order)

Inv == TypeInv /\ EntryInv /\ CallInv /\ ArrivalInv /\ SidesInv

-----------------------------------------------------------------------------
(* Keys, queues and sides as values *)

LEMMA KeyInverse ==
    ASSUME NEW sd \in Sides, NEW k \in Int
    PROVE  /\ Key(sd, k) \in Int /\ PriceOf(sd, k) \in Int
           /\ Key(sd, PriceOf(sd, k)) = k /\ PriceOf(sd, Key(sd, k)) = k
BY DEF Sides, Key, PriceOf

LEMMA IdsFinite == IsFiniteSet(Ids)
BY FS_Interval, BoundAssumption DEF Ids

LEMMA OnlyTyped ==
    ASSUME NEW R \in [Ids -> Nat], NEW T
    PROVE  Only(R, T) \in [Ids -> Nat]
BY DEF Only

\* A sequence in which every member of a set occurs is as long as the set is
\* large, and no longer if it holds nothing else and nothing twice.
LEMMA ListsAll ==
    ASSUME NEW q \in Seq(Ids), NEW T \in SUBSET Ids,
           \A o \in T : \E i \in 1 .. Len(q) : q[i] = o
    PROVE  Cardinality(T) \in Nat /\ Cardinality(T) <= Len(q)
<1>1. IsFiniteSet(T)
  BY IdsFinite, FS_Subset
<1>2. Cardinality(T) \in Nat
  BY <1>1, FS_CardinalityType
<1> DEFINE f == [o \in T |-> CHOOSE i \in 1 .. Len(q) : q[i] = o]
<1>3. \A o \in T : f[o] \in 1 .. Len(q) /\ q[f[o]] = o
  OBVIOUS
<1>4. f \in [T -> 1 .. Len(q)]
  BY <1>3
<1> HIDE DEF f
<1>5. f \in Injection(T, 1 .. Len(q))
  BY <1>3, <1>4 DEF Injection, IsInjective
<1>6. Len(q) \in Nat
  OBVIOUS
<1>7. IsFiniteSet(1 .. Len(q)) /\ Cardinality(1 .. Len(q)) = Len(q)
  <2>1. IsFiniteSet(1 .. Len(q)) /\ Cardinality(1 .. Len(q)) = IF 1 > Len(q) THEN 0 ELSE Len(q) - 1 + 1
    BY <1>6, FS_Interval
  <2> QED BY <1>6, <2>1
<1>8. Cardinality(T) <= Cardinality(1 .. Len(q))
  BY <1>5, <1>7, FS_Injection
<1> QED BY <1>2, <1>7, <1>8

LEMMA ListsExactly ==
    ASSUME NEW q \in Seq(Ids), NEW T \in SUBSET Ids,
           \A o \in T : \E i \in 1 .. Len(q) : q[i] = o,
           \A i \in 1 .. Len(q) : q[i] \in T,
           \A i, j \in 1 .. Len(q) : q[i] = q[j] => i = j
    PROVE  Cardinality(T) = Len(q)
<1>1. Len(q) \in Nat /\ q \in [1 .. Len(q) -> T]
  OBVIOUS
<1>2. q \in Bijection(1 .. Len(q), T)
  BY <1>1 DEF Bijection, Injection, IsInjective, Surjection
<1>3. ExistsBijection(1 .. Len(q), T)
  BY <1>2 DEF ExistsBijection
<1> QED BY <1>1, <1>3, FS_CountingElements

\* What a level and a side say of orders that nothing happened to is kept.
LEMMA LevelFrame ==
    ASSUME NEW L, NEW sd, NEW p, NEW A, NEW R, NEW Q, NEW O, NEW A2, NEW R2, NEW Q2, NEW O2,
           GoodLevel(L, sd, p, A, R, Q, O),
           AtPrice(A2, O2, sd, p) = AtPrice(A, O, sd, p),
           \A o \in AtPrice(A, O, sd, p) : R2[o] = R[o],
           \A o \in Ids : Q[o] > 0 => Q2[o] = Q[o] /\ O2[o] = O[o]
    PROVE  GoodLevel(L, sd, p, A2, R2, Q2, O2)
<1>1. Only(R2, AtPrice(A2, O2, sd, p)) = Only(R, AtPrice(A, O, sd, p))
  BY DEF Only
<1>2. L \in Level /\ \A i \in 1 .. Len(L.queue) : L.queue[i] \in Ids
  BY DEF GoodLevel, Level
<1>3. \A i \in 1 .. Len(L.queue) :
        Q2[L.queue[i]] > 0 /\ O2[L.queue[i]].side = sd /\ O2[L.queue[i]].price = p
  BY <1>2 DEF GoodLevel
<1>4. \A i, j \in 1 .. Len(L.queue) : i < j => Q2[L.queue[i]] < Q2[L.queue[j]]
  BY <1>2 DEF GoodLevel
<1> QED BY <1>1, <1>2, <1>3, <1>4 DEF GoodLevel

LEMMA SideFrame ==
    ASSUME NEW S, NEW sd, NEW A, NEW R, NEW Q, NEW O, NEW A2, NEW R2, NEW Q2, NEW O2,
           GoodSide(S, sd, A, R, Q, O),
           OfSide(A2, O2, sd) = OfSide(A, O, sd),
           \A o \in OfSide(A, O, sd) : R2[o] = R[o] /\ O2[o] = O[o],
           \A o \in Ids : Q[o] > 0 => Q2[o] = Q[o] /\ O2[o] = O[o]
    PROVE  GoodSide(S, sd, A2, R2, Q2, O2)
<1>1. \A p : AtPrice(A2, O2, sd, p) = AtPrice(A, O, sd, p)
  BY DEF AtPrice
<1>2. \A p : \A o \in AtPrice(A, O, sd, p) : R2[o] = R[o]
  BY DEF AtPrice
<1>3. \A p \in DOMAIN S.levels : GoodLevel(S.levels[p], sd, p, A2, R2, Q2, O2)
  <2>1. \A p \in DOMAIN S.levels : GoodLevel(S.levels[p], sd, p, A, R, Q, O)
    BY DEF GoodSide
  <2> QED BY <1>1, <1>2, <2>1, LevelFrame
<1>4. Only(R2, OfSide(A2, O2, sd)) = Only(R, OfSide(A, O, sd))
  BY DEF Only
<1> QED BY <1>3, <1>4 DEF GoodSide

-----------------------------------------------------------------------------
(* Levels come and go *)

LEMMA ShapeKeys ==
    ASSUME NEW S, NEW sd \in Sides, Shape(S, sd)
    PROVE  /\ Len(S.keys) \in Nat
           /\ \A i \in 1 .. Len(S.keys) : S.keys[i] \in Int /\ PriceOf(sd, S.keys[i]) \in DOMAIN S.levels
           /\ \A p \in DOMAIN S.levels : \E i \in 1 .. Len(S.keys) : S.keys[i] = Key(sd, p) /\ p = PriceOf(sd, S.keys[i])
           /\ \A i, j \in 1 .. Len(S.keys) : S.keys[i] = S.keys[j] => i = j
<1>1. Len(S.keys) \in Nat /\ \A i \in 1 .. Len(S.keys) : S.keys[i] \in Int
  BY DEF Shape
<1>2. \A p \in DOMAIN S.levels : \E i \in 1 .. Len(S.keys) : p = PriceOf(sd, S.keys[i])
  BY DEF Shape
<1>3. ASSUME NEW p \in DOMAIN S.levels
      PROVE  \E i \in 1 .. Len(S.keys) : S.keys[i] = Key(sd, p) /\ p = PriceOf(sd, S.keys[i])
  <2>1. PICK i \in 1 .. Len(S.keys) : p = PriceOf(sd, S.keys[i])
    BY <1>2
  <2>2. Key(sd, PriceOf(sd, S.keys[i])) = S.keys[i]
    BY <1>1, KeyInverse
  <2> QED BY <2>1, <2>2
<1>4. \A i, j \in 1 .. Len(S.keys) : S.keys[i] = S.keys[j] => i = j
  BY <1>1 DEF Shape, Ascending
<1> QED BY <1>1, <1>3, <1>4 DEF Shape

LEMMA ShapeDrop ==
    ASSUME NEW S, NEW sd \in Sides, Shape(S, sd), NEW p \in DOMAIN S.levels,
           NEW S2, S2 = DropLevel(S, sd, p)
    PROVE  /\ Shape(S2, sd)
           /\ DOMAIN S2.levels = DOMAIN S.levels \ {p}
           /\ \A x \in DOMAIN S2.levels : S2.levels[x] = S.levels[x]
           /\ S2.total = S.total
<1>1. PICK n \in 1 .. Len(S.keys) : S.keys[n] = Key(sd, p) /\ p = PriceOf(sd, S.keys[n])
  BY ShapeKeys
<1>2. BisectLeft(S.keys, Key(sd, p)) = n
  BY <1>1, BisectPlace DEF Shape
<1> DEFINE keys == RemoveAt(S.keys, n)
           levels == Restrict(S.levels, DOMAIN S.levels \ {p})
<1>3. S2 = [keys |-> keys, levels |-> levels, total |-> S.total]
  <2>1. S2 = [S EXCEPT !.keys = keys, !.levels = levels]
    BY <1>2 DEF DropLevel
  <2>2. S = [keys |-> S.keys, levels |-> S.levels, total |-> S.total]
    BY DEF Shape
  <2> HIDE DEF keys, levels
  <2> QED BY <2>1, <2>2
<1>4. DOMAIN levels = DOMAIN S.levels \ {p} /\ \A x \in DOMAIN levels : levels[x] = S.levels[x]
  BY DEF Restrict
<1>5. /\ keys \in Seq(Int) /\ Len(keys) = Len(S.keys) - 1
      /\ \A i \in 1 .. Len(S.keys) - 1 : keys[i] = IF i < n THEN S.keys[i] ELSE S.keys[i + 1]
  BY Removed DEF Shape
<1> HIDE DEF keys, levels
<1>6. Ascending(keys)
  <2> SUFFICES ASSUME NEW i \in 1 .. Len(keys), NEW j \in 1 .. Len(keys), i < j
               PROVE  keys[i] < keys[j]
    BY DEF Ascending
  <2>1. Len(S.keys) \in Nat /\ n \in Nat
    BY ShapeKeys
  <2>2. i + 1 \in 1 .. Len(S.keys) /\ j + 1 \in 1 .. Len(S.keys) /\ i \in 1 .. Len(S.keys) /\ j \in 1 .. Len(S.keys)
    BY <1>5, <2>1
  <2>3. keys[i] = (IF i < n THEN S.keys[i] ELSE S.keys[i + 1]) /\ keys[j] = IF j < n THEN S.keys[j] ELSE S.keys[j + 1]
    BY <1>5
  <2>4. S.keys[i] < S.keys[j] /\ S.keys[i] < S.keys[j + 1] /\ S.keys[i + 1] < S.keys[j + 1]
    <3>1. \A k, l \in 1 .. Len(S.keys) : k < l => S.keys[k] < S.keys[l]
      BY DEF Shape, Ascending
    <3>2. i < j + 1 /\ i + 1 < j + 1
      BY <2>1, <2>2
    <3> QED BY <2>2, <3>1, <3>2
  <2> QED BY <2>1, <2>2, <2>3, <2>4
<1>7. DOMAIN levels = {PriceOf(sd, keys[i]) : i \in 1 .. Len(keys)}
  <2>1. ASSUME NEW x \in DOMAIN S.levels, x # p
        PROVE  \E i \in 1 .. Len(keys) : x = PriceOf(sd, keys[i])
    <3>1. PICK i \in 1 .. Len(S.keys) : S.keys[i] = Key(sd, x) /\ x = PriceOf(sd, S.keys[i])
      BY ShapeKeys
    <3>2. i # n
      BY <1>1, <2>1, <3>1
    <3>3. Len(S.keys) \in Nat
      BY ShapeKeys
    <3>4. CASE i < n
      BY <1>5, <3>1, <3>3, <3>4
    <3>5. CASE i > n
      <4>1. i - 1 \in 1 .. Len(S.keys) - 1 /\ keys[i - 1] = S.keys[i]
        BY <1>5, <3>3, <3>5
      <4> QED BY <1>5, <3>1, <4>1
    <3> QED BY <3>2, <3>3, <3>4, <3>5
  <2>2. ASSUME NEW i \in 1 .. Len(keys)
        PROVE  PriceOf(sd, keys[i]) \in DOMAIN S.levels /\ PriceOf(sd, keys[i]) # p
    <3> DEFINE j == IF i < n THEN i ELSE i + 1
    <3>1. j \in 1 .. Len(S.keys) /\ j # n /\ keys[i] = S.keys[j]
      <4>1. Len(S.keys) \in Nat
        BY ShapeKeys
      <4> QED BY <1>5, <4>1
    <3> HIDE DEF j
    <3>2. PriceOf(sd, S.keys[j]) \in DOMAIN S.levels /\ S.keys[j] # S.keys[n] /\ S.keys[j] \in Int /\ S.keys[n] \in Int
      BY <3>1, ShapeKeys
    <3>3. PriceOf(sd, S.keys[j]) # PriceOf(sd, S.keys[n])
      <4>1. /\ Key(sd, PriceOf(sd, S.keys[j])) = S.keys[j]
            /\ Key(sd, PriceOf(sd, S.keys[n])) = S.keys[n]
        BY <3>2, KeyInverse
      <4> QED BY <3>2, <4>1
    <3> QED BY <1>1, <3>1, <3>2, <3>3
  <2> QED BY <1>4, <2>1, <2>2
<1>8. S2.keys = keys /\ S2.levels = levels /\ S2.total = S.total
  BY <1>3
<1> QED BY <1>3, <1>4, <1>5, <1>6, <1>7, <1>8 DEF Shape

Values(A, R, Q) == A \in SUBSET Ids /\ R \in [Ids -> Nat] /\ Q \in [Ids -> Nat]

LEMMA AtPriceTypes ==
    ASSUME NEW A \in SUBSET Ids, NEW O, NEW sd, NEW p
    PROVE  /\ OfSide(A, O, sd) \in SUBSET Ids
           /\ AtPrice(A, O, sd, p) \in SUBSET Ids
           /\ IsFiniteSet(AtPrice(A, O, sd, p)) /\ Cardinality(AtPrice(A, O, sd, p)) \in Nat
           /\ \A o : o \in AtPrice(A, O, sd, p) <=> o \in A /\ O[o].side = sd /\ O[o].price = p
<1>1. OfSide(A, O, sd) \in SUBSET Ids /\ AtPrice(A, O, sd, p) \in SUBSET Ids
  BY DEF AtPrice, OfSide
<1>2. IsFiniteSet(AtPrice(A, O, sd, p))
  BY <1>1, IdsFinite, FS_Subset
<1>3. Cardinality(AtPrice(A, O, sd, p)) \in Nat
  BY <1>2, FS_CardinalityType
<1> QED BY <1>1, <1>2, <1>3 DEF AtPrice, OfSide

\* The quantities of a set of orders, when the contribution of o alone changes.
Elsewhere(R2, R, o) == \A x \in Ids : x # o => R2[x] = R[x]
Differ(R, T, R2, T2, o) == \A x \in Ids : x # o => (x \in T2 <=> x \in T) /\ R2[x] = R[x]

LEMMA OnlyPut ==
    ASSUME NEW R \in [Ids -> Nat], NEW R2 \in [Ids -> Nat], NEW T, NEW T2, NEW o \in Ids,
           Differ(R, T, R2, T2, o), NEW n, Adds(Only(R, T), n),
           NEW m, m = n - Only(R, T)[o] + Only(R2, T2)[o]
    PROVE  Adds(Only(R2, T2), m)
<1>1. Only(R, T) \in [Ids -> Nat] /\ Only(R2, T2)[o] \in Nat
  BY OnlyTyped
<1>2. \A x \in Ids : Only(R2, T2)[x] = IF x = o THEN Only(R2, T2)[o] ELSE Only(R, T)[x]
  BY DEF Only, Differ
<1> QED BY <1>1, <1>2, AddsPut

LEMMA OnlyAt ==
    ASSUME NEW R, NEW T, NEW o \in Ids
    PROVE  (o \in T => Only(R, T)[o] = R[o]) /\ (o \notin T => Only(R, T)[o] = 0)
BY DEF Only

LEMMA OnlyBounds ==
    ASSUME NEW R \in [Ids -> Nat], NEW T, NEW n, Adds(Only(R, T), n)
    PROVE  n \in Nat /\ \A o \in Ids : o \in T => R[o] <= n
<1>1. Only(R, T) \in [Ids -> Nat] /\ \A o \in Ids : o \in T => Only(R, T)[o] = R[o]
  BY OnlyTyped DEF Only
<1> QED BY <1>1, AddsBounds

\* An order joins the end of a queue.
LEMMA LevelGrows ==
    ASSUME NEW L, NEW sd, NEW p, NEW A, NEW R, NEW Q, NEW O, Values(A, R, Q),
           GoodLevel(L, sd, p, A, R, Q, O),
           NEW o \in Ids, o \notin A, Q[o] = 0, O[o].side = sd, O[o].price = p,
           NEW q \in Nat, NEW n \in Nat, \A x \in Ids : Q[x] < n,
           NEW L2, L2 = [L EXCEPT !.queue = Append(@, o), !.quantity = @ + q]
    PROVE  GoodLevel(L2, sd, p, A \cup {o}, [R EXCEPT ![o] = q], [Q EXCEPT ![o] = n], O)
<1> DEFINE T == AtPrice(A, O, sd, p)
           T2 == AtPrice(A \cup {o}, O, sd, p)
           R2 == [R EXCEPT ![o] = q]
           Q2 == [Q EXCEPT ![o] = n]
<1>1. /\ L.queue \in Seq(Ids) /\ Len(L.queue) \in Nat /\ L.quantity \in Nat /\ L.dead \in Nat
      /\ \A i \in 1 .. Len(L.queue) : L.queue[i] \in Ids
  BY DEF GoodLevel, Level
<1>2. L2.queue = Append(L.queue, o) /\ L2.quantity = L.quantity + q /\ L2.dead = L.dead /\ L2 \in Level
  <2>1. L \in Level
    BY DEF GoodLevel
  <2>2. L2.queue = Append(L.queue, o) /\ L2.quantity = L.quantity + q /\ L2.dead = L.dead
    BY <2>1 DEF Level
  <2>3. Append(L.queue, o) \in Seq(Ids)
    BY <1>1
  <2>4. L2 = [queue |-> Append(L.queue, o), quantity |-> L.quantity + q, dead |-> L.dead]
    BY <2>1 DEF Level
  <2> QED BY <1>1, <2>2, <2>3, <2>4 DEF Level
<1>3. Len(L2.queue) = Len(L.queue) + 1 /\ \A i \in 1 .. Len(L.queue) : L2.queue[i] = L.queue[i]
      /\ L2.queue[Len(L.queue) + 1] = o
  BY <1>1, <1>2
<1>4. T2 = T \cup {o} /\ o \notin T
  BY DEF AtPrice, OfSide
<1>5. \A x \in Ids : (x # o => R2[x] = R[x] /\ Q2[x] = Q[x]) /\ R2[o] = q /\ Q2[o] = n
  BY DEF Values
<1>6. \A i \in 1 .. Len(L.queue) : /\ L.queue[i] # o /\ Q2[L.queue[i]] = Q[L.queue[i]] /\ Q[L.queue[i]] < n
                                   /\ Q[L.queue[i]] > 0
  BY <1>1, <1>5 DEF GoodLevel
<1>7. \A i \in 1 .. Len(L2.queue) : i \in 1 .. Len(L.queue) \/ i = Len(L.queue) + 1
  BY <1>1, <1>3
<1>8. \A i \in 1 .. Len(L2.queue) : Q2[L2.queue[i]] > 0 /\ O[L2.queue[i]].side = sd /\ O[L2.queue[i]].price = p
  <2>1. \A i \in 1 .. Len(L.queue) : Q[L.queue[i]] > 0 /\ O[L.queue[i]].side = sd /\ O[L.queue[i]].price = p
    BY DEF GoodLevel
  <2>2. n > 0
    BY DEF Values
  <2> HIDE DEF Q2
  <2> QED BY <1>3, <1>5, <1>6, <1>7, <2>1, <2>2
<1>9. \A i, j \in 1 .. Len(L2.queue) : i < j => Q2[L2.queue[i]] < Q2[L2.queue[j]]
  <2> SUFFICES ASSUME NEW i \in 1 .. Len(L2.queue), NEW j \in 1 .. Len(L2.queue), i < j
               PROVE  Q2[L2.queue[i]] < Q2[L2.queue[j]]
    OBVIOUS
  <2> HIDE DEF Q2
  <2>1. i \in 1 .. Len(L.queue)
    BY <1>1, <1>3
  <2>2. CASE j = Len(L.queue) + 1
    BY <1>3, <1>5, <1>6, <2>1, <2>2
  <2>3. CASE j \in 1 .. Len(L.queue)
    BY <1>3, <1>6, <2>1, <2>3 DEF GoodLevel
  <2> QED BY <1>7, <2>2, <2>3
<1>10. \A x \in T2 : \E i \in 1 .. Len(L2.queue) : L2.queue[i] = x
  <2>1. ASSUME NEW x \in T PROVE \E i \in 1 .. Len(L2.queue) : L2.queue[i] = x
    <3>1. PICK i \in 1 .. Len(L.queue) : L.queue[i] = x
      BY DEF GoodLevel
    <3> QED BY <1>1, <1>3, <3>1
  <2>2. \E i \in 1 .. Len(L2.queue) : L2.queue[i] = o
    BY <1>1, <1>3
  <2> QED BY <1>4, <2>1, <2>2
<1>11. L2.dead = Len(L2.queue) - Cardinality(T2)
  <2>1. IsFiniteSet(T) /\ Cardinality(T) \in Nat
    BY AtPriceTypes DEF Values
  <2>2. L.dead = Len(L.queue) - Cardinality(T)
    BY DEF GoodLevel
  <2> HIDE DEF T, T2
  <2>3. Cardinality(T2) = Cardinality(T) + 1
    BY <1>4, <2>1, FS_AddElement
  <2>4. L2.dead = L.dead /\ Len(L2.queue) = Len(L.queue) + 1 /\ Len(L.queue) \in Nat /\ L.dead \in Nat
    BY <1>1, <1>2, <1>3
  <2> QED BY <2>1, <2>2, <2>3, <2>4
<1>12. Adds(Only(R2, T2), L2.quantity)
  <2>1. Adds(Only(R, T), L.quantity) /\ R \in [Ids -> Nat] /\ R2 \in [Ids -> Nat]
    BY DEF GoodLevel, Values
  <2> HIDE DEF T, T2, R2
  <2>2. Differ(R, T, R2, T2, o)
    BY <1>4, <1>5 DEF Differ
  <2>3. Only(R, T)[o] = 0 /\ Only(R2, T2)[o] = q
    BY <1>4, <1>5, OnlyAt
  <2>4. L2.quantity = L.quantity - Only(R, T)[o] + Only(R2, T2)[o]
    BY <1>1, <1>2, <2>3
  <2> QED BY <2>1, <2>2, <2>4, OnlyPut
<1> QED BY <1>2, <1>8, <1>9, <1>10, <1>11, <1>12 DEF GoodLevel

\* A price at which nothing rests has an empty level.
LEMMA LevelEmpty ==
    ASSUME NEW sd, NEW p, NEW A, NEW R, NEW Q, NEW O, Values(A, R, Q), AtPrice(A, O, sd, p) = {}
    PROVE  GoodLevel(EmptyLevel, sd, p, A, R, Q, O)
<1>1. EmptyLevel.queue = << >> /\ EmptyLevel.quantity = 0 /\ EmptyLevel.dead = 0 /\ EmptyLevel \in Level
  BY DEF EmptyLevel, Level
<1>2. Len(EmptyLevel.queue) = 0
  BY <1>1
<1>3. Cardinality(AtPrice(A, O, sd, p)) = 0
  BY FS_EmptySet
<1>4. Adds(Only(R, AtPrice(A, O, sd, p)), 0)
  BY AddsZero DEF Only
<1> QED BY <1>1, <1>2, <1>3, <1>4 DEF GoodLevel

\* Where nothing is left, nothing rests.
LEMMA NothingLeft ==
    ASSUME NEW L, NEW sd, NEW p, NEW A, NEW R, NEW Q, NEW O, Values(A, R, Q), \A o \in A : R[o] > 0,
           GoodLevel(L, sd, p, A, R, Q, O), L.quantity = 0
    PROVE  AtPrice(A, O, sd, p) = {}
<1>1. \A o \in Ids : o \in AtPrice(A, O, sd, p) => R[o] <= 0
  BY OnlyBounds DEF Values, GoodLevel
<1>2. \A o \in AtPrice(A, O, sd, p) : o \in Ids /\ R[o] > 0 /\ R[o] \in Nat
  BY DEF Values, AtPrice, OfSide
<1> QED BY <1>1, <1>2

\* q2 is what is left of q when some elements are taken out; e says where it was.
Thinned(q2, q) ==
    \E e \in [1 .. Len(q2) -> 1 .. Len(q)] :
        /\ \A i \in 1 .. Len(q2) : q2[i] = q[e[i]]
        /\ \A i, j \in 1 .. Len(q2) : i < j => e[i] < e[j]

\* A level L2 that is L without some orders that do not rest any more.
ThinnedLevel(L2, L, sd, p, A2, R2, O) ==
    /\ L2 = [queue |-> L2.queue, quantity |-> L2.quantity, dead |-> L2.dead]
    /\ L2.queue \in Seq(Ids) /\ Thinned(L2.queue, L.queue)
    /\ \A o \in AtPrice(A2, O, sd, p) : \E i \in 1 .. Len(L2.queue) : L2.queue[i] = o
    /\ L2.dead = Len(L2.queue) - Cardinality(AtPrice(A2, O, sd, p))
    /\ Adds(Only(R2, AtPrice(A2, O, sd, p)), L2.quantity)

LEMMA LevelThins ==
    ASSUME NEW L, NEW sd, NEW p, NEW A, NEW R, NEW Q, NEW O, Values(A, R, Q),
           GoodLevel(L, sd, p, A, R, Q, O),
           NEW A2 \in SUBSET A, NEW R2 \in [Ids -> Nat],
           NEW L2, ThinnedLevel(L2, L, sd, p, A2, R2, O)
    PROVE  GoodLevel(L2, sd, p, A2, R2, Q, O)
<1> USE DEF ThinnedLevel
<1> DEFINE T == AtPrice(A2, O, sd, p)
           q2 == L2.queue
<1>1. PICK e \in [1 .. Len(q2) -> 1 .. Len(L.queue)] :
        /\ \A i \in 1 .. Len(q2) : q2[i] = L.queue[e[i]]
        /\ \A i, j \in 1 .. Len(q2) : i < j => e[i] < e[j]
  BY DEF Thinned
<1>2. T \in SUBSET Ids
  BY AtPriceTypes DEF Values
<1>3. Cardinality(T) \in Nat /\ Cardinality(T) <= Len(q2)
  <2> HIDE DEF T
  <2>1. \A o \in T : \E i \in 1 .. Len(q2) : q2[i] = o
    BY DEF T
  <2> QED BY <1>2, <2>1, ListsAll
<1>4. L2.quantity \in Nat
  BY OnlyBounds
<1>5. L2 \in Level
  <2>1. Len(q2) - Cardinality(T) \in Nat
    BY <1>3
  <2> QED BY <1>4, <2>1 DEF Level
<1> HIDE DEF q2
<1>6. \A i \in 1 .. Len(q2) : Q[q2[i]] > 0 /\ O[q2[i]].side = sd /\ O[q2[i]].price = p
  <2>1. \A i \in 1 .. Len(L.queue) : Q[L.queue[i]] > 0 /\ O[L.queue[i]].side = sd /\ O[L.queue[i]].price = p
    BY DEF GoodLevel
  <2>2. \A i \in 1 .. Len(q2) : e[i] \in 1 .. Len(L.queue) /\ q2[i] = L.queue[e[i]]
    BY <1>1
  <2> QED BY <2>1, <2>2
<1>7. \A i, j \in 1 .. Len(q2) : i < j => Q[q2[i]] < Q[q2[j]]
  <2>1. \A i, j \in 1 .. Len(L.queue) : i < j => Q[L.queue[i]] < Q[L.queue[j]]
    BY DEF GoodLevel
  <2>2. \A i \in 1 .. Len(q2) : e[i] \in 1 .. Len(L.queue) /\ q2[i] = L.queue[e[i]]
    BY <1>1
  <2> QED BY <1>1, <2>1, <2>2
<1> QED BY <1>5, <1>6, <1>7 DEF GoodLevel, q2

LEMMA ThinnedSame ==
    ASSUME NEW q
    PROVE  Thinned(q, q)
<1> DEFINE e == [i \in 1 .. Len(q) |-> i]
<1>1. /\ e \in [1 .. Len(q) -> 1 .. Len(q)]
      /\ \A i \in 1 .. Len(q) : q[i] = q[e[i]]
      /\ \A i, j \in 1 .. Len(q) : i < j => e[i] < e[j]
  OBVIOUS
<1> HIDE DEF e
<1> QED BY <1>1 DEF Thinned

\* The first k elements are gone.
LEMMA ThinnedFront ==
    ASSUME NEW q, Len(q) \in Nat, NEW k \in 0 .. Len(q), NEW q2, Len(q2) = Len(q) - k,
           \A i \in 1 .. Len(q2) : q2[i] = q[i + k]
    PROVE  Thinned(q2, q)
<1> DEFINE e == [i \in 1 .. Len(q2) |-> i + k]
<1>1. /\ e \in [1 .. Len(q2) -> 1 .. Len(q)]
      /\ \A i \in 1 .. Len(q2) : q2[i] = q[e[i]]
      /\ \A i, j \in 1 .. Len(q2) : i < j => e[i] < e[j]
  OBVIOUS
<1> HIDE DEF e
<1> QED BY <1>1 DEF Thinned

\* In a good level nothing is queued twice.
LEMMA QueuedOnce ==
    ASSUME NEW L, NEW sd, NEW p, NEW A, NEW R, NEW Q, NEW O, Values(A, R, Q),
           GoodLevel(L, sd, p, A, R, Q, O)
    PROVE  /\ L.queue \in Seq(Ids) /\ Len(L.queue) \in Nat /\ L.quantity \in Nat /\ L.dead \in Nat
           /\ \A i \in 1 .. Len(L.queue) : L.queue[i] \in Ids
           /\ \A i, j \in 1 .. Len(L.queue) : L.queue[i] = L.queue[j] => i = j
<1>1. /\ L.queue \in Seq(Ids) /\ Len(L.queue) \in Nat /\ L.quantity \in Nat /\ L.dead \in Nat
      /\ \A i \in 1 .. Len(L.queue) : L.queue[i] \in Ids
  BY DEF GoodLevel, Level
<1>2. \A i, j \in 1 .. Len(L.queue) : i < j => Q[L.queue[i]] < Q[L.queue[j]]
  BY DEF GoodLevel
<1>3. \A i \in 1 .. Len(L.queue) : Q[L.queue[i]] \in Nat
  BY <1>1 DEF Values
<1>4. ASSUME NEW i \in 1 .. Len(L.queue), NEW j \in 1 .. Len(L.queue), L.queue[i] = L.queue[j]
      PROVE  i = j
  <2>1. ~(i < j) /\ ~(j < i)
    BY <1>2, <1>3, <1>4
  <2> QED BY <1>1, <2>1
<1> QED BY <1>1, <1>4

\* An order stops resting: the set at its price and the sum.
Leaves(o, A, O, sd, p, T, T2) ==
    T = AtPrice(A, O, sd, p) /\ o \in T /\ T2 = AtPrice(A \ {o}, O, sd, p)

LEMMA LeavesSet ==
    ASSUME NEW A \in SUBSET Ids, NEW O, NEW sd, NEW p, NEW o, NEW T, NEW T2,
           Leaves(o, A, O, sd, p, T, T2)
    PROVE  /\ T2 = T \ {o} /\ Cardinality(T2) = Cardinality(T) - 1
           /\ Cardinality(T) \in Nat /\ o \in Ids
<1> USE DEF Leaves
<1>1. T2 = T \ {o}
  BY DEF AtPrice, OfSide
<1>2. IsFiniteSet(T) /\ Cardinality(T) \in Nat /\ o \in Ids
  BY AtPriceTypes
<1>3. Cardinality(T2) = Cardinality(T) - 1
  <2>1. o \in T
    OBVIOUS
  <2> HIDE DEF Leaves
  <2>2. Cardinality(T \ {o}) = Cardinality(T) - 1
    BY <1>2, <2>1, FS_RemoveElement
  <2> QED BY <1>1, <2>2
<1> QED BY <1>1, <1>2, <1>3

LEMMA LeavesSum ==
    ASSUME NEW R \in [Ids -> Nat], NEW R2 \in [Ids -> Nat], NEW o \in Ids, Elsewhere(R2, R, o),
           NEW T, o \in T, NEW n, Adds(Only(R, T), n), NEW m, m = n - R[o]
    PROVE  Adds(Only(R2, T \ {o}), m)
<1>1. Differ(R, T, R2, T \ {o}, o)
  BY DEF Differ, Elsewhere
<1>2. Only(R, T)[o] = R[o] /\ Only(R2, T \ {o})[o] = 0
  BY OnlyAt
<1>3. n \in Nat /\ R[o] \in Nat
  BY OnlyBounds
<1>4. m = n - Only(R, T)[o] + Only(R2, T \ {o})[o]
  BY <1>2, <1>3
<1> QED BY <1>1, <1>4, OnlyPut

LEMMA LevelFacts ==
    ASSUME NEW L, NEW sd, NEW p, NEW A, NEW R, NEW Q, NEW O, GoodLevel(L, sd, p, A, R, Q, O)
    PROVE  /\ L = [queue |-> L.queue, quantity |-> L.quantity, dead |-> L.dead]
           /\ L.dead = Len(L.queue) - Cardinality(AtPrice(A, O, sd, p))
           /\ Adds(Only(R, AtPrice(A, O, sd, p)), L.quantity)
           /\ \A x \in AtPrice(A, O, sd, p) : \E i \in 1 .. Len(L.queue) : L.queue[i] = x
BY DEF GoodLevel, Level

\* A partial fill.
LEMMA LevelShrinks ==
    ASSUME NEW L, NEW sd, NEW p, NEW A, NEW R, NEW Q, NEW O, Values(A, R, Q),
           GoodLevel(L, sd, p, A, R, Q, O), NEW o \in AtPrice(A, O, sd, p),
           NEW q \in 0 .. R[o],
           NEW R2, R2 = [R EXCEPT ![o] = @ - q],
           NEW L2, L2 = [L EXCEPT !.quantity = @ - q]
    PROVE  GoodLevel(L2, sd, p, A, R2, Q, O)
<1> DEFINE T == AtPrice(A, O, sd, p)
<1>1. o \in Ids /\ o \in T
  <2>1. A \in SUBSET Ids
    BY DEF Values
  <2> QED BY <2>1, AtPriceTypes
<1>2. R \in [Ids -> Nat] /\ R[o] \in Nat /\ q \in Nat
  BY <1>1 DEF Values
<1>3. R2 \in [Ids -> Nat] /\ R2[o] = R[o] - q /\ R2[o] \in Nat /\ \A x \in Ids : x # o => R2[x] = R[x]
  BY <1>1, <1>2
<1>4. /\ L.dead = Len(L.queue) - Cardinality(T) /\ Adds(Only(R, T), L.quantity)
      /\ \A x \in T : \E i \in 1 .. Len(L.queue) : L.queue[i] = x
      /\ L = [queue |-> L.queue, quantity |-> L.quantity, dead |-> L.dead]
  BY LevelFacts
<1>5. L.queue \in Seq(Ids) /\ L.quantity \in Nat
  BY QueuedOnce
<1>6. /\ L2 = [queue |-> L2.queue, quantity |-> L2.quantity, dead |-> L2.dead]
      /\ L2.queue = L.queue /\ L2.quantity = L.quantity - q /\ L2.dead = L.dead
  BY <1>4
<1>7. Adds(Only(R2, T), L2.quantity)
  <2> HIDE DEF T
  <2>1. Differ(R, T, R2, T, o)
    BY <1>3 DEF Differ
  <2>2. Only(R, T)[o] = R[o] /\ Only(R2, T)[o] = R2[o]
    BY <1>1, OnlyAt
  <2>3. L2.quantity = L.quantity - Only(R, T)[o] + Only(R2, T)[o]
    BY <1>1, <1>2, <1>3, <1>5, <1>6, <2>2
  <2>4. Adds(Only(R, T), L.quantity) /\ o \in Ids /\ R \in [Ids -> Nat] /\ R2 \in [Ids -> Nat]
    BY <1>1, <1>2, <1>3, <1>4
  <2> DEFINE m == L2.quantity
  <2> HIDE DEF m
  <2>5. Adds(Only(R2, T), m)
    BY <2>1, <2>3, <2>4, OnlyPut DEF m
  <2> QED BY <2>5 DEF m
<1>8. Thinned(L2.queue, L.queue)
  BY <1>6, ThinnedSame
<1>9. L2.queue \in Seq(Ids) /\ L2.dead = Len(L2.queue) - Cardinality(T)
  BY <1>4, <1>5, <1>6
<1>10. \A x \in T : \E i \in 1 .. Len(L2.queue) : L2.queue[i] = x
  BY <1>4, <1>6
<1>11. ThinnedLevel(L2, L, sd, p, A, R2, O)
  BY <1>6, <1>7, <1>8, <1>9, <1>10 DEF ThinnedLevel
<1>12. A \in SUBSET A
  OBVIOUS
<1> QED BY <1>3, <1>11, <1>12, LevelThins

\* The order at the front is filled.
LEMMA LevelPops ==
    ASSUME NEW L, NEW sd, NEW p, NEW A, NEW R, NEW Q, NEW O, Values(A, R, Q),
           GoodLevel(L, sd, p, A, R, Q, O), NEW o \in AtPrice(A, O, sd, p),
           L.queue # << >>, L.queue[1] = o,
           NEW R2 \in [Ids -> Nat], Elsewhere(R2, R, o),
           NEW L2, L2 = [L EXCEPT !.quantity = @ - R[o], !.queue = Tail(@)]
    PROVE  GoodLevel(L2, sd, p, A \ {o}, R2, Q, O)
<1> DEFINE T == AtPrice(A, O, sd, p)
           T2 == AtPrice(A \ {o}, O, sd, p)
           q2 == Tail(L.queue)
<1>a. A \in SUBSET Ids
  BY DEF Values
<1>1. T2 = T \ {o} /\ Cardinality(T2) = Cardinality(T) - 1 /\ Cardinality(T) \in Nat /\ o \in Ids /\ o \in T
  <2>1. o \in T /\ Leaves(o, A, O, sd, p, T, T2)
    BY DEF Leaves
  <2> HIDE DEF T, T2
  <2> QED BY <1>a, <2>1, LeavesSet
<1>2. /\ L.dead = Len(L.queue) - Cardinality(T) /\ Adds(Only(R, T), L.quantity)
      /\ \A x \in T : \E i \in 1 .. Len(L.queue) : L.queue[i] = x
      /\ L = [queue |-> L.queue, quantity |-> L.quantity, dead |-> L.dead]
  BY LevelFacts
<1>3. L.queue \in Seq(Ids) /\ Len(L.queue) \in Nat
  BY QueuedOnce
<1>4. q2 \in Seq(Ids) /\ Len(q2) = Len(L.queue) - 1 /\ \A i \in 1 .. Len(q2) : q2[i] = L.queue[i + 1]
  BY <1>3, HeadTailProperties
<1>5. /\ L2 = [queue |-> L2.queue, quantity |-> L2.quantity, dead |-> L2.dead]
      /\ L2.queue = q2 /\ L2.quantity = L.quantity - R[o] /\ L2.dead = L.dead
  BY <1>2
<1> HIDE DEF q2
<1>6. Adds(Only(R2, T2), L2.quantity)
  <2>1. R \in [Ids -> Nat]
    BY DEF Values
  <2> HIDE DEF T, T2
  <2> QED BY <1>1, <1>2, <1>5, <2>1, LeavesSum
<1>7. L2.dead = Len(L2.queue) - Cardinality(T2)
  <2> HIDE DEF T, T2
  <2> QED BY <1>1, <1>2, <1>3, <1>4, <1>5
<1>8. Thinned(q2, L.queue)
  <2>1. 1 \in 0 .. Len(L.queue)
    BY <1>3
  <2> QED BY <1>3, <1>4, <2>1, ThinnedFront
<1>9. ASSUME NEW x \in T2 PROVE \E i \in 1 .. Len(q2) : q2[i] = x
  <2> HIDE DEF T, T2
  <2>1. PICK i \in 1 .. Len(L.queue) : L.queue[i] = x
    BY <1>1, <1>2, <1>9
  <2>2. i # 1
    BY <1>1, <1>9, <2>1
  <2> DEFINE m == Len(L.queue)
  <2>3. /\ m \in Nat /\ i \in 1 .. m
        /\ Len(q2) = m - 1
    BY <1>3, <1>4
  <2> HIDE DEF m
  <2>4. i - 1 \in 1 .. Len(q2) /\ (i - 1) + 1 = i
    BY <2>2, <2>3
  <2>5. q2[i - 1] = L.queue[(i - 1) + 1]
    BY <1>4, <2>4
  <2> QED BY <2>1, <2>4, <2>5
<1>10. A \ {o} \in SUBSET A /\ L2.queue \in Seq(Ids)
  BY <1>4, <1>5
<1>11. Thinned(L2.queue, L.queue) /\ \A x \in T2 : \E i \in 1 .. Len(L2.queue) : L2.queue[i] = x
  BY <1>5, <1>8, <1>9
<1>12. ThinnedLevel(L2, L, sd, p, A \ {o}, R2, O)
  BY <1>5, <1>6, <1>7, <1>10, <1>11 DEF ThinnedLevel
<1> QED BY <1>10, <1>12, LevelThins

\* An order is taken out anywhere in the queue, and stays in it as a dead one.
LEMMA LevelRemoves ==
    ASSUME NEW L, NEW sd, NEW p, NEW A, NEW R, NEW Q, NEW O, Values(A, R, Q),
           GoodLevel(L, sd, p, A, R, Q, O), NEW o \in AtPrice(A, O, sd, p),
           NEW L2, L2 = [L EXCEPT !.quantity = @ - R[o], !.dead = @ + 1]
    PROVE  GoodLevel(L2, sd, p, A \ {o}, R, Q, O)
<1> DEFINE T == AtPrice(A, O, sd, p)
           T2 == AtPrice(A \ {o}, O, sd, p)
<1>0. R \in [Ids -> Nat] /\ Elsewhere(R, R, o)
  BY DEF Values, Elsewhere
<1>a. A \in SUBSET Ids
  BY DEF Values
<1>1. T2 = T \ {o} /\ Cardinality(T2) = Cardinality(T) - 1 /\ Cardinality(T) \in Nat /\ o \in Ids /\ o \in T
  <2>1. o \in T /\ Leaves(o, A, O, sd, p, T, T2)
    BY DEF Leaves
  <2> HIDE DEF T, T2
  <2> QED BY <1>a, <2>1, LeavesSet
<1>2. /\ L.dead = Len(L.queue) - Cardinality(T) /\ Adds(Only(R, T), L.quantity)
      /\ \A x \in T : \E i \in 1 .. Len(L.queue) : L.queue[i] = x
      /\ L = [queue |-> L.queue, quantity |-> L.quantity, dead |-> L.dead]
  BY LevelFacts
<1>3. L.queue \in Seq(Ids) /\ Len(L.queue) \in Nat
  BY QueuedOnce
<1>4. /\ L2 = [queue |-> L2.queue, quantity |-> L2.quantity, dead |-> L2.dead]
      /\ L2.queue = L.queue /\ L2.quantity = L.quantity - R[o] /\ L2.dead = L.dead + 1
  BY <1>2
<1>5. Adds(Only(R, T2), L2.quantity)
  <2> HIDE DEF T, T2
  <2> QED BY <1>0, <1>1, <1>2, <1>4, LeavesSum
<1>6. L2.dead = Len(L2.queue) - Cardinality(T2)
  <2> HIDE DEF T, T2
  <2> QED BY <1>1, <1>2, <1>3, <1>4
<1>7. A \ {o} \in SUBSET A /\ L2.queue \in Seq(Ids)
  BY <1>3, <1>4
<1>8. Thinned(L2.queue, L.queue) /\ \A x \in T2 : \E i \in 1 .. Len(L2.queue) : L2.queue[i] = x
  <2> HIDE DEF T, T2
  <2> QED BY <1>1, <1>2, <1>4, ThinnedSame
<1>9. ThinnedLevel(L2, L, sd, p, A \ {o}, R, O)
  BY <1>4, <1>5, <1>6, <1>7, <1>8 DEF ThinnedLevel
<1> QED BY <1>0, <1>7, <1>9, LevelThins

-----------------------------------------------------------------------------
(* Compaction *)

Stays(x, o) == x # o /\ entry[x].alive

IsKept(g, queue, o, n) ==
    g = [k \in 0 .. n |->
            IF k = 0 THEN << >>
            ELSE IF queue[k] # o /\ entry[queue[k]].alive THEN Append(g[k - 1], queue[k])
            ELSE g[k - 1]]

LEMMA KeptStep ==
    ASSUME NEW queue, NEW o, NEW n \in Nat, NEW g, IsKept(g, queue, o, n)
    PROVE  /\ g[0] = << >>
           /\ \A k \in 1 .. n : g[k] = IF Stays(queue[k], o) THEN Append(g[k - 1], queue[k]) ELSE g[k - 1]
<1> DEFINE Of(k) == IF k = 0 THEN << >>
                    ELSE IF Stays(queue[k], o) THEN Append(g[k - 1], queue[k]) ELSE g[k - 1]
<1>1. g = [k \in 0 .. n |-> Of(k)]
  BY DEF IsKept, Stays
<1>2. \A k \in 0 .. n : g[k] = Of(k)
  <2> HIDE DEF Of
  <2> QED BY <1>1
<1>3. 0 \in 0 .. n /\ \A k \in 1 .. n : k \in 0 .. n /\ k # 0
  OBVIOUS
<1>4. g[0] = << >>
  BY <1>2, <1>3
<1>5. ASSUME NEW k \in 1 .. n PROVE g[k] = IF Stays(queue[k], o) THEN Append(g[k - 1], queue[k]) ELSE g[k - 1]
  BY <1>2, <1>3
<1> QED BY <1>4, <1>5

LEMMA KeptExists ==
    ASSUME NEW queue, NEW o, NEW n \in Nat
    PROVE  \E g : IsKept(g, queue, o, n)
<1> DEFINE T == {m \in Nat : ~\E g : IsKept(g, queue, o, m)}
<1> SUFFICES ASSUME T # {} PROVE FALSE
  OBVIOUS
<1> DEFINE m == Min(T)
<1>1. m \in T /\ \A y \in T : m <= y
  <2>1. T \in SUBSET Nat
    OBVIOUS
  <2> HIDE DEF T
  <2> QED BY <2>1, LeastNat
<1> HIDE DEF m
<1>2. m # 0
  <2> DEFINE g == [k \in 0 .. 0 |-> << >>]
  <2>1. g[0] = << >>
    OBVIOUS
  <2>2. IsKept(g, queue, o, 0)
    BY DEF IsKept
  <2> HIDE DEF g
  <2> QED BY <1>1, <2>2
<1>3. m \in Nat /\ m - 1 \in Nat /\ m - 1 \notin T
  <2>1. m \in Nat
    BY <1>1
  <2> HIDE DEF T
  <2> QED BY <1>1, <1>2, <2>1
<1>4. PICK g : IsKept(g, queue, o, m - 1)
  BY <1>3
<1> DEFINE h == [k \in 0 .. m |-> IF k < m THEN g[k]
                                  ELSE IF Stays(queue[m], o) THEN Append(g[m - 1], queue[m]) ELSE g[m - 1]]
<1>5. \A k \in 0 .. m :
        h[k] = IF k = 0 THEN << >>
               ELSE IF Stays(queue[k], o) THEN Append(h[k - 1], queue[k]) ELSE h[k - 1]
  <2> SUFFICES ASSUME NEW k \in 0 .. m
               PROVE  h[k] = IF k = 0 THEN << >>
                             ELSE IF Stays(queue[k], o) THEN Append(h[k - 1], queue[k]) ELSE h[k - 1]
    OBVIOUS
  <2>1. /\ g[0] = << >>
        /\ \A i \in 1 .. m - 1 : g[i] = IF Stays(queue[i], o) THEN Append(g[i - 1], queue[i]) ELSE g[i - 1]
    BY <1>3, <1>4, KeptStep
  <2>2. CASE k = 0
    BY <1>2, <1>3, <2>1, <2>2
  <2>3. CASE k # 0
    <3>1. h[k - 1] = g[k - 1]
      BY <1>3, <2>3
    <3>2. h[k] = IF k < m THEN g[k] ELSE IF Stays(queue[m], o) THEN Append(g[m - 1], queue[m]) ELSE g[m - 1]
      OBVIOUS
    <3> HIDE DEF h
    <3> QED BY <1>3, <2>1, <2>3, <3>1, <3>2
  <2> QED BY <2>2, <2>3
<1>6. IsKept(h, queue, o, m)
  <2>1. h = [k \in 0 .. m |-> h[k]]
    OBVIOUS
  <2> HIDE DEF h
  <2>2. h = [k \in 0 .. m |->
               IF k = 0 THEN << >>
               ELSE IF Stays(queue[k], o) THEN Append(h[k - 1], queue[k]) ELSE h[k - 1]]
    BY <1>5, <2>1
  <2> QED BY <2>2 DEF IsKept, Stays
<1> HIDE DEF h
<1> QED BY <1>1, <1>6

\* q2 is made of those of the first n elements of queue that stay.
Selects(q2, queue, o, n) ==
    \E e \in [1 .. Len(q2) -> 1 .. n] :
        /\ \A i \in 1 .. Len(q2) : q2[i] = queue[e[i]] /\ Stays(q2[i], o)
        /\ \A i, j \in 1 .. Len(q2) : i < j => e[i] < e[j]
        /\ \A k \in 1 .. n : Stays(queue[k], o) => \E i \in 1 .. Len(q2) : e[i] = k

LEMMA SelectsNext ==
    ASSUME NEW queue \in Seq(Ids), NEW o, NEW n \in 1 .. Len(queue),
           NEW q \in Seq(Ids), Selects(q, queue, o, n - 1),
           NEW q2, q2 = IF Stays(queue[n], o) THEN Append(q, queue[n]) ELSE q
    PROVE  q2 \in Seq(Ids) /\ Selects(q2, queue, o, n)
<1>1. PICK e \in [1 .. Len(q) -> 1 .. n - 1] :
        /\ \A i \in 1 .. Len(q) : q[i] = queue[e[i]] /\ Stays(q[i], o)
        /\ \A i, j \in 1 .. Len(q) : i < j => e[i] < e[j]
        /\ \A k \in 1 .. n - 1 : Stays(queue[k], o) => \E i \in 1 .. Len(q) : e[i] = k
  BY DEF Selects
<1>2. Len(q) \in Nat /\ n \in Nat /\ queue[n] \in Ids /\ \A k \in 1 .. n : k = n \/ k \in 1 .. n - 1
  OBVIOUS
<1>3. CASE ~Stays(queue[n], o)
  <2>1. e \in [1 .. Len(q) -> 1 .. n]
    BY <1>2
  <2>2. q2 = q
    BY <1>3
  <2>3. \A k \in 1 .. n : Stays(queue[k], o) => \E i \in 1 .. Len(q) : e[i] = k
    BY <1>1, <1>2, <1>3
  <2>4. Selects(q, queue, o, n)
    BY <1>1, <2>1, <2>3 DEF Selects
  <2> QED BY <2>2, <2>4
<1>4. CASE Stays(queue[n], o)
  <2> DEFINE l == Len(q) + 1
             f == [i \in 1 .. l |-> IF i = l THEN n ELSE e[i]]
  <2>1. /\ q2 \in Seq(Ids) /\ Len(q2) = l /\ q2[l] = queue[n]
        /\ \A i \in 1 .. Len(q) : q2[i] = q[i]
    BY <1>2, <1>4
  <2>2. /\ l \in Nat /\ l \in 1 .. l /\ l \notin 1 .. Len(q)
        /\ \A i \in 1 .. l : i = l \/ i \in 1 .. Len(q)
        /\ \A i \in 1 .. Len(q) : i \in 1 .. l
    BY <1>2
  <2>3. /\ f \in [1 .. l -> 1 .. n]
        /\ f[l] = n /\ \A i \in 1 .. Len(q) : f[i] = e[i]
    BY <1>1, <1>2, <2>2
  <2> HIDE DEF l, f
  <2>4. \A i \in 1 .. l : q2[i] = queue[f[i]] /\ Stays(q2[i], o)
    BY <1>1, <1>4, <2>1, <2>2, <2>3
  <2>5. ASSUME NEW i \in 1 .. l, NEW j \in 1 .. l, i < j PROVE f[i] < f[j]
    <3>1. i \in 1 .. Len(q)
      BY <2>2, <2>5
    <3>2. CASE j = l
      BY <1>2, <2>3, <3>1, <3>2
    <3>3. CASE j \in 1 .. Len(q)
      BY <1>1, <2>3, <2>5, <3>1, <3>3
    <3> QED BY <2>2, <3>2, <3>3
  <2>6. ASSUME NEW k \in 1 .. n, Stays(queue[k], o) PROVE \E i \in 1 .. l : f[i] = k
    <3>1. CASE k = n
      BY <2>2, <2>3, <3>1
    <3>2. CASE k \in 1 .. n - 1
      <4>1. PICK i \in 1 .. Len(q) : e[i] = k
        BY <1>1, <2>6, <3>2
      <4> QED BY <2>2, <2>3, <4>1
    <3> QED BY <1>2, <3>1, <3>2
  <2>7. /\ f \in [1 .. Len(q2) -> 1 .. n]
        /\ \A i \in 1 .. Len(q2) : q2[i] = queue[f[i]] /\ Stays(q2[i], o)
        /\ \A i, j \in 1 .. Len(q2) : i < j => f[i] < f[j]
        /\ \A k \in 1 .. n : Stays(queue[k], o) => \E i \in 1 .. Len(q2) : f[i] = k
    BY <2>1, <2>3, <2>4, <2>5, <2>6
  <2> QED BY <2>1, <2>7 DEF Selects
<1> QED BY <1>3, <1>4

LEMMA LiveOnlySelects ==
    ASSUME NEW queue \in Seq(Ids), NEW o
    PROVE  LiveOnly(queue, o) \in Seq(Ids) /\ Selects(LiveOnly(queue, o), queue, o, Len(queue))
<1> DEFINE g == CHOOSE h : IsKept(h, queue, o, Len(queue))
<1>1. Len(queue) \in Nat
  OBVIOUS
<1>2. IsKept(g, queue, o, Len(queue))
  BY <1>1, KeptExists
<1>3. LiveOnly(queue, o) = g[Len(queue)]
  BY DEF LiveOnly, IsKept
<1> HIDE DEF g
<1>4. /\ g[0] = << >>
      /\ \A k \in 1 .. Len(queue) :
           g[k] = IF Stays(queue[k], o) THEN Append(g[k - 1], queue[k]) ELSE g[k - 1]
  BY <1>1, <1>2, KeptStep
<1> DEFINE T == {k \in 0 .. Len(queue) : ~(g[k] \in Seq(Ids) /\ Selects(g[k], queue, o, k))}
<1>5. T = {}
  <2> SUFFICES ASSUME T # {} PROVE FALSE
    OBVIOUS
  <2> DEFINE m == Min(T)
  <2>1. m \in T /\ \A y \in T : m <= y
    <3>1. T \in SUBSET Nat
      OBVIOUS
    <3> HIDE DEF T
    <3> QED BY <3>1, LeastNat
  <2> HIDE DEF m
  <2>2. m # 0
    <3>1. Len(g[0]) = 0 /\ g[0] \in Seq(Ids) /\ g[0] \in [1 .. 0 -> 1 .. 0]
      BY <1>4
    <3>2. Selects(g[0], queue, o, 0)
      BY <3>1 DEF Selects
    <3> QED BY <2>1, <3>1, <3>2
  <2>3. m \in 1 .. Len(queue) /\ m - 1 \notin T /\ m - 1 \in 0 .. Len(queue)
    <3>1. m \in 0 .. Len(queue)
      BY <2>1
    <3> HIDE DEF T
    <3> QED BY <1>1, <2>1, <2>2, <3>1
  <2>4. g[m - 1] \in Seq(Ids) /\ Selects(g[m - 1], queue, o, m - 1)
    BY <2>3
  <2>5. g[m] = IF Stays(queue[m], o) THEN Append(g[m - 1], queue[m]) ELSE g[m - 1]
    BY <1>4, <2>3
  <2>6. g[m] \in Seq(Ids) /\ Selects(g[m], queue, o, m)
    BY <2>3, <2>4, <2>5, SelectsNext
  <2> QED BY <2>1, <2>6
<1>6. Len(queue) \in 0 .. Len(queue)
  BY <1>1
<1>7. g[Len(queue)] \in Seq(Ids) /\ Selects(g[Len(queue)], queue, o, Len(queue))
  BY <1>5, <1>6
<1> QED BY <1>3, <1>7

\* The rebuilt queue holds exactly what rests at the price, once o is gone.
LEMMA LevelCompacts ==
    ASSUME NEW L, NEW sd, NEW p, NEW A, NEW R, NEW Q, NEW O, Values(A, R, Q),
           GoodLevel(L, sd, p, A, R, Q, O), NEW o,
           \A x \in Ids : x \in A <=> Stays(x, o),
           NEW L2, L2 = Compact(L, o)
    PROVE  GoodLevel(L2, sd, p, A, R, Q, O)
<1> DEFINE T == AtPrice(A, O, sd, p)
           q2 == LiveOnly(L.queue, o)
<1>1. /\ Adds(Only(R, T), L.quantity)
      /\ \A x \in T : \E i \in 1 .. Len(L.queue) : L.queue[i] = x
      /\ L = [queue |-> L.queue, quantity |-> L.quantity, dead |-> L.dead]
  BY LevelFacts
<1>2. /\ L.queue \in Seq(Ids) /\ Len(L.queue) \in Nat
      /\ \A i \in 1 .. Len(L.queue) : L.queue[i] \in Ids
      /\ \A i, j \in 1 .. Len(L.queue) : L.queue[i] = L.queue[j] => i = j
  BY QueuedOnce
<1>3. A \in SUBSET Ids /\ R \in [Ids -> Nat]
  BY DEF Values
<1>4. q2 \in Seq(Ids) /\ Selects(q2, L.queue, o, Len(L.queue))
  BY <1>2, LiveOnlySelects
<1>5. /\ L2 = [queue |-> L2.queue, quantity |-> L2.quantity, dead |-> L2.dead]
      /\ L2.queue = q2 /\ L2.quantity = L.quantity /\ L2.dead = 0
  BY <1>1 DEF Compact
<1> HIDE DEF q2
<1>6. PICK e \in [1 .. Len(q2) -> 1 .. Len(L.queue)] :
        /\ \A i \in 1 .. Len(q2) : q2[i] = L.queue[e[i]] /\ Stays(q2[i], o)
        /\ \A i, j \in 1 .. Len(q2) : i < j => e[i] < e[j]
        /\ \A k \in 1 .. Len(L.queue) : Stays(L.queue[k], o) => \E i \in 1 .. Len(q2) : e[i] = k
  BY <1>4 DEF Selects
<1>7. Thinned(q2, L.queue)
  BY <1>6 DEF Thinned
<1>8. \A x \in T : \E i \in 1 .. Len(q2) : q2[i] = x
  <2> SUFFICES ASSUME NEW x \in T PROVE \E i \in 1 .. Len(q2) : q2[i] = x
    OBVIOUS
  <2>1. x \in Ids /\ Stays(x, o)
    BY <1>3 DEF AtPrice, OfSide
  <2>2. PICK k \in 1 .. Len(L.queue) : L.queue[k] = x
    BY <1>1
  <2>3. PICK i \in 1 .. Len(q2) : e[i] = k
    BY <1>6, <2>1, <2>2
  <2> QED BY <1>6, <2>2, <2>3
<1>9. \A i \in 1 .. Len(q2) : q2[i] \in T
  <2> SUFFICES ASSUME NEW i \in 1 .. Len(q2) PROVE q2[i] \in T
    OBVIOUS
  <2>1. e[i] \in 1 .. Len(L.queue) /\ q2[i] = L.queue[e[i]] /\ Stays(q2[i], o)
    BY <1>6
  <2>2. q2[i] \in A
    BY <1>2, <2>1
  <2>3. O[q2[i]].side = sd /\ O[q2[i]].price = p
    BY <2>1 DEF GoodLevel
  <2> QED BY <2>2, <2>3 DEF AtPrice, OfSide
<1>10. \A i, j \in 1 .. Len(q2) : q2[i] = q2[j] => i = j
  <2> SUFFICES ASSUME NEW i \in 1 .. Len(q2), NEW j \in 1 .. Len(q2), q2[i] = q2[j] PROVE i = j
    OBVIOUS
  <2>1. e[i] = e[j] /\ e[i] \in 1 .. Len(L.queue) /\ e[j] \in 1 .. Len(L.queue)
    BY <1>2, <1>6
  <2>2. ~(i < j) /\ ~(j < i)
    BY <1>6, <2>1
  <2>3. i \in Nat /\ j \in Nat
    BY <1>4
  <2> QED BY <2>2, <2>3
<1>11. Cardinality(T) = Len(q2)
  <2>1. T \in SUBSET Ids
    BY <1>3 DEF AtPrice, OfSide
  <2> HIDE DEF T
  <2> QED BY <1>4, <1>8, <1>9, <1>10, <2>1, ListsExactly
<1>12. L2.dead = Len(L2.queue) - Cardinality(T)
  <2>1. Len(q2) \in Nat
    BY <1>4
  <2> QED BY <1>5, <1>11, <2>1
<1>13. ThinnedLevel(L2, L, sd, p, A, R, O)
  BY <1>1, <1>4, <1>5, <1>7, <1>8, <1>12 DEF ThinnedLevel
<1>14. A \in SUBSET A
  OBVIOUS
<1> QED BY <1>3, <1>13, <1>14, LevelThins

-----------------------------------------------------------------------------
(* Operations on a side *)

\* Nothing but the order o changes: what rests, remains and is queued elsewhere stays.
Moves(A, R, Q, A2, R2, Q2, O, sd, o) ==
    /\ o \in Ids /\ O[o].side = sd
    /\ Differ(R, A, R2, A2, o)
    /\ \A x \in Ids : x # o => Q2[x] = Q[x]
    /\ Q[o] > 0 => Q2[o] = Q[o]
    /\ Values(A, R, Q) /\ Values(A2, R2, Q2)

LEMMA LevelsKept ==
    ASSUME NEW S, NEW sd, NEW A, NEW R, NEW Q, NEW O, NEW A2, NEW R2, NEW Q2, NEW o,
           GoodSide(S, sd, A, R, Q, O), Moves(A, R, Q, A2, R2, Q2, O, sd, o),
           NEW p \in DOMAIN S.levels, p # O[o].price
    PROVE  GoodLevel(S.levels[p], sd, p, A2, R2, Q2, O)
<1>1. A \in SUBSET Ids /\ A2 \in SUBSET Ids
  BY DEF Moves, Values
<1>2. \A x \in Ids : x # o => (x \in A2 <=> x \in A) /\ R2[x] = R[x] /\ Q2[x] = Q[x]
  BY DEF Moves, Differ
<1>3. AtPrice(A2, O, sd, p) = AtPrice(A, O, sd, p)
  BY <1>1, <1>2 DEF AtPrice, OfSide
<1>4. \A x \in AtPrice(A, O, sd, p) : R2[x] = R[x]
  BY <1>1, <1>2 DEF AtPrice, OfSide
<1>5. \A x \in Ids : Q[x] > 0 => Q2[x] = Q[x] /\ O[x] = O[x]
  BY <1>2 DEF Moves
<1>6. GoodLevel(S.levels[p], sd, p, A, R, Q, O)
  BY DEF GoodSide
<1> QED BY <1>3, <1>4, <1>5, <1>6, LevelFrame

\* The level after the order o, with quantity q, joined its queue.
Joined(level, o, q) == [level EXCEPT !.queue = Append(@, o), !.quantity = @ + q]

LEMMA ShapeAdd ==
    ASSUME NEW S, NEW sd \in Sides, Shape(S, sd), NEW o, NEW p \in Int, NEW q,
           NEW level, level = IF p \notin DOMAIN S.levels THEN EmptyLevel ELSE S.levels[p],
           NEW S2, S2 = Add(S, sd, o, p, q)
    PROVE  /\ Shape(S2, sd) /\ S2.total = S.total + q
           /\ DOMAIN S2.levels = DOMAIN S.levels \cup {p}
           /\ \A x \in DOMAIN S.levels : x # p => S2.levels[x] = S.levels[x]
           /\ S2.levels[p] = Joined(level, o, q)
<1> DEFINE k == Key(sd, p)
           keys == IF p \notin DOMAIN S.levels THEN Insort(S.keys, k) ELSE S.keys
           joined == Joined(level, o, q)
           levels == [x \in DOMAIN S.levels \cup {p} |-> IF x # p THEN S.levels[x] ELSE joined]
<1>1. S2 = [keys |-> keys, levels |-> levels, total |-> S.total + q]
  <2>1. S2 = [S EXCEPT !.keys = keys, !.levels = levels, !.total = S.total + q]
    BY DEF Add, Joined
  <2>2. S = [keys |-> S.keys, levels |-> S.levels, total |-> S.total]
    BY DEF Shape
  <2> HIDE DEF keys, levels
  <2> QED BY <2>1, <2>2
<1>2. /\ DOMAIN levels = DOMAIN S.levels \cup {p} /\ levels[p] = joined
      /\ \A x \in DOMAIN S.levels : x # p => levels[x] = S.levels[x]
  <2> HIDE DEF joined
  <2> QED OBVIOUS
<1> HIDE DEF levels, joined
<1>3. Len(S.keys) \in Nat /\ k \in Int /\ PriceOf(sd, k) = p
  BY ShapeKeys, KeyInverse
<1>4. /\ keys \in Seq(Int) /\ Ascending(keys)
      /\ DOMAIN levels = {PriceOf(sd, keys[i]) : i \in 1 .. Len(keys)}
  <2>1. CASE p \in DOMAIN S.levels
    <3>1. keys = S.keys /\ DOMAIN levels = DOMAIN S.levels
      BY <1>2, <2>1
    <3> QED BY <3>1 DEF Shape
  <2>2. CASE p \notin DOMAIN S.levels
    <3>1. PICK m \in 0 .. Len(S.keys) :
            /\ Insort(S.keys, k) = InsertAt(S.keys, m + 1, k)
            /\ \A i \in 1 .. Len(S.keys) : S.keys[i] <= k <=> i <= m
      BY <1>3, InsortPlace DEF Shape
    <3>2. keys = InsertAt(S.keys, m + 1, k)
      BY <2>2, <3>1
    <3> HIDE DEF keys
    <3>3. /\ keys \in Seq(Int) /\ Len(keys) = Len(S.keys) + 1
          /\ \A i \in 1 .. Len(S.keys) + 1 :
               keys[i] = IF i <= m THEN S.keys[i] ELSE IF i = m + 1 THEN k ELSE S.keys[i - 1]
      <4> DEFINE s == S.keys
      <4>1. s \in Seq(Int) /\ k \in Int /\ m \in 0 .. Len(s) /\ keys = InsertAt(s, m + 1, k)
        BY <1>3, <3>2 DEF Shape
      <4> HIDE DEF k, s
      <4>2. /\ keys \in Seq(Int) /\ Len(keys) = Len(s) + 1
            /\ \A i \in 1 .. Len(s) + 1 :
                 keys[i] = IF i <= m THEN s[i] ELSE IF i = m + 1 THEN k ELSE s[i - 1]
        BY <4>1, Inserted
      <4> QED BY <4>2 DEF s
    <3>4. \A i \in 1 .. Len(S.keys) : /\ S.keys[i] \in Int /\ S.keys[i] # k
                                      /\ i <= m => S.keys[i] < k
                                      /\ i > m => k < S.keys[i]
      <4>1. \A i \in 1 .. Len(S.keys) : S.keys[i] \in Int /\ S.keys[i] # k
        BY <1>3, <2>2, ShapeKeys
      <4> HIDE DEF k
      <4> QED BY <1>3, <3>1, <4>1
    <3> HIDE DEF k
    <3>5. \A i, j \in 1 .. Len(S.keys) : i < j => S.keys[i] < S.keys[j]
      BY DEF Shape, Ascending
    <3>6. Ascending(keys)
      <4> SUFFICES ASSUME NEW i \in 1 .. Len(keys), NEW j \in 1 .. Len(keys), i < j PROVE keys[i] < keys[j]
        BY DEF Ascending
      <4>1. /\ i \in 1 .. Len(S.keys) + 1 /\ j \in 1 .. Len(S.keys) + 1 /\ m \in Nat
            /\ keys[i] = IF i <= m THEN S.keys[i] ELSE IF i = m + 1 THEN k ELSE S.keys[i - 1]
            /\ keys[j] = IF j <= m THEN S.keys[j] ELSE IF j = m + 1 THEN k ELSE S.keys[j - 1]
        BY <1>3, <3>3
      <4>2. CASE j <= m
        BY <1>3, <3>4, <3>5, <4>1, <4>2
      <4>3. CASE j = m + 1
        BY <1>3, <3>4, <4>1, <4>3
      <4>4. CASE j > m + 1
        <5>1. j - 1 \in 1 .. Len(S.keys) /\ j - 1 > m /\ keys[j] = S.keys[j - 1]
          BY <1>3, <4>1, <4>4
        <5>2. CASE i <= m
          <6>1. i \in 1 .. Len(S.keys) /\ keys[i] = S.keys[i] /\ i < j - 1
            BY <1>3, <4>1, <5>1, <5>2
          <6> QED BY <3>5, <5>1, <6>1
        <5>3. CASE i = m + 1
          BY <1>3, <3>4, <4>1, <5>1, <5>3
        <5>4. CASE i > m + 1
          <6>1. i - 1 \in 1 .. Len(S.keys) /\ keys[i] = S.keys[i - 1] /\ i - 1 < j - 1
            BY <1>3, <4>1, <5>4
          <6> QED BY <3>5, <5>1, <6>1
        <5> QED BY <4>1, <5>2, <5>3, <5>4
      <4> QED BY <4>1, <4>2, <4>3, <4>4
    <3>7. ASSUME NEW i \in 1 .. Len(keys) PROVE PriceOf(sd, keys[i]) \in DOMAIN levels
      <4>1. keys[i] = k \/ \E j \in 1 .. Len(S.keys) : keys[i] = S.keys[j]
        <5>1. i \in 1 .. Len(S.keys) + 1
          BY <3>3
        <5>2. CASE i <= m
          <6>1. keys[i] = S.keys[i]
            BY <3>3, <5>1, <5>2
          <6>2. i \in 1 .. Len(S.keys)
            BY <1>3, <5>1, <5>2
          <6> QED BY <6>1, <6>2
        <5>3. CASE i = m + 1
          BY <3>3, <5>1, <5>3
        <5>4. CASE i > m + 1
          <6>1. i - 1 \in 1 .. Len(S.keys) /\ ~(i <= m) /\ i # m + 1
            BY <1>3, <5>1, <5>4
          <6>2. keys[i] = S.keys[i - 1]
            BY <3>3, <5>1, <6>1
          <6> QED BY <6>1, <6>2
        <5> QED BY <3>1, <5>1, <5>2, <5>3, <5>4
      <4>2. \A j \in 1 .. Len(S.keys) : PriceOf(sd, S.keys[j]) \in DOMAIN S.levels
        BY ShapeKeys
      <4> QED BY <1>2, <1>3, <4>1, <4>2
    <3>8. ASSUME NEW x \in DOMAIN levels PROVE \E i \in 1 .. Len(keys) : x = PriceOf(sd, keys[i])
      <4>1. CASE x = p
        <5>1. m + 1 \in 1 .. Len(keys) /\ keys[m + 1] = k
          BY <1>3, <3>1, <3>3
        <5> QED BY <1>3, <4>1, <5>1
      <4>2. CASE x \in DOMAIN S.levels
        <5>1. PICK j \in 1 .. Len(S.keys) : x = PriceOf(sd, S.keys[j])
          BY <4>2, ShapeKeys
        <5>2. CASE j <= m
          <6>1. j \in 1 .. Len(keys) /\ keys[j] = S.keys[j]
            BY <1>3, <3>3, <5>2
          <6> QED BY <5>1, <6>1
        <5>3. CASE j > m
          <6>1. /\ j + 1 \in 1 .. Len(S.keys) + 1 /\ ~(j + 1 <= m) /\ j + 1 # m + 1
                /\ (j + 1) - 1 = j
            BY <1>3, <5>3
          <6>2. j + 1 \in 1 .. Len(keys) /\ keys[j + 1] = S.keys[j]
            BY <3>3, <6>1
          <6> QED BY <5>1, <6>2
        <5> QED BY <3>1, <5>2, <5>3
      <4> QED BY <1>2, <4>1, <4>2
    <3> QED BY <3>3, <3>6, <3>7, <3>8
  <2> QED BY <2>1, <2>2
<1> HIDE DEF keys
<1>5. S2.keys = keys /\ S2.levels = levels /\ S2.total = S.total + q
  BY <1>1
<1>6. S2 = [keys |-> S2.keys, levels |-> S2.levels, total |-> S2.total]
  BY <1>1, <1>5
<1>7. Shape(S2, sd)
  BY <1>4, <1>5, <1>6 DEF Shape
<1> QED BY <1>2, <1>5, <1>7 DEF joined

\* A new order rests on its side.
LEMMA GoodAdd ==
    ASSUME NEW S, NEW sd \in Sides, NEW A, NEW R, NEW Q, NEW O, Values(A, R, Q),
           GoodSide(S, sd, A, R, Q, O),
           NEW o \in Ids, o \notin A, Q[o] = 0, O[o].side = sd, O[o].price \in Prices,
           NEW q \in Nat, NEW n \in Nat, \A x \in Ids : Q[x] < n,
           NEW S2, S2 = Add(S, sd, o, O[o].price, q)
    PROVE  /\ GoodSide(S2, sd, A \cup {o}, [R EXCEPT ![o] = q], [Q EXCEPT ![o] = n], O)
           /\ q > 0 => NoneEmptied(S2, S)
<1> DEFINE p == O[o].price
           A2 == A \cup {o}
           R2 == [R EXCEPT ![o] = q]
           Q2 == [Q EXCEPT ![o] = n]
           level == IF p \notin DOMAIN S.levels THEN EmptyLevel ELSE S.levels[p]
           joined == Joined(level, o, q)
<1>1. A2 \in SUBSET Ids /\ R2 \in [Ids -> Nat] /\ Q2 \in [Ids -> Nat]
      /\ \A x \in Ids : x # o => R2[x] = R[x] /\ Q2[x] = Q[x]
  BY DEF Values
<1>2. R2[o] = q
  BY DEF Values
<1>3. Moves(A, R, Q, A2, R2, Q2, O, sd, o)
  BY <1>1 DEF Moves, Differ, Values
<1>4. p \in Int
  <2>1. p \in Prices
    OBVIOUS
  <2> HIDE DEF p
  <2> QED BY <2>1, PriceAssumption
<1>5. /\ Shape(S2, sd) /\ S2.total = S.total + q
      /\ DOMAIN S2.levels = DOMAIN S.levels \cup {p}
      /\ \A x \in DOMAIN S.levels : x # p => S2.levels[x] = S.levels[x]
      /\ S2.levels[p] = joined
  <2>1. Shape(S, sd) /\ level = IF p \notin DOMAIN S.levels THEN EmptyLevel ELSE S.levels[p]
    BY DEF GoodSide
  <2>2. S2 = Add(S, sd, o, p, q)
    OBVIOUS
  <2> HIDE DEF level, p
  <2>3. /\ Shape(S2, sd) /\ S2.total = S.total + q
        /\ DOMAIN S2.levels = DOMAIN S.levels \cup {p}
        /\ \A x \in DOMAIN S.levels : x # p => S2.levels[x] = S.levels[x]
        /\ S2.levels[p] = Joined(level, o, q)
    <3> QED BY <1>4, <2>1, <2>2, ShapeAdd
  <2> QED BY <2>3
<1>6. GoodLevel(level, sd, p, A, R, Q, O)
  <2>1. CASE p \in DOMAIN S.levels
    BY <2>1 DEF GoodSide
  <2>2. CASE p \notin DOMAIN S.levels
    <3>1. AtPrice(A, O, sd, p) = {}
      BY <2>2 DEF GoodSide, AtPrice
    <3>2. GoodLevel(EmptyLevel, sd, p, A, R, Q, O)
      BY <3>1, LevelEmpty
    <3> QED BY <2>2, <3>2
  <2> QED BY <2>1, <2>2
<1>7. GoodLevel(joined, sd, p, A2, R2, Q2, O)
  <2> HIDE DEF level
  <2>1. joined = [level EXCEPT !.queue = Append(@, o), !.quantity = @ + q]
    BY DEF Joined
  <2> HIDE DEF joined
  <2> QED BY <1>6, <2>1, LevelGrows
<1> HIDE DEF joined, level, A2, R2, Q2
<1>8. \A x \in DOMAIN S.levels : x # p => GoodLevel(S.levels[x], sd, x, A2, R2, Q2, O)
  BY <1>3, LevelsKept
<1>9. \A x \in DOMAIN S2.levels : GoodLevel(S2.levels[x], sd, x, A2, R2, Q2, O)
  <2> HIDE DEF p
  <2> QED BY <1>5, <1>7, <1>8
<1>10. \A x \in OfSide(A2, O, sd) : O[x].price \in DOMAIN S2.levels
  <2>1. \A x \in OfSide(A2, O, sd) : x = o \/ x \in OfSide(A, O, sd)
    BY DEF OfSide, A2
  <2>2. \A x \in OfSide(A, O, sd) : O[x].price \in DOMAIN S.levels
    BY DEF GoodSide
  <2> QED BY <1>5, <2>1, <2>2
<1>11. DOMAIN S2.levels \subseteq Prices
  BY <1>5 DEF GoodSide
<1>12. Adds(Only(R2, OfSide(A2, O, sd)), S2.total)
  <2>1. Adds(Only(R, OfSide(A, O, sd)), S.total) /\ R \in [Ids -> Nat]
    BY DEF GoodSide, Values
  <2>2. Differ(R, OfSide(A, O, sd), R2, OfSide(A2, O, sd), o)
    BY <1>1 DEF Differ, OfSide, A2
  <2>3. o \notin OfSide(A, O, sd) /\ o \in OfSide(A2, O, sd)
    BY DEF OfSide, A2
  <2>4. Only(R, OfSide(A, O, sd))[o] = 0 /\ Only(R2, OfSide(A2, O, sd))[o] = q
    BY <1>2, <2>3, OnlyAt
  <2>5. S.total \in Nat
    BY <2>1, OnlyBounds
  <2>6. S2.total = S.total - Only(R, OfSide(A, O, sd))[o] + Only(R2, OfSide(A2, O, sd))[o]
    BY <1>5, <2>4, <2>5
  <2> QED BY <1>1, <2>1, <2>2, <2>6, OnlyPut
<1>13. ASSUME q > 0 PROVE NoneEmptied(S2, S)
  <2>1. level = [queue |-> level.queue, quantity |-> level.quantity, dead |-> level.dead]
        /\ level.quantity \in Nat
    BY <1>6 DEF GoodLevel, Level
  <2>2. joined.quantity = level.quantity + q
    BY <2>1 DEF joined, Joined
  <2>3. joined.quantity # 0
    BY <1>13, <2>1, <2>2
  <2> HIDE DEF p
  <2> QED BY <1>5, <2>3 DEF NoneEmptied
<1>14. GoodSide(S2, sd, A2, R2, Q2, O)
  BY <1>5, <1>9, <1>10, <1>11, <1>12 DEF GoodSide
<1> QED BY <1>13, <1>14 DEF A2, R2, Q2

\* One level of a side is replaced, and the side's total.
Put(S, p, L, n) == [keys |-> S.keys, levels |-> [S.levels EXCEPT ![p] = L], total |-> n]

LEMMA ShapePut ==
    ASSUME NEW S, NEW sd, Shape(S, sd), NEW p \in DOMAIN S.levels, NEW L, NEW n,
           NEW S2, S2 = Put(S, p, L, n)
    PROVE  /\ Shape(S2, sd) /\ S2.keys = S.keys /\ S2.total = n
           /\ DOMAIN S2.levels = DOMAIN S.levels /\ S2.levels[p] = L
           /\ \A x \in DOMAIN S.levels : x # p => S2.levels[x] = S.levels[x]
<1> DEFINE levels == [S.levels EXCEPT ![p] = L]
<1>1. /\ DOMAIN levels = DOMAIN S.levels /\ levels[p] = L
      /\ \A x \in DOMAIN S.levels : x # p => levels[x] = S.levels[x]
  OBVIOUS
<1>2. S2 = [keys |-> S.keys, levels |-> levels, total |-> n]
  BY DEF Put
<1> HIDE DEF levels
<1>3. S2.keys = S.keys /\ S2.levels = levels /\ S2.total = n
      /\ S2 = [keys |-> S2.keys, levels |-> S2.levels, total |-> S2.total]
  BY <1>2
<1>4. Shape(S2, sd)
  BY <1>1, <1>3 DEF Shape
<1> QED BY <1>1, <1>3, <1>4

\* What Shrink, and a change of the level after it, does to a side.
LEMMA ShrinkIsPut ==
    ASSUME NEW S, NEW sd, Shape(S, sd), NEW p \in DOMAIN S.levels, NEW q,
           NEW L, L = [S.levels[p] EXCEPT !.quantity = @ - q]
    PROVE  Shrink(S, p, q) = Put(S, p, L, S.total - q)
<1>1. S = [keys |-> S.keys, levels |-> S.levels, total |-> S.total]
  BY DEF Shape
<1>2. Shrink(S, p, q) = [S EXCEPT !.levels = [S.levels EXCEPT ![p] = L], !.total = S.total - q]
  BY DEF Shrink
<1> QED BY <1>1, <1>2 DEF Put

LEMMA PutAgain ==
    ASSUME NEW S, NEW sd, Shape(S, sd), NEW p \in DOMAIN S.levels, NEW L, NEW n, NEW L2
    PROVE  [Put(S, p, L, n) EXCEPT !.levels[p] = L2] = Put(S, p, L2, n)
<1> DEFINE levels == [S.levels EXCEPT ![p] = L]
           levels2 == [S.levels EXCEPT ![p] = L2]
<1>1. [levels EXCEPT ![p] = L2] = levels2
  OBVIOUS
<1>2. Put(S, p, L, n) = [keys |-> S.keys, levels |-> levels, total |-> n]
  BY DEF Put
<1>3. Put(S, p, L2, n) = [keys |-> S.keys, levels |-> levels2, total |-> n]
  BY DEF Put
<1> HIDE DEF levels, levels2
<1>4. [Put(S, p, L, n) EXCEPT !.levels[p] = L2] = [keys |-> S.keys, levels |-> [levels EXCEPT ![p] = L2], total |-> n]
  BY <1>2
<1> QED BY <1>1, <1>3, <1>4

\* o, at price p, changed on a good side, whose total became n.
Changed(S, sd, A, R, Q, O, A2, R2, Q2, o, p, n) ==
    /\ GoodSide(S, sd, A, R, Q, O) /\ Moves(A, R, Q, A2, R2, Q2, O, sd, o)
    /\ A2 \subseteq A /\ p = O[o].price /\ p \in DOMAIN S.levels
    /\ Adds(Only(R2, OfSide(A2, O, sd)), n)

LEMMA ChangedMeans ==
    ASSUME NEW S, NEW sd, NEW A, NEW R, NEW Q, NEW O, NEW A2, NEW R2, NEW Q2, NEW o, NEW p, NEW n,
           Changed(S, sd, A, R, Q, O, A2, R2, Q2, o, p, n)
    PROVE  /\ GoodSide(S, sd, A, R, Q, O) /\ Moves(A, R, Q, A2, R2, Q2, O, sd, o)
           /\ A2 \subseteq A /\ p = O[o].price /\ p \in DOMAIN S.levels
           /\ Adds(Only(R2, OfSide(A2, O, sd)), n)
           /\ \A x \in DOMAIN S.levels : x # p => GoodLevel(S.levels[x], sd, x, A2, R2, Q2, O)
BY LevelsKept DEF Changed

LEMMA SidePut ==
    ASSUME NEW S, NEW sd, NEW A, NEW R, NEW Q, NEW O, NEW A2, NEW R2, NEW Q2, NEW o, NEW p,
           NEW n, Changed(S, sd, A, R, Q, O, A2, R2, Q2, o, p, n),
           NEW L, GoodLevel(L, sd, p, A2, R2, Q2, O),
           NEW S2, S2 = Put(S, p, L, n)
    PROVE  /\ GoodSide(S2, sd, A2, R2, Q2, O)
           /\ L.quantity # 0 => NoneEmptied(S2, S)
<1>0. /\ GoodSide(S, sd, A, R, Q, O) /\ A2 \subseteq A /\ p = O[o].price /\ p \in DOMAIN S.levels
      /\ Adds(Only(R2, OfSide(A2, O, sd)), n)
      /\ \A x \in DOMAIN S.levels : x # p => GoodLevel(S.levels[x], sd, x, A2, R2, Q2, O)
  BY ChangedMeans
<1>1. /\ Shape(S2, sd) /\ S2.total = n
      /\ DOMAIN S2.levels = DOMAIN S.levels /\ S2.levels[p] = L
      /\ \A x \in DOMAIN S.levels : x # p => S2.levels[x] = S.levels[x]
  <2>1. Shape(S, sd)
    BY <1>0 DEF GoodSide
  <2> QED BY <1>0, <2>1, ShapePut
<1>3. \A x \in DOMAIN S2.levels : GoodLevel(S2.levels[x], sd, x, A2, R2, Q2, O)
  BY <1>0, <1>1
<1>4. \A x \in OfSide(A2, O, sd) : O[x].price \in DOMAIN S2.levels
  BY <1>0, <1>1 DEF OfSide, GoodSide
<1>5. DOMAIN S2.levels \subseteq Prices
  BY <1>0, <1>1 DEF GoodSide
<1>6. L.quantity # 0 => NoneEmptied(S2, S)
  BY <1>0, <1>1 DEF NoneEmptied
<1> QED BY <1>0, <1>1, <1>3, <1>4, <1>5, <1>6 DEF GoodSide

LEMMA SideDrop ==
    ASSUME NEW S, NEW sd \in Sides, NEW A, NEW R, NEW Q, NEW O, NEW A2, NEW R2, NEW Q2, NEW o, NEW p,
           NEW n, Changed(S, sd, A, R, Q, O, A2, R2, Q2, o, p, n),
           AtPrice(A2, O, sd, p) = {}, NEW L,
           NEW S2, S2 = DropLevel(Put(S, p, L, n), sd, p)
    PROVE  GoodSide(S2, sd, A2, R2, Q2, O) /\ NoneEmptied(S2, S)
<1>0. /\ GoodSide(S, sd, A, R, Q, O) /\ A2 \subseteq A /\ p = O[o].price /\ p \in DOMAIN S.levels
      /\ Adds(Only(R2, OfSide(A2, O, sd)), n)
      /\ \A x \in DOMAIN S.levels : x # p => GoodLevel(S.levels[x], sd, x, A2, R2, Q2, O)
  BY ChangedMeans
<1> DEFINE S1 == Put(S, p, L, n)
<1>1. /\ Shape(S1, sd) /\ S1.total = n
      /\ DOMAIN S1.levels = DOMAIN S.levels
      /\ \A x \in DOMAIN S.levels : x # p => S1.levels[x] = S.levels[x]
  <2>1. Shape(S, sd)
    BY <1>0 DEF GoodSide
  <2> HIDE DEF S1
  <2>2. S1 = Put(S, p, L, n)
    BY DEF S1
  <2> QED BY <1>0, <2>1, <2>2, ShapePut
<1>2. /\ Shape(S2, sd)
      /\ DOMAIN S2.levels = DOMAIN S1.levels \ {p}
      /\ \A x \in DOMAIN S2.levels : S2.levels[x] = S1.levels[x]
      /\ S2.total = S1.total
  <2>1. S2 = DropLevel(S1, sd, p) /\ p \in DOMAIN S1.levels
    BY <1>0, <1>1
  <2> HIDE DEF S1
  <2> QED BY <1>1, <2>1, ShapeDrop
<1> HIDE DEF S1
<1>4. \A x \in DOMAIN S2.levels : GoodLevel(S2.levels[x], sd, x, A2, R2, Q2, O)
  BY <1>0, <1>1, <1>2
<1>5. ASSUME NEW x \in OfSide(A2, O, sd) PROVE O[x].price \in DOMAIN S2.levels
  <2>1. x \in OfSide(A, O, sd) /\ O[x].price # p
    BY <1>0 DEF OfSide, AtPrice
  <2>2. O[x].price \in DOMAIN S.levels
    BY <1>0, <2>1 DEF GoodSide
  <2> QED BY <1>1, <1>2, <2>1, <2>2
<1>6. DOMAIN S2.levels \subseteq Prices
  BY <1>0, <1>1, <1>2 DEF GoodSide
<1>7. Adds(Only(R2, OfSide(A2, O, sd)), S2.total)
  BY <1>0, <1>1, <1>2
<1>8. NoneEmptied(S2, S)
  BY <1>1, <1>2 DEF NoneEmptied
<1> QED BY <1>2, <1>4, <1>5, <1>6, <1>7, <1>8 DEF GoodSide

\* The total of a side after o has q less, and rests no more if nothing is left.
LEMMA TotalLess ==
    ASSUME NEW S, NEW sd, NEW A, NEW R, NEW Q, NEW O, NEW A2, NEW R2, NEW Q2, NEW o, NEW q \in Nat,
           GoodSide(S, sd, A, R, Q, O), Moves(A, R, Q, A2, R2, Q2, O, sd, o),
           o \in A, q <= R[o], o \in A2 => R2[o] = R[o] - q, o \notin A2 => q = R[o]
    PROVE  Adds(Only(R2, OfSide(A2, O, sd)), S.total - q)
<1>1. R \in [Ids -> Nat] /\ R2 \in [Ids -> Nat] /\ o \in Ids /\ O[o].side = sd
  BY DEF Moves, Values
<1> DEFINE T == OfSide(A, O, sd)
           T2 == OfSide(A2, O, sd)
<1>2. Differ(R, T, R2, T2, o) /\ o \in T /\ (o \in T2 <=> o \in A2)
  BY <1>1 DEF Moves, Differ, OfSide
<1>3. Adds(Only(R, T), S.total)
  BY DEF GoodSide
<1> HIDE DEF T, T2
<1>4. S.total \in Nat
  BY <1>1, <1>3, OnlyBounds
<1>5. Only(R, T)[o] = R[o] /\ R[o] \in Nat
  BY <1>1, <1>2, OnlyAt
<1>6. (o \in A2 => Only(R2, T2)[o] = R[o] - q) /\ (o \notin A2 => Only(R2, T2)[o] = 0)
  BY <1>1, <1>2, OnlyAt
<1>7. S.total - q = S.total - Only(R, T)[o] + Only(R2, T2)[o]
  <2>1. CASE o \in A2
    BY <1>4, <1>5, <1>6, <2>1
  <2>2. CASE o \notin A2
    BY <1>4, <1>5, <1>6, <2>2
  <2> QED BY <2>1, <2>2
<1>8. Adds(Only(R2, T2), S.total - q)
  BY <1>1, <1>2, <1>3, <1>7, OnlyPut
<1> QED BY <1>8 DEF T2

\* o rests no more: what is left of its level when the others stay as they are.
LEMMA Leaving ==
    ASSUME NEW sd, NEW A, NEW R, NEW Q, NEW O, NEW R2 \in [Ids -> Nat], Values(A, R, Q),
           NEW o \in A, O[o].side = sd, Elsewhere(R2, R, o)
    PROVE  Moves(A, R, Q, A \ {o}, R2, Q, O, sd, o)
<1>1. A \ {o} \in SUBSET Ids /\ o \in Ids
  BY DEF Values
<1>2. Differ(R, A, R2, A \ {o}, o)
  BY DEF Differ, Elsewhere
<1>3. Values(A \ {o}, R2, Q)
  BY <1>1 DEF Values
<1> QED BY <1>1, <1>2, <1>3 DEF Moves

\* The level of a resting order.
LEMMA LevelOf ==
    ASSUME NEW S, NEW sd, NEW A, NEW R, NEW Q, NEW O, GoodSide(S, sd, A, R, Q, O),
           NEW o \in A, O[o].side = sd, NEW p, p = O[o].price, NEW K, K = S.levels[p]
    PROVE  /\ p \in DOMAIN S.levels /\ o \in AtPrice(A, O, sd, p) /\ Shape(S, sd)
           /\ GoodLevel(K, sd, p, A, R, Q, O)
           /\ K = [queue |-> K.queue, quantity |-> K.quantity, dead |-> K.dead]
<1>1. o \in AtPrice(A, O, sd, p) /\ o \in OfSide(A, O, sd)
  BY DEF AtPrice, OfSide
<1>2. p \in DOMAIN S.levels /\ Shape(S, sd) /\ GoodLevel(K, sd, p, A, R, Q, O)
  BY <1>1 DEF GoodSide
<1>3. K = [queue |-> K.queue, quantity |-> K.quantity, dead |-> K.dead]
  BY <1>2, LevelFacts
<1> QED BY <1>1, <1>2, <1>3

\* Cancel and expiry take an order out of its side.
LEMMA GoodRemove ==
    ASSUME NEW S, NEW sd \in Sides, NEW A, NEW R, NEW Q,
           A = AliveIn(entry), R = RemainingIn(entry), Values(A, R, Q), \A x \in A : R[x] > 0,
           GoodSide(S, sd, A, R, Q, order), NEW o \in A, order[o].side = sd,
           NEW S2, S2 = RemoveEntry(S, sd, o)
    PROVE  GoodSide(S2, sd, A \ {o}, R, Q, order) /\ NoneEmptied(S2, S)
<1> DEFINE p == order[o].price
           K == S.levels[p]
           L1 == [K EXCEPT !.quantity = @ - R[o]]
           L2 == [L1 EXCEPT !.dead = @ + 1]
           n == S.total - R[o]
           S1 == Put(S, p, L1, n)
           A2 == A \ {o}
<1>1. /\ p \in DOMAIN S.levels /\ o \in AtPrice(A, order, sd, p) /\ Shape(S, sd)
      /\ GoodLevel(K, sd, p, A, R, Q, order)
      /\ K = [queue |-> K.queue, quantity |-> K.quantity, dead |-> K.dead]
  BY LevelOf
<1>2. A \in SUBSET Ids /\ R \in [Ids -> Nat] /\ o \in Ids /\ R[o] \in Nat
  BY DEF Values
<1>3. Moves(A, R, Q, A2, R, Q, order, sd, o)
  <2>1. Elsewhere(R, R, o)
    BY DEF Elsewhere
  <2> QED BY <1>2, <2>1, Leaving
<1>4. Shrink(S, p, entry[o].remaining) = S1 /\ S1.levels[p] = L1
  <2>1. entry[o].remaining = R[o]
    BY <1>2 DEF RemainingIn
  <2> HIDE DEF p
  <2>2. Shrink(S, p, R[o]) = S1
    BY <1>1, ShrinkIsPut
  <2>3. S1.levels[p] = L1
    <3> HIDE DEF L1, n, K
    <3> QED BY <1>1, ShapePut
  <2> QED BY <2>1, <2>2, <2>3
<1>5. L2 = [K EXCEPT !.quantity = @ - R[o], !.dead = @ + 1] /\ L2.quantity = L1.quantity
  <2> HIDE DEF K, p
  <2> QED BY <1>1
<1> DEFINE X == IF L2.dead > CompactMinDead /\ L2.dead * 2 > Len(L2.queue) THEN Compact(L2, o) ELSE L2
<1>6. S2 = IF IsEmptied(L1) THEN DropLevel(S1, sd, p) ELSE [S1 EXCEPT !.levels[p] = X]
  <2> HIDE DEF S1, L1
  <2> QED BY <1>4 DEF RemoveEntry
<1> HIDE DEF X
<1>7. GoodLevel(L2, sd, p, A2, R, Q, order)
  <2> HIDE DEF L2, L1, p, K
  <2> QED BY <1>1, <1>2, <1>5, LevelRemoves
<1>8. Adds(Only(R, OfSide(A2, order, sd)), n)
  <2>1. o \in A /\ R[o] <= R[o] /\ o \notin A2
    BY <1>2
  <2> HIDE DEF A2
  <2> QED BY <1>2, <1>3, <2>1, TotalLess
<1>9. A2 \subseteq A /\ Values(A2, R, Q) /\ \A x \in A2 : R[x] > 0
  BY DEF Values
<1> HIDE DEF L2, L1, n, A2, K
<1>10. Changed(S, sd, A, R, Q, order, A2, R, Q, o, p, n)
  BY <1>1, <1>3, <1>8, <1>9 DEF Changed
<1>11. CASE IsEmptied(L1)
  <2>1. S2 = DropLevel(Put(S, p, L1, n), sd, p)
    BY <1>6, <1>11
  <2>2. AtPrice(A2, order, sd, p) = {}
    <3>1. L2.quantity = 0
      BY <1>5, <1>11 DEF IsEmptied
    <3> QED BY <1>7, <1>9, <3>1, NothingLeft
  <2>3. GoodSide(S2, sd, A2, R, Q, order) /\ NoneEmptied(S2, S)
    BY <1>10, <2>1, <2>2, SideDrop
  <2> QED BY <2>3 DEF A2
<1>12. CASE ~IsEmptied(L1)
  <2>1. S2 = Put(S, p, X, n)
    <3>1. [Put(S, p, L1, n) EXCEPT !.levels[p] = X] = Put(S, p, X, n)
      <4> HIDE DEF p
      <4> QED BY <1>1, PutAgain
    <3> QED BY <1>6, <1>12, <3>1
  <2>2. GoodLevel(X, sd, p, A2, R, Q, order)
    <3>1. GoodLevel(Compact(L2, o), sd, p, A2, R, Q, order)
      <4>1. \A x \in Ids : x \in A2 <=> Stays(x, o)
        BY DEF A2, AliveIn, Stays
      <4> QED BY <1>7, <1>9, <4>1, LevelCompacts
    <3> QED BY <1>7, <3>1 DEF X
  <2>3. X.quantity # 0
    <3>1. L2 = [queue |-> L2.queue, quantity |-> L2.quantity, dead |-> L2.dead]
      BY <1>7 DEF GoodLevel, Level
    <3>2. Compact(L2, o).quantity = L2.quantity
      BY <3>1 DEF Compact
    <3> QED BY <1>5, <1>12, <3>2 DEF X, IsEmptied
  <2>4. GoodSide(S2, sd, A2, R, Q, order) /\ NoneEmptied(S2, S)
    BY <1>10, <2>1, <2>2, <2>3, SidePut
  <2> QED BY <2>4 DEF A2
<1> QED BY <1>11, <1>12

\* What rests, and what remains, after a fill of q units of o.
Fills(A, R, o, q, A2, R2) ==
    /\ q \in 1 .. R[o]
    /\ A2 = (IF q = R[o] THEN A \ {o} ELSE A)
    /\ R2 = [R EXCEPT ![o] = @ - q]

\* A fill takes q from the order at the front of a level.
LEMMA GoodFill ==
    ASSUME NEW S, NEW sd \in Sides, NEW A, NEW R, NEW Q, NEW O, Values(A, R, Q), \A x \in A : R[x] > 0,
           GoodSide(S, sd, A, R, Q, O), NEW o \in A, O[o].side = sd,
           S.levels[O[o].price].queue # << >>, S.levels[O[o].price].queue[1] = o,
           NEW q, NEW A2, NEW R2, Fills(A, R, o, q, A2, R2),
           NEW S2, S2 = FillBest(S, sd, O[o].price, q, R[o])
    PROVE  GoodSide(S2, sd, A2, R2, Q, O) /\ NoneEmptied(S2, S)
<1> DEFINE p == O[o].price
           K == S.levels[p]
           L1 == [K EXCEPT !.quantity = @ - q]
           L2 == [L1 EXCEPT !.queue = Tail(@)]
           n == S.total - q
           S1 == Put(S, p, L1, n)
           S3 == Put(S, p, L2, n)
<1>1. /\ p \in DOMAIN S.levels /\ o \in AtPrice(A, O, sd, p) /\ Shape(S, sd)
      /\ GoodLevel(K, sd, p, A, R, Q, O)
      /\ K = [queue |-> K.queue, quantity |-> K.quantity, dead |-> K.dead]
  BY LevelOf
<1>2. A \in SUBSET Ids /\ R \in [Ids -> Nat] /\ o \in Ids /\ R[o] \in Nat /\ q \in Nat /\ q <= R[o]
  BY DEF Values, Fills
<1>3. /\ R2 \in [Ids -> Nat] /\ R2[o] = R[o] - q /\ Elsewhere(R2, R, o)
      /\ A2 \subseteq A /\ (o \in A2 <=> q # R[o])
      /\ \A x \in Ids : x # o => (x \in A2 <=> x \in A)
  BY <1>2 DEF Elsewhere, Fills
<1>4. Moves(A, R, Q, A2, R2, Q, O, sd, o)
  <2>1. Differ(R, A, R2, A2, o)
    BY <1>2, <1>3 DEF Differ, Elsewhere
  <2>2. Values(A2, R2, Q)
    BY <1>3 DEF Values
  <2> QED BY <1>2, <2>1, <2>2 DEF Moves
<1>5. Shrink(S, p, q) = S1 /\ S1.levels[p] = L1
  <2> HIDE DEF p
  <2>1. Shrink(S, p, q) = S1
    BY <1>1, ShrinkIsPut
  <2>2. S1.levels[p] = L1
    <3> HIDE DEF L1, n, K
    <3> QED BY <1>1, ShapePut
  <2> QED BY <2>1, <2>2
<1>6. [S1 EXCEPT !.levels[p].queue = Tail(@)] = S3 /\ S3.levels[p] = L2
  <2>1. [S1 EXCEPT !.levels[p].queue = Tail(@)] = [S1 EXCEPT !.levels[p] = L2]
    <3> HIDE DEF S1, L1, p
    <3> QED BY <1>5
  <2> HIDE DEF L1, L2, n, K, p
  <2>2. [S1 EXCEPT !.levels[p] = L2] = S3
    BY <1>1, PutAgain
  <2>3. S3.levels[p] = L2
    BY <1>1, ShapePut
  <2> QED BY <2>1, <2>2, <2>3
<1>7. S2 = IF R[o] > q THEN S1 ELSE IF IsEmptied(L2) THEN DropLevel(S3, sd, p) ELSE S3
  <2> HIDE DEF S1, S3, L2
  <2> QED BY <1>5, <1>6 DEF FillBest
<1>8. Adds(Only(R2, OfSide(A2, O, sd)), n)
  BY <1>2, <1>3, <1>4, TotalLess
<1>9. Changed(S, sd, A, R, Q, O, A2, R2, Q, o, p, n)
  BY <1>1, <1>3, <1>4, <1>8 DEF Changed
<1>10. CASE R[o] > q
  <2>1. A2 = A /\ S2 = S1 /\ R2 = [R EXCEPT ![o] = @ - q]
    BY <1>2, <1>7, <1>10 DEF Fills
  <2>2. GoodLevel(L1, sd, p, A2, R2, Q, O)
    <3> HIDE DEF p, K
    <3>1. q \in 0 .. R[o]
      BY <1>2
    <3> QED BY <1>1, <2>1, <3>1, LevelShrinks
  <2>3. L1.quantity # 0
    <3> DEFINE T == AtPrice(A2, O, sd, p)
    <3>1. R2[o] > 0 /\ o \in T
      BY <1>1, <1>2, <1>3, <1>10, <2>1
    <3>2. Adds(Only(R2, T), L1.quantity)
      BY <2>2 DEF GoodLevel
    <3> HIDE DEF T, L1
    <3>3. Only(R2, T)[o] = R2[o]
      BY <1>2, <3>1, OnlyAt
    <3>4. Only(R2, T)[o] <= L1.quantity /\ L1.quantity \in Nat
      <4>1. Only(R2, T) \in [Ids -> Nat]
        BY <1>3, OnlyTyped
      <4> QED BY <1>2, <3>2, <4>1, AddsBounds
    <3> QED BY <1>2, <1>3, <3>1, <3>3, <3>4
  <2> HIDE DEF L1, n, K, p
  <2>4. S2 = Put(S, p, L1, n)
    BY <2>1
  <2> QED BY <1>9, <2>2, <2>3, <2>4, SidePut
<1>11. CASE ~(R[o] > q)
  <2>1. A2 = A \ {o} /\ q = R[o] /\ S2 = IF IsEmptied(L2) THEN DropLevel(S3, sd, p) ELSE S3
    BY <1>2, <1>7, <1>11 DEF Fills
  <2>2. GoodLevel(L2, sd, p, A2, R2, Q, O)
    <3>1. L2 = [K EXCEPT !.quantity = @ - R[o], !.queue = Tail(@)]
      <4> HIDE DEF K
      <4> QED BY <1>1, <2>1
    <3>2. K.queue # << >> /\ K.queue[1] = o
      OBVIOUS
    <3> HIDE DEF L1, L2, p, K
    <3> QED BY <1>1, <1>3, <2>1, <3>1, <3>2, LevelPops
  <2> HIDE DEF L1, L2, n, K, p
  <2>4. CASE IsEmptied(L2)
    <3>1. S2 = DropLevel(Put(S, p, L2, n), sd, p)
      BY <2>1, <2>4
    <3>2. Values(A2, R2, Q) /\ \A x \in A2 : R2[x] > 0
      BY <1>2, <1>3, <1>4, <2>1 DEF Moves, Elsewhere
    <3>3. AtPrice(A2, O, sd, p) = {}
      BY <2>2, <2>4, <3>2, NothingLeft DEF IsEmptied
    <3> QED BY <1>9, <3>1, <3>3, SideDrop
  <2>5. CASE ~IsEmptied(L2)
    <3>1. S2 = Put(S, p, L2, n)
      BY <2>1, <2>5
    <3>2. L2.quantity # 0
      BY <2>5 DEF IsEmptied
    <3> QED BY <1>9, <2>2, <3>1, <3>2, SidePut
  <2> QED BY <2>4, <2>5
<1> QED BY <1>10, <1>11

\* The live entries of a queue are the orders that rest at its price.
LEMMA LiveAtPrice ==
    ASSUME NEW L, NEW sd, NEW p, NEW A, A = AliveIn(entry), NEW R, NEW Q, Values(A, R, Q),
           GoodLevel(L, sd, p, A, R, Q, order)
    PROVE  /\ LiveIn(L.queue) \subseteq 1 .. Len(L.queue)
           /\ \A j \in LiveIn(L.queue) : L.queue[j] \in AtPrice(A, order, sd, p)
           /\ \A x \in AtPrice(A, order, sd, p) : \E j \in LiveIn(L.queue) : L.queue[j] = x
<1>1. L.queue \in Seq(Ids) /\ \A i \in 1 .. Len(L.queue) : L.queue[i] \in Ids
  BY QueuedOnce
<1>2. DOMAIN L.queue = 1 .. Len(L.queue)
  BY <1>1
<1>3. \A j \in 1 .. Len(L.queue) : j \in LiveIn(L.queue) <=> L.queue[j] \in A
  BY <1>1, <1>2 DEF LiveIn, AliveIn
<1>4. LiveIn(L.queue) \subseteq 1 .. Len(L.queue)
  BY <1>2 DEF LiveIn
<1>5. \A j \in 1 .. Len(L.queue) : order[L.queue[j]].side = sd /\ order[L.queue[j]].price = p
  BY DEF GoodLevel
<1>6. \A j \in LiveIn(L.queue) : L.queue[j] \in AtPrice(A, order, sd, p)
  BY <1>3, <1>4, <1>5 DEF AtPrice, OfSide
<1>7. ASSUME NEW x \in AtPrice(A, order, sd, p) PROVE \E j \in LiveIn(L.queue) : L.queue[j] = x
  <2>1. PICK j \in 1 .. Len(L.queue) : L.queue[j] = x
    BY LevelFacts
  <2>2. x \in A
    BY DEF AtPrice, OfSide
  <2> QED BY <1>3, <2>1, <2>2
<1> QED BY <1>4, <1>6, <1>7

\* o arrived before every other order that rests at its price.
FrontOf(o, T, Q) == o \in T /\ \A x \in T : x = o \/ Q[o] < Q[x]

LEMMA LevelFront ==
    ASSUME NEW L, NEW sd, NEW p, NEW A, A = AliveIn(entry), NEW R, NEW Q, Values(A, R, Q),
           GoodLevel(L, sd, p, A, R, Q, order), LiveIn(L.queue) # {},
           NEW L2, L2 = PopDead(L)
    PROVE  /\ GoodLevel(L2, sd, p, A, R, Q, order)
           /\ L2.queue # << >> /\ FrontOf(L2.queue[1], AtPrice(A, order, sd, p), Q)
           /\ L2.quantity = L.quantity
<1> DEFINE T == AtPrice(A, order, sd, p)
           live == LiveIn(L.queue)
           m == Min(live)
           q2 == SubSeq(L.queue, m, Len(L.queue))
<1>1. /\ live \subseteq 1 .. Len(L.queue)
      /\ \A j \in live : L.queue[j] \in T
      /\ \A x \in T : \E j \in live : L.queue[j] = x
  BY LiveAtPrice
<1>2. m \in live /\ \A j \in live : m <= j
  <2>1. live \in SUBSET Nat
    BY <1>1
  <2> HIDE DEF live
  <2>2. live # {}
    BY DEF live
  <2> QED BY <2>1, <2>2, LeastNat
<1> HIDE DEF m, live
<1>3. /\ L.queue \in Seq(Ids) /\ Len(L.queue) \in Nat /\ L.dead \in Nat
      /\ \A i \in 1 .. Len(L.queue) : L.queue[i] \in Ids
  BY QueuedOnce
<1>4. /\ L = [queue |-> L.queue, quantity |-> L.quantity, dead |-> L.dead]
      /\ L.dead = Len(L.queue) - Cardinality(T) /\ Adds(Only(R, T), L.quantity)
  BY LevelFacts
<1>5. m \in 1 .. Len(L.queue) /\ m \in Nat
  BY <1>1, <1>2
<1>6. /\ q2 \in Seq(Ids) /\ Len(q2) = Len(L.queue) - (m - 1)
      /\ \A i \in 1 .. Len(q2) : q2[i] = L.queue[i + (m - 1)]
  BY <1>3, <1>5
<1>7. L2.queue = q2 /\ L2.quantity = L.quantity /\ L2.dead = L.dead - (m - 1)
      /\ L2 = [queue |-> L2.queue, quantity |-> L2.quantity, dead |-> L2.dead]
  <2>1. L2 = [L EXCEPT !.queue = SubSeq(@, (m - 1) + 1, Len(@)), !.dead = @ - (m - 1)]
    BY DEF m, live, PopDead
  <2>2. (m - 1) + 1 = m
    BY <1>5
  <2> QED BY <1>4, <2>1, <2>2 
<1> HIDE DEF q2
<1>8. Thinned(q2, L.queue)
  <2>1. m - 1 \in 0 .. Len(L.queue)
    BY <1>3, <1>5
  <2> QED BY <1>3, <1>6, <2>1, ThinnedFront
<1>9. ASSUME NEW x \in T
      PROVE  \E i \in 1 .. Len(q2) : q2[i] = x /\ \E j \in live : L.queue[j] = x /\ j = i + (m - 1)
  <2>1. PICK j \in live : L.queue[j] = x
    BY <1>1
  <2>2. m <= j /\ j \in 1 .. Len(L.queue)
    BY <1>1, <1>2
  <2>3. j - (m - 1) \in 1 .. Len(q2) /\ (j - (m - 1)) + (m - 1) = j
    BY <1>3, <1>5, <1>6, <2>2
  <2> QED BY <1>6, <2>1, <2>3
<1>10. Cardinality(T) \in Nat
  BY AtPriceTypes DEF Values
<1> HIDE DEF T
<1>11. L2.dead = Len(L2.queue) - Cardinality(T)
  BY <1>3, <1>4, <1>5, <1>6, <1>7, <1>10
<1>12. \A x \in T : \E i \in 1 .. Len(L2.queue) : L2.queue[i] = x
  BY <1>7, <1>9
<1>13. ThinnedLevel(L2, L, sd, p, A, R, order)
  BY <1>4, <1>6, <1>7, <1>8, <1>11, <1>12 DEF ThinnedLevel, T
<1>14. GoodLevel(L2, sd, p, A, R, Q, order)
  <2>1. A \in SUBSET A /\ R \in [Ids -> Nat]
    BY DEF Values
  <2> QED BY <1>13, <2>1, LevelThins
<1>15. 1 \in 1 .. Len(q2) /\ L2.queue[1] = L.queue[m]
  <2>1. 1 \in 1 .. Len(q2) /\ 1 + (m - 1) = m
    BY <1>3, <1>5, <1>6
  <2>2. q2[1] = L.queue[1 + (m - 1)]
    BY <1>6, <2>1
  <2> QED BY <1>7, <2>1, <2>2
<1>16. ASSUME NEW x \in T PROVE x = L.queue[m] \/ Q[L.queue[m]] < Q[x]
  <2>1. PICK j \in live : L.queue[j] = x
    BY <1>1
  <2>2. j = m \/ m < j
    BY <1>1, <1>2, <1>5
  <2>3. j \in 1 .. Len(L.queue)
    BY <1>1
  <2>4. m < j => Q[L.queue[m]] < Q[L.queue[j]]
    BY <1>5, <2>3 DEF GoodLevel
  <2> QED BY <2>1, <2>2, <2>4
<1>17. L2.queue # << >>
  BY <1>6, <1>7, <1>15
<1>18. L.queue[m] \in T
  BY <1>1, <1>2
<1> QED BY <1>7, <1>14, <1>15, <1>16, <1>17, <1>18 DEF FrontOf, T

\* o comes before every other order that rests on its side.
Leads(o, A, Q, O, sd) ==
    /\ o \in OfSide(A, O, sd)
    /\ \A x \in OfSide(A, O, sd) :
         \/ x = o
         \/ Key(sd, O[o].price) < Key(sd, O[x].price)
         \/ O[o].price = O[x].price /\ Q[o] < Q[x]

\* The prices of the levels before the n-th.
GoneBefore(S, sd, n) == {PriceOf(sd, S.keys[i]) : i \in 1 .. n - 1}

\* The price keys from the first level with a live entry on.
StartsAt(S2, S, sd, n) ==
    /\ S2 = [keys |-> S2.keys, levels |-> S2.levels, total |-> S2.total]
    /\ S2.keys = SubSeq(S.keys, n, Len(S.keys))
    /\ DOMAIN S2.levels = DOMAIN S.levels \ GoneBefore(S, sd, n)

LEMMA ShapeFront ==
    ASSUME NEW S, NEW sd \in Sides, Shape(S, sd), NEW n \in 1 .. Len(S.keys),
           NEW S2, StartsAt(S2, S, sd, n)
    PROVE  /\ Shape(S2, sd) /\ S2.keys # << >> /\ S2.keys[1] = S.keys[n]
           /\ \A x \in DOMAIN S2.levels : \E i \in n .. Len(S.keys) : x = PriceOf(sd, S.keys[i])
           /\ \A i \in n .. Len(S.keys) : PriceOf(sd, S.keys[i]) \in DOMAIN S2.levels
<1> DEFINE gone == {PriceOf(sd, S.keys[i]) : i \in 1 .. n - 1}
<1>0. /\ S2 = [keys |-> S2.keys, levels |-> S2.levels, total |-> S2.total]
      /\ S2.keys = SubSeq(S.keys, n, Len(S.keys)) /\ DOMAIN S2.levels = DOMAIN S.levels \ gone
  BY DEF StartsAt, GoneBefore
<1>1. /\ Len(S.keys) \in Nat /\ n \in Nat
      /\ \A i \in 1 .. Len(S.keys) : S.keys[i] \in Int /\ PriceOf(sd, S.keys[i]) \in DOMAIN S.levels
      /\ \A p \in DOMAIN S.levels : \E i \in 1 .. Len(S.keys) : p = PriceOf(sd, S.keys[i])
      /\ \A i, j \in 1 .. Len(S.keys) : S.keys[i] = S.keys[j] => i = j
  <2>1. /\ Len(S.keys) \in Nat
        /\ \A i \in 1 .. Len(S.keys) : S.keys[i] \in Int /\ PriceOf(sd, S.keys[i]) \in DOMAIN S.levels
        /\ \A i, j \in 1 .. Len(S.keys) : S.keys[i] = S.keys[j] => i = j
    BY ShapeKeys
  <2>2. \A p \in DOMAIN S.levels : \E i \in 1 .. Len(S.keys) : p = PriceOf(sd, S.keys[i])
    BY ShapeKeys
  <2>3. n \in Nat
    BY <2>1
  <2> QED BY <2>1, <2>2, <2>3
<1>2. S.keys \in Seq(Int)
  BY DEF Shape
<1>3. /\ S2.keys \in Seq(Int) /\ Len(S2.keys) = Len(S.keys) - n + 1
      /\ \A i \in 1 .. Len(S2.keys) : S2.keys[i] = S.keys[i + n - 1]
  <2> DEFINE keys == SubSeq(S.keys, n, Len(S.keys))
  <2>1. /\ keys \in Seq(Int) /\ Len(keys) = Len(S.keys) - n + 1
        /\ \A i \in 1 .. Len(keys) : keys[i] = S.keys[i + n - 1]
    <3>1. Len(S.keys) \in Int /\ n \in Int /\ n <= Len(S.keys) /\ \A i \in n .. Len(S.keys) : S.keys[i] \in Int
      BY <1>1
    <3>2. /\ keys \in Seq(Int)
          /\ Len(keys) = IF n <= Len(S.keys) THEN Len(S.keys) - n + 1 ELSE 0
          /\ \A i \in 1 .. Len(S.keys) - n + 1 : keys[i] = S.keys[n + i - 1]
      BY <3>1, SubSeqProperties
    <3> HIDE DEF keys
    <3>3. \A i \in 1 .. Len(keys) : n + i - 1 = i + n - 1
      BY <3>1, <3>2
    <3> QED BY <3>1, <3>2, <3>3
  <2>2. S2.keys = keys
    BY <1>0
  <2> HIDE DEF keys
  <2> QED BY <2>1, <2>2
<1>4. \A i \in 1 .. Len(S2.keys) : i + n - 1 \in n .. Len(S.keys) /\ i + n - 1 \in 1 .. Len(S.keys)
  BY <1>1, <1>3
<1>5. \A i \in n .. Len(S.keys) : /\ i \in 1 .. Len(S.keys) /\ i - n + 1 \in 1 .. Len(S2.keys)
                                  /\ (i - n + 1) + n - 1 = i
  BY <1>1, <1>3
<1>6. Ascending(S2.keys)
  <2> SUFFICES ASSUME NEW i \in 1 .. Len(S2.keys), NEW j \in 1 .. Len(S2.keys), i < j
               PROVE  S2.keys[i] < S2.keys[j]
    BY DEF Ascending
  <2>1. i + n - 1 < j + n - 1
    BY <1>1
  <2>2. S.keys[i + n - 1] < S.keys[j + n - 1]
    BY <1>4, <2>1 DEF Shape, Ascending
  <2> QED BY <1>3, <2>2
<1>7. ASSUME NEW i \in n .. Len(S.keys) PROVE PriceOf(sd, S.keys[i]) \in DOMAIN S2.levels
  <2>1. i \in 1 .. Len(S.keys)
    BY <1>5
  <2>2. ASSUME NEW j \in 1 .. n - 1 PROVE PriceOf(sd, S.keys[i]) # PriceOf(sd, S.keys[j])
    <3>1. j \in 1 .. Len(S.keys) /\ i # j
      BY <1>1
    <3>2. S.keys[i] # S.keys[j] /\ S.keys[i] \in Int /\ S.keys[j] \in Int
      BY <1>1, <2>1, <3>1
    <3>3. Key(sd, PriceOf(sd, S.keys[i])) = S.keys[i] /\ Key(sd, PriceOf(sd, S.keys[j])) = S.keys[j]
      BY <3>2, KeyInverse
    <3> QED BY <3>2, <3>3
  <2> QED BY <1>0, <1>1, <2>1, <2>2
<1>8. ASSUME NEW x \in DOMAIN S2.levels PROVE \E i \in n .. Len(S.keys) : x = PriceOf(sd, S.keys[i])
  <2>1. PICK i \in 1 .. Len(S.keys) : x = PriceOf(sd, S.keys[i])
    BY <1>0, <1>1
  <2>2. i \notin 1 .. n - 1
    BY <1>0, <2>1
  <2>3. i \in n .. Len(S.keys)
    BY <1>1, <2>2
  <2> QED BY <2>1, <2>3
<1>9. DOMAIN S2.levels = {PriceOf(sd, S2.keys[i]) : i \in 1 .. Len(S2.keys)}
  <2>1. ASSUME NEW x \in DOMAIN S2.levels PROVE \E i \in 1 .. Len(S2.keys) : x = PriceOf(sd, S2.keys[i])
    <3>1. PICK i \in n .. Len(S.keys) : x = PriceOf(sd, S.keys[i])
      BY <1>8
    <3>2. i - n + 1 \in 1 .. Len(S2.keys) /\ S2.keys[i - n + 1] = S.keys[i]
      BY <1>3, <1>5
    <3> QED BY <3>1, <3>2
  <2>2. ASSUME NEW i \in 1 .. Len(S2.keys) PROVE PriceOf(sd, S2.keys[i]) \in DOMAIN S2.levels
    BY <1>3, <1>4, <1>7
  <2> QED BY <2>1, <2>2
<1>10. S2.keys # << >> /\ S2.keys[1] = S.keys[n]
  <2>1. 1 \in 1 .. Len(S2.keys) /\ 1 + n - 1 = n
    BY <1>1, <1>3
  <2>2. S2.keys[1] = S.keys[1 + n - 1]
    BY <1>3, <2>1
  <2> DEFINE keys == S2.keys
  <2>3. keys \in Seq(Int) /\ Len(keys) # 0
    BY <1>1, <1>3
  <2> HIDE DEF keys
  <2>4. keys # << >>
    BY <2>3
  <2> QED BY <2>1, <2>2, <2>4 DEF keys
<1>11. Shape(S2, sd)
  BY <1>0, <1>3, <1>6, <1>9 DEF Shape
<1> QED BY <1>7, <1>8, <1>10, <1>11

\* What best() leaves of a side, and returns.
LEMMA GoodFront ==
    ASSUME NEW S, NEW sd \in Sides, NEW A, A = AliveIn(entry), NEW R, NEW Q, Values(A, R, Q),
           GoodSide(S, sd, A, R, Q, order),
           NEW S2, S2 = DropDeadFront(S, sd), NEW o, o = Best(S2, sd)
    PROVE  /\ GoodSide(S2, sd, A, R, Q, order) /\ NoneEmptied(S2, S)
           /\ o = 0 => OfSide(A, order, sd) = {}
           /\ o # 0 => /\ Leads(o, A, Q, order, sd)
                       /\ S2.levels[order[o].price].queue # << >>
                       /\ S2.levels[order[o].price].queue[1] = o
<1> DEFINE At(i) == S.levels[PriceOf(sd, S.keys[i])]
           live == {i \in DOMAIN S.keys : LiveIn(At(i).queue) # {}}
           T == OfSide(A, order, sd)
<1>1. /\ Shape(S, sd) /\ DOMAIN S.levels \subseteq Prices
      /\ \A p \in DOMAIN S.levels : GoodLevel(S.levels[p], sd, p, A, R, Q, order)
      /\ \A x \in T : order[x].price \in DOMAIN S.levels
      /\ Adds(Only(R, T), S.total)
  BY DEF GoodSide
<1>2. /\ Len(S.keys) \in Nat
      /\ \A i \in 1 .. Len(S.keys) : S.keys[i] \in Int /\ PriceOf(sd, S.keys[i]) \in DOMAIN S.levels
      /\ \A p \in DOMAIN S.levels : \E i \in 1 .. Len(S.keys) : S.keys[i] = Key(sd, p) /\ p = PriceOf(sd, S.keys[i])
  BY <1>1, ShapeKeys
<1>3. /\ S = [keys |-> S.keys, levels |-> S.levels, total |-> S.total]
      /\ S.keys \in Seq(Int) /\ DOMAIN S.keys = 1 .. Len(S.keys)
      /\ \A i, j \in 1 .. Len(S.keys) : i < j => S.keys[i] < S.keys[j]
  BY <1>1 DEF Shape, Ascending
\* A resting order's level is live.
<1>4. ASSUME NEW x \in T
      PROVE  \E i \in live : S.keys[i] = Key(sd, order[x].price) /\ order[x].price = PriceOf(sd, S.keys[i])
  <2> DEFINE p == order[x].price
             L == S.levels[p]
  <2>1. PICK i \in 1 .. Len(S.keys) : S.keys[i] = Key(sd, p) /\ p = PriceOf(sd, S.keys[i])
    BY <1>1, <1>2
  <2>2. GoodLevel(L, sd, p, A, R, Q, order)
    BY <1>1
  <2>3. x \in AtPrice(A, order, sd, p)
    BY DEF AtPrice
  <2> HIDE DEF L, p
  <2>4. LiveIn(L.queue) # {}
    BY <2>2, <2>3, LiveAtPrice
  <2>5. At(i) = L
    BY <2>1 DEF L
  <2>6. i \in live
    BY <1>3, <2>4, <2>5
  <2> QED BY <2>1, <2>6 DEF p
<1>5. CASE live = {}
  <2>1. T = {}
    BY <1>4, <1>5
  <2>2. S2 = [keys |-> << >>, levels |-> << >>, total |-> S.total]
    <3>1. S2 = [S EXCEPT !.keys = << >>, !.levels = << >>]
      BY <1>5 DEF DropDeadFront, LevelAt
    <3> QED BY <1>3, <3>1
  <2>3. S2.keys = << >> /\ S2.levels = << >> /\ S2.total = S.total /\ Len(S2.keys) = 0 /\ DOMAIN S2.levels = {}
        /\ S2.keys \in Seq(Int)
    BY <2>2
  <2>4. Shape(S2, sd)
    BY <2>2, <2>3 DEF Shape, Ascending
  <2>5. GoodSide(S2, sd, A, R, Q, order)
    <3>1. \A x \in OfSide(A, order, sd) : order[x].price \in DOMAIN S2.levels
      BY <2>1
    <3>2. Adds(Only(R, OfSide(A, order, sd)), S2.total)
      BY <1>1, <2>3
    <3> QED BY <2>3, <2>4, <3>1, <3>2 DEF GoodSide
  <2>6. o = 0 /\ NoneEmptied(S2, S)
    BY <2>3 DEF Best, NoneEmptied
  <2> QED BY <2>1, <2>5, <2>6
<1>6. CASE live # {}
  <2> DEFINE n == Min(live)
             best == PriceOf(sd, S.keys[n])
             K == S.levels[best]
             K2 == PopDead(K)
             gone == GoneBefore(S, sd, n)
             levels == [p \in DOMAIN S.levels \ gone |-> IF p # best THEN S.levels[p] ELSE PopDead(S.levels[p])]
             keys == SubSeq(S.keys, n, Len(S.keys))
  <2>1. n \in live /\ \A i \in live : n <= i
    <3>1. live \in SUBSET Nat
      BY <1>3
    <3> HIDE DEF live
    <3> QED BY <1>6, <3>1, LeastNat
  <2>2. S2 = [keys |-> keys, levels |-> levels, total |-> S.total]
    <3>1. S2 = [S EXCEPT !.keys = keys, !.levels = levels]
      <4>1. S2 = IF live = {} THEN [S EXCEPT !.keys = << >>, !.levels = << >>]
                 ELSE [S EXCEPT !.keys = keys, !.levels = levels]
        BY Zenon DEF DropDeadFront, LevelAt, GoneBefore
      <4> HIDE DEF levels, live, keys
      <4> QED BY <1>6, <4>1
    <3> HIDE DEF keys, levels
    <3> QED BY <1>3, <3>1
  <2> HIDE DEF n
  <2>3. n \in 1 .. Len(S.keys) /\ LiveIn(K.queue) # {} /\ best \in DOMAIN S.levels
    BY <1>2, <1>3, <2>1
  <2>4. /\ S2.keys = keys /\ S2.levels = levels /\ S2.total = S.total
        /\ S2 = [keys |-> S2.keys, levels |-> S2.levels, total |-> S2.total]
        /\ DOMAIN S2.levels = DOMAIN S.levels \ gone
        /\ \A p \in DOMAIN S2.levels : S2.levels[p] = IF p # best THEN S.levels[p] ELSE K2
    <3> HIDE DEF keys, best, gone
    <3> QED BY <2>2
  <2> HIDE DEF levels, live
  <2>5. /\ Shape(S2, sd) /\ S2.keys # << >> /\ S2.keys[1] = S.keys[n]
        /\ \A i \in n .. Len(S.keys) : PriceOf(sd, S.keys[i]) \in DOMAIN S2.levels
    <3>1. StartsAt(S2, S, sd, n)
      BY <2>4 DEF StartsAt
    <3> HIDE DEF gone, keys, best, K2, K
    <3> QED BY <1>1, <2>3, <3>1, ShapeFront
  <2>6. best \in DOMAIN S2.levels /\ n \in Nat
    BY <1>2, <2>3, <2>5
  <2> HIDE DEF best, gone, keys
  <2>7. /\ GoodLevel(K2, sd, best, A, R, Q, order)
        /\ K2.queue # << >> /\ FrontOf(K2.queue[1], AtPrice(A, order, sd, best), Q)
        /\ K2.quantity = K.quantity
    <3>1. GoodLevel(K, sd, best, A, R, Q, order)
      BY <1>1, <2>3
    <3>2. LiveIn(K.queue) # {}
      BY <2>3
    <3>3. K2 = PopDead(K)
      OBVIOUS
    <3> HIDE DEF K2, K
    <3> QED BY <3>1, <3>2, <3>3, LevelFront
  <2>14. NoneEmptied(S2, S)
    <3> HIDE DEF K2, gone
    <3> QED BY <2>4, <2>7 DEF NoneEmptied
  <2> HIDE DEF K2, K
  <2>8. GoodSide(S2, sd, A, R, Q, order)
    <3>1. \A p \in DOMAIN S2.levels : GoodLevel(S2.levels[p], sd, p, A, R, Q, order)
      BY <1>1, <2>4, <2>7
    <3>2. ASSUME NEW x \in T PROVE order[x].price \in DOMAIN S2.levels
      <4>1. PICK i \in live : S.keys[i] = Key(sd, order[x].price) /\ order[x].price = PriceOf(sd, S.keys[i])
        BY <1>4
      <4>2. i \in n .. Len(S.keys)
        <5>1. i \in 1 .. Len(S.keys) /\ n <= i
          BY <1>3, <2>1 DEF live
        <5> QED BY <2>3, <5>1
      <4> QED BY <2>5, <4>1, <4>2
    <3>3. DOMAIN S2.levels \subseteq Prices /\ Adds(Only(R, T), S2.total)
      BY <1>1, <2>4
    <3> QED BY <2>5, <3>1, <3>2, <3>3 DEF GoodSide
  <2>9. o = K2.queue[1]
    <3>1. LevelAt(S2, sd, 1) = K2
      BY <2>4, <2>5, <2>6 DEF LevelAt, best
    <3> QED BY <2>5, <3>1 DEF Best
  <2>10. o \in T /\ order[o].price = best /\ o \in Ids
    <3>1. o \in AtPrice(A, order, sd, best)
      BY <2>7, <2>9 DEF FrontOf
    <3> QED BY <3>1 DEF AtPrice, OfSide, Values
  <2>11. ASSUME NEW x \in T
         PROVE  \/ x = o
                \/ Key(sd, order[o].price) < Key(sd, order[x].price)
                \/ order[o].price = order[x].price /\ Q[o] < Q[x]
    <3>1. PICK i \in live : S.keys[i] = Key(sd, order[x].price) /\ order[x].price = PriceOf(sd, S.keys[i])
      BY <1>4
    <3>2. i \in 1 .. Len(S.keys) /\ n <= i
      BY <1>3, <2>1 DEF live
    <3>3. CASE i = n
      <4>1. order[x].price = best
        BY <3>1, <3>3 DEF best
      <4>2. x \in AtPrice(A, order, sd, best)
        BY <4>1 DEF AtPrice
      <4> QED BY <2>7, <2>9, <2>10, <4>1, <4>2 DEF FrontOf
    <3>4. CASE n < i
      <4>1. S.keys[n] < S.keys[i]
        BY <1>3, <2>3, <3>2, <3>4
      <4>2. Key(sd, best) = S.keys[n]
        BY <1>2, <2>3, KeyInverse DEF best
      <4> QED BY <2>10, <3>1, <4>1, <4>2
    <3> QED BY <2>3, <3>2, <3>3, <3>4
  <2>12. o # 0
    BY <2>10, BoundAssumption DEF Ids
  <2>13. S2.levels[order[o].price] = K2
    BY <2>4, <2>6, <2>10
  <2> QED BY <2>7, <2>8, <2>9, <2>10, <2>11, <2>12, <2>13, <2>14 DEF Leads
<1> QED BY <1>5, <1>6

-----------------------------------------------------------------------------
(* The invariant holds at first and is kept by every step *)

LEMMA EntryValues ==
    ASSUME NEW E \in [Ids -> Entry]
    PROVE  /\ Values(AliveIn(E), RemainingIn(E), SequenceIn(E))
           /\ \A o \in Ids : /\ o \in AliveIn(E) <=> E[o].alive
                             /\ RemainingIn(E)[o] = E[o].remaining /\ SequenceIn(E)[o] = E[o].sequence
                             /\ E[o].remaining \in Nat /\ E[o].sequence \in Nat /\ E[o].restedAt \in Nat
                             /\ E[o].alive \in BOOLEAN
<1>1. \A o \in Ids : /\ E[o].remaining \in Nat /\ E[o].sequence \in Nat /\ E[o].restedAt \in Nat
                     /\ E[o].alive \in BOOLEAN
  BY DEF Entry
<1>2. AliveIn(E) \in SUBSET Ids /\ RemainingIn(E) \in [Ids -> Nat] /\ SequenceIn(E) \in [Ids -> Nat]
  BY <1>1 DEF AliveIn, RemainingIn, SequenceIn
<1>3. \A o \in Ids : /\ o \in AliveIn(E) <=> E[o].alive
                     /\ RemainingIn(E)[o] = E[o].remaining /\ SequenceIn(E)[o] = E[o].sequence
  BY DEF AliveIn, RemainingIn, SequenceIn
<1> QED BY <1>1, <1>2, <1>3 DEF Values

\* Who rests has been issued, has a quantity, and is not being submitted.
LEMMA Resting ==
    ASSUME Inv, NEW o, o \in AliveIn(entry)
    PROVE  /\ o \in Ids /\ o \in 1 .. issued /\ order[o] \in Order
           /\ entry[o].alive /\ entry[o].remaining \in Nat /\ entry[o].remaining > 0
           /\ entry[o].sequence > 0 /\ ~(call.op = "submit" /\ call.id = o)
<1>1. entry \in [Ids -> Entry] /\ o \in Ids /\ entry[o].alive
  BY DEF Inv, TypeInv, AliveIn
<1>2. entry[o].remaining > 0 /\ entry[o].sequence > 0
  BY <1>1 DEF Inv, EntryInv
<1>3. o <= issued /\ ~(call.op = "submit" /\ call.id = o)
  BY <1>1, <1>2 DEF Inv, EntryInv
<1>4. o \in 1 .. issued
  <2>1. issued \in 0 .. MaxOrders
    BY DEF Inv, TypeInv
  <2> QED BY <1>1, <1>3, <2>1, BoundAssumption DEF Ids
<1>5. order[o] \in Order
  BY <1>4 DEF Inv, TypeInv
<1>6. entry[o].remaining \in Nat
  BY <1>1, EntryValues
<1> QED BY <1>1, <1>2, <1>3, <1>4, <1>5, <1>6

LEMMA InvInit == Init => Inv
<1> SUFFICES ASSUME Init PROVE Inv
  OBVIOUS
<1>1. /\ entry = [o \in Ids |-> NoEntry] /\ sides = [sd \in Sides |-> EmptySide]
      /\ index = {} /\ arrivals = << >> /\ order = [o \in Ids |-> NoOrder]
      /\ issued = 0 /\ sequence = 0 /\ recent = << >> /\ now = 0 /\ call = NoCall
      /\ filled = [o \in Ids |-> 0] /\ withdrawn = [o \in Ids |-> 0]
  BY DEF Init
<1>2. /\ \A o \in Ids : entry[o] = NoEntry
      /\ NoEntry.alive = FALSE /\ NoEntry.remaining = 0 /\ NoEntry.sequence = 0 /\ NoEntry.restedAt = 0
      /\ NoEntry \in Entry
  BY <1>1 DEF NoEntry, Entry
<1>3. entry \in [Ids -> Entry] /\ AliveIn(entry) = {}
  BY <1>1, <1>2 DEF AliveIn
<1>4. TypeInv
  <2>1. NoCall \in CallType
    <3>1. << >> \in Seq(Trade) /\ 0 \in 0 .. MaxOrders
      BY BoundAssumption
    <3> QED BY <3>1 DEF NoCall, CallType
  <2>2. order \in [Ids -> Order \cup {NoOrder}] /\ \A o \in 1 .. issued : order[o] \in Order
    BY <1>1
  <2>3. issued \in 0 .. MaxOrders /\ Len(recent) <= RecentTradeCapacity /\ recent \in Seq(Trade)
        /\ arrivals \in Seq(Ids)
    BY <1>1, BoundAssumption
  <2>4. DOMAIN sides = Sides /\ sides = [sd \in Sides |-> sides[sd]]
    BY <1>1
  <2>5. filled \in [Ids -> Nat] /\ withdrawn \in [Ids -> Nat] /\ index \subseteq Ids
    BY <1>1
  <2> QED BY <1>1, <1>3, <2>1, <2>2, <2>3, <2>4, <2>5 DEF TypeInv
<1>5. EntryInv
  BY <1>1, <1>2, <1>3 DEF EntryInv
<1>6. CallInv
  BY <1>1, <1>3 DEF CallInv, NoCall
<1>7. ArrivalInv
  BY <1>1, <1>3 DEF ArrivalInv
<1>8. SidesInv
  <2> SUFFICES ASSUME NEW sd \in Sides
               PROVE  GoodSide(sides[sd], sd, AliveIn(entry), RemainingIn(entry), SequenceIn(entry), order)
    BY DEF SidesInv
  <2> DEFINE S == sides[sd]
  <2>1. S = [keys |-> << >>, levels |-> << >>, total |-> 0]
    BY <1>1 DEF EmptySide
  <2>2. S.keys = << >> /\ S.levels = << >> /\ S.total = 0 /\ Len(S.keys) = 0 /\ DOMAIN S.levels = {}
        /\ S.keys \in Seq(Int)
    BY <2>1
  <2>3. Shape(S, sd)
    BY <2>1, <2>2 DEF Shape, Ascending
  <2>4. OfSide(AliveIn(entry), order, sd) = {}
    BY <1>3 DEF OfSide
  <2>5. Adds(Only(RemainingIn(entry), OfSide(AliveIn(entry), order, sd)), 0)
    BY <2>4, AddsZero DEF Only
  <2> QED BY <2>2, <2>3, <2>4, <2>5 DEF GoodSide
<1> QED BY <1>4, <1>5, <1>6, <1>7, <1>8 DEF Inv

\* The tape stays within its capacity.
LEMMA NewestTyped ==
    ASSUME NEW tape \in Seq(Trade)
    PROVE  Newest(tape) \in Seq(Trade) /\ Len(Newest(tape)) <= RecentTradeCapacity
<1>1. Len(tape) \in Nat /\ RecentTradeCapacity \in Nat \ {0} /\ \A i \in 1 .. Len(tape) : tape[i] \in Trade
  BY BoundAssumption
<1>2. CASE Len(tape) <= RecentTradeCapacity
  BY <1>2 DEF Newest
<1>3. CASE Len(tape) > RecentTradeCapacity
  <2> DEFINE m == Len(tape) - RecentTradeCapacity + 1
             s == SubSeq(tape, m, Len(tape))
  <2>1. m \in Int /\ Len(tape) \in Int /\ m <= Len(tape) /\ Len(tape) - m + 1 = RecentTradeCapacity
        /\ \A i \in m .. Len(tape) : i \in 1 .. Len(tape)
    BY <1>1, <1>3
  <2>2. Newest(tape) = s
    BY <1>1, <1>3 DEF Newest
  <2> HIDE DEF m
  <2>3. s \in Seq(Trade) /\ Len(s) = IF m <= Len(tape) THEN Len(tape) - m + 1 ELSE 0
    BY <1>1, <2>1, SubSeqProperties
  <2> HIDE DEF s
  <2> QED BY <1>1, <2>1, <2>2, <2>3
<1> QED BY <1>1, <1>2, <1>3

LEMMA NoCallTyped == NoCall \in CallType /\ NoCall.op = "none"
<1>1. << >> \in Seq(Trade) /\ 0 \in 0 .. MaxOrders
  BY BoundAssumption
<1> QED BY <1>1 DEF NoCall, CallType

\* A step that changes no order, entry, level or arrival keeps what is said of them.
LEMMA InvFrame ==
    ASSUME Inv, UNCHANGED <<issued, order, entry, sides, index, arrivals, sequence, filled, withdrawn>>,
           recent' \in Seq(Trade), Len(recent') <= RecentTradeCapacity,
           now' \in Nat, now' >= now, call' \in CallType, CallInv',
           call'.op = "submit" => call.op = "submit" /\ call'.id = call.id
    PROVE  Inv'
<1>1. TypeInv'
  BY DEF Inv, TypeInv
<1>2. EntryInv'
  <2>1. index' = AliveIn(entry')
    BY DEF Inv, EntryInv
  <2>2. \A o \in Ids : /\ entry[o].restedAt \in Nat /\ now \in Nat
    BY EntryValues DEF Inv, TypeInv
  <2>3. ASSUME NEW o \in Ids
        PROVE  /\ entry'[o].alive => entry'[o].remaining > 0 /\ entry'[o].sequence > 0
               /\ entry'[o].sequence > 0 => o <= issued' /\ ~(call'.op = "submit" /\ call'.id = o)
               /\ entry'[o].sequence <= sequence' /\ entry'[o].restedAt <= now'
    BY <2>2 DEF Inv, EntryInv
  <2> QED BY <2>1, <2>3 DEF EntryInv
<1>3. ArrivalInv'
  BY DEF Inv, ArrivalInv
<1>4. SidesInv'
  BY DEF Inv, SidesInv
<1> QED BY <1>1, <1>2, <1>3, <1>4 DEF Inv

LEMMA IdleCall ==
    ASSUME Inv, call' = NoCall
    PROVE  CallInv' /\ call' \in CallType /\ call'.op # "submit"
<1>1. NoCall \in CallType /\ NoCall.op = "none"
  BY NoCallTyped
<1> QED BY <1>1 DEF CallInv

LEMMA CancelBeginInv == Inv /\ (\E o \in Ids : CancelBegin(o)) => Inv'
<1> SUFFICES ASSUME Inv, NEW o \in Ids, CancelBegin(o) PROVE Inv'
  OBVIOUS
<1>1. /\ o <= issued /\ UNCHANGED <<orderVars, bookVars, history, recent, now>>
      /\ call' = [op |-> "cancel", phase |-> "expire", id |-> o, rem |-> 0, trades |-> << >>,
                  deadline |-> now - MaxAge]
  BY DEF CancelBegin, Begin
<1>2. call' \in CallType
  <2>1. o \in 0 .. MaxOrders /\ << >> \in Seq(Trade) /\ now - MaxAge \in Int
    BY BoundAssumption DEF Ids, Inv, TypeInv
  <2> QED BY <1>1, <2>1 DEF CallType
<1>3. /\ call'.op = "cancel" /\ call'.phase = "expire" /\ call'.id = o
  BY <1>1
<1>4. CallInv'
  <2>1. o \in 1 .. issued' /\ issued' = issued
    BY <1>1, BoundAssumption DEF Ids, orderVars, Inv, TypeInv
  <2> QED BY <1>3, <2>1 DEF CallInv
<1>5. UNCHANGED <<issued, order, entry, sides, index, arrivals, sequence, filled, withdrawn, recent, now>>
  BY <1>1 DEF orderVars, bookVars, history
<1>6. now \in Nat /\ recent \in Seq(Trade) /\ Len(recent) <= RecentTradeCapacity
  BY DEF Inv, TypeInv
<1> QED BY <1>2, <1>3, <1>4, <1>5, <1>6, InvFrame

LEMMA ReadBeginInv == Inv /\ (\E op \in {"read", "best_price"} : ReadBegin(op)) => Inv'
<1> SUFFICES ASSUME Inv, NEW op \in {"read", "best_price"}, ReadBegin(op) PROVE Inv'
  OBVIOUS
<1>1. /\ UNCHANGED <<orderVars, bookVars, history, recent, now>>
      /\ call' = [op |-> op, phase |-> "expire", id |-> 0, rem |-> 0, trades |-> << >>,
                  deadline |-> now - MaxAge]
  BY DEF ReadBegin, Begin
<1>2. call' \in CallType
  <2>1. 0 \in 0 .. MaxOrders /\ << >> \in Seq(Trade) /\ now - MaxAge \in Int
    BY BoundAssumption DEF Inv, TypeInv
  <2> QED BY <1>1, <2>1 DEF CallType
<1>3. call'.op = op /\ call'.phase = "expire"
  BY <1>1
<1>4. CallInv'
  BY <1>3 DEF CallInv
<1>5. UNCHANGED <<issued, order, entry, sides, index, arrivals, sequence, filled, withdrawn, recent, now>>
  BY <1>1 DEF orderVars, bookVars, history
<1>6. now \in Nat /\ recent \in Seq(Trade) /\ Len(recent) <= RecentTradeCapacity
  BY DEF Inv, TypeInv
<1> QED BY <1>2, <1>3, <1>4, <1>5, <1>6, InvFrame

\* When _expire's loop stops, nothing that rests is as old as the deadline.
LEMMA NothingExpirable ==
    ASSUME Inv, ExpireStops, MaxAge > 0, NEW o \in AliveIn(entry)
    PROVE  entry[o].restedAt > call.deadline
<1>1. PICK i \in 1 .. Len(arrivals) : arrivals[i] = o
  BY DEF Inv, ArrivalInv
<1>2. arrivals \in Seq(Ids) /\ entry \in [Ids -> Entry] /\ call.deadline \in Int
  BY DEF Inv, TypeInv, CallType
<1>3. Len(arrivals) \in Nat /\ 1 \in 1 .. Len(arrivals) /\ arrivals # << >> /\ Head(arrivals) = arrivals[1]
  BY <1>1, <1>2
<1>4. entry[arrivals[1]].restedAt > call.deadline
  BY <1>3 DEF ExpireStops
<1>5. entry[arrivals[1]].restedAt <= entry[arrivals[i]].restedAt
  <2>1. CASE i = 1
    <3>1. arrivals[1] \in Ids
      BY <1>2, <1>3
    <3>2. entry[arrivals[1]].restedAt \in Nat
      BY <1>2, <3>1, EntryValues
    <3> QED BY <2>1, <3>2
  <2>2. CASE 1 < i
    BY <1>3, <2>2 DEF Inv, ArrivalInv
  <2> QED BY <1>1, <1>3, <2>1, <2>2
<1>6. entry[arrivals[1]].restedAt \in Nat /\ entry[arrivals[i]].restedAt \in Nat
  <2>1. arrivals[1] \in Ids /\ arrivals[i] \in Ids
    BY <1>1, <1>2, <1>3
  <2> QED BY <1>2, <2>1, EntryValues
<1> QED BY <1>1, <1>2, <1>4, <1>5, <1>6

LEMMA ExpireDoneInv == Inv /\ ExpireDone => Inv'
<1> SUFFICES ASSUME Inv, ExpireDone PROVE Inv'
  OBVIOUS
<1>1. /\ ExpireStops /\ call' = [call EXCEPT !.phase = "body"]
      /\ UNCHANGED <<orderVars, bookVars, history, recent, now>>
  BY DEF ExpireDone
<1>2. UNCHANGED <<issued, order, entry, sides, index, arrivals, sequence, filled, withdrawn, recent, now>>
  BY <1>1 DEF orderVars, bookVars, history
<1>3. /\ call' \in CallType /\ call'.op = call.op /\ call'.id = call.id /\ call'.deadline = call.deadline
  BY <1>1 DEF Inv, TypeInv, CallType
<1>4. CallInv'
  <2>1. call'.op \in {"submit", "cancel"} => call'.id \in 1 .. issued'
    BY <1>2, <1>3 DEF Inv, CallInv
  <2>2. MaxAge > 0 => \A o \in AliveIn(entry) : entry[o].restedAt > call.deadline
    BY <1>1, NothingExpirable
  <2> QED BY <1>2, <1>3, <2>1, <2>2 DEF CallInv
<1>5. now \in Nat /\ recent \in Seq(Trade) /\ Len(recent) <= RecentTradeCapacity
  BY DEF Inv, TypeInv
<1> QED BY <1>2, <1>3, <1>4, <1>5, InvFrame

LEMMA SubmitFilledInv == Inv /\ SubmitFilled => Inv'
<1> SUFFICES ASSUME Inv, SubmitFilled PROVE Inv'
  OBVIOUS
<1>1. /\ recent' = Newest(recent \o call.trades) /\ call' = NoCall
      /\ UNCHANGED <<orderVars, bookVars, history, now>>
  BY DEF SubmitFilled
<1>2. UNCHANGED <<issued, order, entry, sides, index, arrivals, sequence, filled, withdrawn, now>>
  BY <1>1 DEF orderVars, bookVars, history
<1>3. recent \o call.trades \in Seq(Trade)
  BY ConcatProperties DEF Inv, TypeInv, CallType
<1>4. recent' \in Seq(Trade) /\ Len(recent') <= RecentTradeCapacity
  BY <1>1, <1>3, NewestTyped
<1>5. now \in Nat
  BY DEF Inv, TypeInv
<1> QED BY <1>1, <1>2, <1>4, <1>5, IdleCall, InvFrame

LEMMA NothingDoneInv == Inv /\ (CancelClosed \/ ReadEnd) => Inv'
<1> SUFFICES ASSUME Inv, CancelClosed \/ ReadEnd PROVE Inv'
  OBVIOUS
<1>1. call' = NoCall /\ UNCHANGED <<orderVars, bookVars, history, recent, now>>
  BY DEF CancelClosed, ReadEnd
<1>2. UNCHANGED <<issued, order, entry, sides, index, arrivals, sequence, filled, withdrawn, recent, now>>
  BY <1>1 DEF orderVars, bookVars, history
<1>3. now \in Nat /\ recent \in Seq(Trade) /\ Len(recent) <= RecentTradeCapacity
  BY DEF Inv, TypeInv
<1> QED BY <1>1, <1>2, <1>3, IdleCall, InvFrame

LEMMA TickInv == Inv /\ Tick => Inv'
<1> SUFFICES ASSUME Inv, Tick PROVE Inv'
  OBVIOUS
<1>1. now' = now + 1 /\ UNCHANGED <<orderVars, bookVars, history, recent, call>>
  BY DEF Tick
<1>2. UNCHANGED <<issued, order, entry, sides, index, arrivals, sequence, filled, withdrawn, recent, call>>
  BY <1>1 DEF orderVars, bookVars, history
<1>3. now \in Nat /\ recent \in Seq(Trade) /\ Len(recent) <= RecentTradeCapacity /\ call \in CallType
  BY DEF Inv, TypeInv
<1>4. CallInv'
  BY <1>2 DEF Inv, CallInv
<1> QED BY <1>1, <1>2, <1>3, <1>4, InvFrame

LEMMA SubmitBeginInv ==
    Inv /\ (\E sd \in Sides, p \in Prices, q \in Quantities : SubmitBegin(sd, p, q)) => Inv'
<1> SUFFICES ASSUME Inv, NEW sd \in Sides, NEW p \in Prices, NEW q \in Quantities, SubmitBegin(sd, p, q)
             PROVE  Inv'
  OBVIOUS
<1> DEFINE id == issued + 1
           new == [side |-> sd, price |-> p, quantity |-> q]
<1>1. /\ issued < MaxOrders /\ issued' = id /\ order' = [order EXCEPT ![id] = new]
      /\ call' = [op |-> "submit", phase |-> "expire", id |-> id, rem |-> q, trades |-> << >>,
                  deadline |-> now - MaxAge]
      /\ UNCHANGED <<entry, sides, index, arrivals, sequence, filled, withdrawn, recent, now>>
  BY DEF SubmitBegin, Begin, bookVars, history
<1>2. /\ issued \in 0 .. MaxOrders /\ order \in [Ids -> Order \cup {NoOrder}]
      /\ \A o \in 1 .. issued : order[o] \in Order
      /\ entry \in [Ids -> Entry] /\ now \in Nat
  BY DEF Inv, TypeInv
<1>3. id \in Ids /\ id \in 0 .. MaxOrders /\ id \in 1 .. id /\ \A o \in 1 .. id : o = id \/ o \in 1 .. issued
  BY <1>1, <1>2, BoundAssumption DEF Ids
<1>4. new \in Order
  BY DEF Order
<1>5. TypeInv'
  <2>1. order' \in [Ids -> Order \cup {NoOrder}] /\ \A o \in 1 .. id : order'[o] \in Order
    <3> HIDE DEF new
    <3>1. \A o \in 1 .. issued : o # id /\ o \in Ids
      BY <1>2, BoundAssumption DEF Ids
    <3> HIDE DEF id
    <3> QED BY <1>1, <1>2, <1>3, <1>4, <3>1
  <2>2. call' \in CallType
    <3>1. q \in Nat /\ << >> \in Seq(Trade) /\ now - MaxAge \in Int
      BY <1>2, QuantityAssumption, BoundAssumption
    <3> QED BY <1>1, <1>3, <3>1 DEF CallType
  <2> QED BY <1>1, <1>3, <2>1, <2>2 DEF Inv, TypeInv
<1>6. call'.op = "submit" /\ call'.id = id /\ call'.phase = "expire"
  BY <1>1
<1>7. \A o \in Ids : entry[o].sequence > 0 => o # id /\ o <= id /\ order'[o] = order[o]
  <2>1. ASSUME NEW o \in Ids, entry[o].sequence > 0 PROVE o # id /\ o <= id
    <3>1. o <= issued
      BY <2>1 DEF Inv, EntryInv
    <3> QED BY <1>2, <3>1, BoundAssumption DEF Ids
  <2> HIDE DEF id, new
  <2> QED BY <1>1, <1>2, <2>1
<1>8. EntryInv'
  <2>1. index' = AliveIn(entry')
    BY <1>1 DEF Inv, EntryInv
  <2>2. ASSUME NEW o \in Ids
        PROVE  /\ entry'[o].alive => entry'[o].remaining > 0 /\ entry'[o].sequence > 0
               /\ entry'[o].sequence > 0 => o <= issued' /\ ~(call'.op = "submit" /\ call'.id = o)
               /\ entry'[o].sequence <= sequence' /\ entry'[o].restedAt <= now'
    BY <1>1, <1>6, <1>7 DEF Inv, EntryInv
  <2> QED BY <2>1, <2>2 DEF EntryInv
<1>9. CallInv'
  BY <1>1, <1>3, <1>6 DEF CallInv
<1>10. ArrivalInv'
  BY <1>1 DEF Inv, ArrivalInv
<1>11. SidesInv'
  <2> DEFINE A == AliveIn(entry)
             R == RemainingIn(entry)
             Q == SequenceIn(entry)
  <2>1. \A o \in Ids : Q[o] > 0 => Q[o] = Q[o] /\ order'[o] = order[o]
    BY <1>2, <1>7, EntryValues
  <2>2. \A o \in A : o \in Ids /\ order'[o] = order[o]
    BY <1>7, Resting
  <2> SUFFICES ASSUME NEW s \in Sides PROVE GoodSide(sides[s], s, A, R, Q, order')
    BY <1>1 DEF SidesInv
  <2>3. GoodSide(sides[s], s, A, R, Q, order)
    BY DEF Inv, SidesInv
  <2> HIDE DEF A, R, Q
  <2>4. OfSide(A, order', s) = OfSide(A, order, s)
    BY <2>2 DEF OfSide
  <2>5. \A o \in OfSide(A, order, s) : R[o] = R[o] /\ order'[o] = order[o]
    BY <2>2 DEF OfSide
  <2> QED BY <2>1, <2>3, <2>4, <2>5, SideFrame
<1> QED BY <1>5, <1>8, <1>9, <1>10, <1>11 DEF Inv

\* Cleaning the front of a side.
LEMMA FrontKeeps ==
    ASSUME Inv, NEW sd \in Sides, NEW S, S = DropDeadFront(sides[sd], sd), NEW o, o = Best(S, sd)
    PROVE  /\ GoodSide(S, sd, AliveIn(entry), RemainingIn(entry), SequenceIn(entry), order)
           /\ NoneEmptied(S, sides[sd])
           /\ o = 0 => OfSide(AliveIn(entry), order, sd) = {}
           /\ o # 0 => /\ Leads(o, AliveIn(entry), SequenceIn(entry), order, sd)
                       /\ S.levels[order[o].price].queue # << >>
                       /\ S.levels[order[o].price].queue[1] = o
<1>1. Values(AliveIn(entry), RemainingIn(entry), SequenceIn(entry))
  BY EntryValues DEF Inv, TypeInv
<1>2. GoodSide(sides[sd], sd, AliveIn(entry), RemainingIn(entry), SequenceIn(entry), order)
  BY DEF Inv, SidesInv
<1> DEFINE A == AliveIn(entry)
           R == RemainingIn(entry)
           Q == SequenceIn(entry)
<1>3. A = AliveIn(entry)
  OBVIOUS
<1> HIDE DEF A, R, Q
<1> QED BY <1>1, <1>2, <1>3, GoodFront DEF A, R, Q

LEMMA BestPriceEndInv == Inv /\ (\E sd \in Sides : BestPriceEnd(sd)) => Inv'
<1> SUFFICES ASSUME Inv, NEW sd \in Sides, BestPriceEnd(sd) PROVE Inv'
  OBVIOUS
<1> DEFINE S == DropDeadFront(sides[sd], sd)
<1>1. /\ sides' = [sides EXCEPT ![sd] = S] /\ call' = NoCall
      /\ UNCHANGED <<issued, order, entry, index, arrivals, sequence, filled, withdrawn, recent, now>>
  BY DEF BestPriceEnd, orderVars, history
<1>2. GoodSide(S, sd, AliveIn(entry), RemainingIn(entry), SequenceIn(entry), order)
  BY FrontKeeps
<1> HIDE DEF S
<1>3. call' \in CallType /\ call'.op # "submit" /\ CallInv'
  BY <1>1, IdleCall
<1>4. TypeInv'
  <2>1. DOMAIN sides' = Sides /\ sides' = [s \in Sides |-> sides'[s]]
    BY <1>1 DEF Inv, TypeInv
  <2> QED BY <1>1, <1>3, <2>1 DEF Inv, TypeInv
<1>5. EntryInv'
  BY <1>1, <1>3 DEF Inv, EntryInv
<1>6. ArrivalInv'
  BY <1>1 DEF Inv, ArrivalInv
<1>7. SidesInv'
  <2> SUFFICES ASSUME NEW s \in Sides
               PROVE  GoodSide(sides'[s], s, AliveIn(entry), RemainingIn(entry), SequenceIn(entry), order)
    BY <1>1 DEF SidesInv
  <2>1. DOMAIN sides = Sides
    BY DEF Inv, TypeInv
  <2>2. sides'[s] = IF s = sd THEN S ELSE sides[s]
    BY <1>1, <2>1
  <2>3. GoodSide(sides[s], s, AliveIn(entry), RemainingIn(entry), SequenceIn(entry), order)
    BY DEF Inv, SidesInv
  <2> QED BY <1>2, <2>2, <2>3
<1> QED BY <1>3, <1>4, <1>5, <1>6, <1>7 DEF Inv

\* One side changes with the order o, the other stays.
LEMMA OtherSide ==
    ASSUME NEW S, NEW s, NEW sd, s # sd, NEW A, NEW R, NEW Q, NEW A2, NEW R2, NEW Q2, NEW O, NEW o,
           GoodSide(S, s, A, R, Q, O), Moves(A, R, Q, A2, R2, Q2, O, sd, o)
    PROVE  GoodSide(S, s, A2, R2, Q2, O)
<1>1. /\ A \in SUBSET Ids /\ A2 \in SUBSET Ids /\ o \in Ids /\ O[o].side = sd
      /\ Q[o] > 0 => Q2[o] = Q[o]
      /\ \A x \in Ids : x # o => (x \in A2 <=> x \in A) /\ R2[x] = R[x] /\ Q2[x] = Q[x]
  BY DEF Moves, Values, Differ
<1>2. OfSide(A2, O, s) = OfSide(A, O, s)
  BY <1>1 DEF OfSide
<1>3. \A x \in OfSide(A, O, s) : R2[x] = R[x] /\ O[x] = O[x]
  BY <1>1 DEF OfSide
<1>4. \A x \in Ids : Q[x] > 0 => Q2[x] = Q[x] /\ O[x] = O[x]
  BY <1>1
<1> QED BY <1>2, <1>3, <1>4, SideFrame

\* Cancel and expiry: the entry dies, and its side, the index and the entries agree.
LEMMA WithdrawKeeps ==
    ASSUME Inv, NEW o \in AliveIn(entry), Withdraw(o), UNCHANGED order
    PROVE  /\ entry' \in [Ids -> Entry] /\ index' = AliveIn(entry') /\ withdrawn' \in [Ids -> Nat]
           /\ AliveIn(entry') = AliveIn(entry) \ {o}
           /\ \A x \in Ids : /\ entry'[x].remaining = entry[x].remaining
                             /\ entry'[x].sequence = entry[x].sequence
                             /\ entry'[x].restedAt = entry[x].restedAt
                             /\ entry'[x].alive => entry[x].alive
           /\ DOMAIN sides' = Sides /\ sides' = [sd \in Sides |-> sides'[sd]]
           /\ SidesInv' /\ NothingEmptied
<1> DEFINE A == AliveIn(entry)
           R == RemainingIn(entry)
           Q == SequenceIn(entry)
           side == order[o].side
           A2 == A \ {o}
<1>1. /\ sides' = [sides EXCEPT ![side] = RemoveEntry(sides[side], side, o)]
      /\ entry' = [entry EXCEPT ![o].alive = FALSE]
      /\ index' = index \ {o}
      /\ withdrawn' = [withdrawn EXCEPT ![o] = withdrawn[o] + entry[o].remaining]
  BY DEF Withdraw, Close, OpenQuantity
<1>2. /\ entry \in [Ids -> Entry] /\ withdrawn \in [Ids -> Nat]
      /\ DOMAIN sides = Sides /\ sides = [s \in Sides |-> sides[s]]
  BY DEF Inv, TypeInv
<1>3. o \in Ids /\ side \in Sides /\ entry[o].remaining \in Nat
  BY Resting DEF Order
<1>4. /\ entry' \in [Ids -> Entry] /\ ~entry'[o].alive
      /\ \A x \in Ids : /\ entry'[x].remaining = entry[x].remaining
                        /\ entry'[x].sequence = entry[x].sequence
                        /\ entry'[x].restedAt = entry[x].restedAt
                        /\ x # o => entry'[x].alive = entry[x].alive
  BY <1>1, <1>2, <1>3 DEF Entry
<1>5. AliveIn(entry') = A2
  BY <1>3, <1>4 DEF AliveIn
<1>6. index' = A2
  BY <1>1 DEF Inv, EntryInv
<1>7. withdrawn' \in [Ids -> Nat]
  BY <1>1, <1>2, <1>3
<1>8. RemainingIn(entry') = R /\ SequenceIn(entry') = Q
  BY <1>4 DEF RemainingIn, SequenceIn
<1>9. Values(A, R, Q) /\ \A x \in A : R[x] > 0
  <2>1. Values(A, R, Q)
    BY <1>2, EntryValues
  <2>2. ASSUME NEW x \in A PROVE R[x] > 0
    BY <1>2, Resting, EntryValues
  <2> QED BY <2>1, <2>2
<1>10. /\ GoodSide(RemoveEntry(sides[side], side, o), side, A2, R, Q, order)
       /\ NoneEmptied(RemoveEntry(sides[side], side, o), sides[side])
  <2>1. GoodSide(sides[side], side, A, R, Q, order)
    BY <1>3 DEF Inv, SidesInv
  <2>2. A = AliveIn(entry) /\ R = RemainingIn(entry)
    OBVIOUS
  <2>3. order[o].side = side /\ o \in A
    OBVIOUS
  <2> HIDE DEF A, R, Q, side
  <2> QED BY <1>3, <1>9, <2>1, <2>2, <2>3, GoodRemove
<1>11. ASSUME NEW s \in Sides, s # side PROVE GoodSide(sides[s], s, A2, R, Q, order)
  <2>1. GoodSide(sides[s], s, A, R, Q, order)
    BY DEF Inv, SidesInv
  <2>2. order[o].side = side /\ o \in A /\ R \in [Ids -> Nat]
    BY <1>9 DEF Values
  <2> HIDE DEF A, R, Q, side
  <2>3. Moves(A, R, Q, A2, R, Q, order, side, o)
    <3>1. Elsewhere(R, R, o)
      BY DEF Elsewhere
    <3> QED BY <1>9, <2>2, <3>1, Leaving
  <2> HIDE DEF A2
  <2> QED BY <1>11, <2>1, <2>3, OtherSide
<1>12. DOMAIN sides' = Sides /\ sides' = [sd \in Sides |-> sides'[sd]]
  BY <1>1, <1>2
<1>13. SidesInv'
  <2> SUFFICES ASSUME NEW s \in Sides PROVE GoodSide(sides'[s], s, A2, R, Q, order)
    BY <1>5, <1>8 DEF SidesInv
  <2>1. sides'[s] = IF s = side THEN RemoveEntry(sides[side], side, o) ELSE sides[s]
    BY <1>1, <1>2
  <2> HIDE DEF A, A2, R, Q
  <2> QED BY <1>10, <1>11, <2>1
<1>14. NothingEmptied
  <2> SUFFICES ASSUME NEW s \in Sides PROVE NoneEmptied(sides'[s], sides[s])
    BY DEF NothingEmptied
  <2>1. sides'[s] = IF s = side THEN RemoveEntry(sides[side], side, o) ELSE sides[s]
    BY <1>1, <1>2
  <2>2. NoneEmptied(sides[s], sides[s])
    BY DEF NoneEmptied
  <2> HIDE DEF side
  <2> QED BY <1>10, <2>1, <2>2
<1> QED BY <1>4, <1>5, <1>6, <1>7, <1>12, <1>13, <1>14

\* What is said of each entry is kept when no entry comes to life or changes its numbers.
LEMMA EntriesKeep ==
    ASSUME Inv, entry' \in [Ids -> Entry], index' = AliveIn(entry'),
           \A x \in Ids : /\ entry'[x].remaining = entry[x].remaining
                          /\ entry'[x].sequence = entry[x].sequence
                          /\ entry'[x].restedAt = entry[x].restedAt
                          /\ entry'[x].alive => entry[x].alive,
           UNCHANGED <<issued, sequence, now>>,
           call'.op = "submit" => call.op = "submit" /\ call'.id = call.id
    PROVE  EntryInv'
<1>1. ASSUME NEW o \in Ids
      PROVE  /\ entry'[o].alive => entry'[o].remaining > 0 /\ entry'[o].sequence > 0
             /\ entry'[o].sequence > 0 => o <= issued' /\ ~(call'.op = "submit" /\ call'.id = o)
             /\ entry'[o].sequence <= sequence' /\ entry'[o].restedAt <= now'
  BY DEF Inv, EntryInv
<1> QED BY <1>1 DEF EntryInv

LEMMA ExpireStepInv == Inv /\ ExpireStep => Inv'
<1> SUFFICES ASSUME Inv, ExpireStep PROVE Inv'
  OBVIOUS
<1> DEFINE o == Head(arrivals)
<1>1. /\ call.op # "none" /\ call.phase = "expire" /\ arrivals' = Tail(arrivals)
      /\ UNCHANGED <<issued, order, sequence, recent, filled, now, call>>
      /\ entry[o].alive => Withdraw(o)
      /\ ~entry[o].alive => UNCHANGED <<sides, entry, index, withdrawn>>
  BY DEF ExpireStep, orderVars
<1>2. arrivals # << >>
  BY DEF ExpireStep, ExpireStops
<1>3. /\ arrivals \in Seq(Ids) /\ entry \in [Ids -> Entry] /\ withdrawn \in [Ids -> Nat]
      /\ DOMAIN sides = Sides /\ sides = [s \in Sides |-> sides[s]]
  BY DEF Inv, TypeInv
<1>4. /\ o = arrivals[1] /\ o \in Ids /\ Len(arrivals) \in Nat /\ 1 \in 1 .. Len(arrivals)
      /\ arrivals' \in Seq(Ids) /\ Len(arrivals') = Len(arrivals) - 1
      /\ \A i \in 1 .. Len(arrivals') : /\ arrivals'[i] = arrivals[i + 1]
                                        /\ i + 1 \in 1 .. Len(arrivals)
  <2> DEFINE t == Tail(arrivals)
  <2>1. t \in Seq(Ids) /\ Len(t) = Len(arrivals) - 1 /\ \A i \in 1 .. Len(t) : t[i] = arrivals[i + 1]
    BY <1>2, <1>3, HeadTailProperties
  <2>2. o = arrivals[1] /\ Len(arrivals) \in Nat /\ Len(arrivals) # 0
    BY <1>2, <1>3
  <2>3. 1 \in 1 .. Len(arrivals) /\ o \in Ids
    BY <1>3, <2>2
  <2>4. arrivals' = t
    BY <1>1
  <2> HIDE DEF t, o
  <2> QED BY <2>1, <2>2, <2>3, <2>4
<1> HIDE DEF o
<1>5. /\ entry' \in [Ids -> Entry] /\ index' = AliveIn(entry') /\ withdrawn' \in [Ids -> Nat]
      /\ \A x \in Ids : /\ entry'[x].remaining = entry[x].remaining
                        /\ entry'[x].sequence = entry[x].sequence
                        /\ entry'[x].restedAt = entry[x].restedAt
                        /\ entry'[x].alive => entry[x].alive
      /\ DOMAIN sides' = Sides /\ sides' = [s \in Sides |-> sides'[s]]
      /\ SidesInv' /\ ~entry'[o].alive
  <2>1. CASE entry[o].alive
    <3>1. o \in AliveIn(entry)
      BY <1>4, <2>1 DEF AliveIn
    <3>2. Withdraw(o) /\ UNCHANGED order
      BY <1>1, <2>1
    <3>3. /\ entry' \in [Ids -> Entry] /\ index' = AliveIn(entry') /\ withdrawn' \in [Ids -> Nat]
          /\ AliveIn(entry') = AliveIn(entry) \ {o}
          /\ \A x \in Ids : /\ entry'[x].remaining = entry[x].remaining
                            /\ entry'[x].sequence = entry[x].sequence
                            /\ entry'[x].restedAt = entry[x].restedAt
                            /\ entry'[x].alive => entry[x].alive
          /\ DOMAIN sides' = Sides /\ sides' = [s \in Sides |-> sides'[s]]
          /\ SidesInv'
      BY <3>1, <3>2, WithdrawKeeps
    <3>4. ~entry'[o].alive
      <4>1. o \notin AliveIn(entry')
        BY <3>3
      <4> QED BY <1>4, <4>1 DEF AliveIn
    <3> QED BY <3>3, <3>4
  <2>2. CASE ~entry[o].alive
    <3>1. UNCHANGED <<sides, entry, index, withdrawn, order>>
      BY <1>1, <2>2
    <3>2. SidesInv'
      BY <3>1 DEF Inv, SidesInv
    <3>3. index' = AliveIn(entry')
      BY <3>1 DEF Inv, EntryInv
    <3> QED BY <1>3, <2>2, <3>1, <3>2, <3>3
  <2> QED BY <2>1, <2>2
<1>6. TypeInv'
  <2>1. index' \subseteq Ids
    BY <1>5 DEF AliveIn
  <2> QED BY <1>1, <1>4, <1>5, <2>1 DEF Inv, TypeInv
<1>7. EntryInv'
  BY <1>1, <1>5, EntriesKeep
<1>8. CallInv'
  BY <1>1 DEF Inv, CallInv
<1>9. ArrivalInv'
  <2>1. MaxAge > 0
    <3>1. MaxAge # 0
      BY <1>2 DEF Inv, ArrivalInv
    <3> QED BY <3>1, BoundAssumption
  <2>2. ASSUME NEW x \in AliveIn(entry') PROVE \E i \in 1 .. Len(arrivals') : arrivals'[i] = x
    <3>1. x \in AliveIn(entry) /\ x # o
      BY <1>5, <2>2 DEF AliveIn
    <3>2. PICK i \in 1 .. Len(arrivals) : arrivals[i] = x
      BY <2>1, <3>1 DEF Inv, ArrivalInv
    <3>3. i # 1
      BY <1>4, <3>1, <3>2
    <3>4. i - 1 \in 1 .. Len(arrivals') /\ (i - 1) + 1 = i
      BY <1>4, <3>2, <3>3
    <3>5. arrivals'[i - 1] = arrivals[(i - 1) + 1]
      BY <1>4, <3>4
    <3> QED BY <3>2, <3>4, <3>5
  <2>3. ASSUME NEW i \in 1 .. Len(arrivals') PROVE entry'[arrivals'[i]].sequence > 0
    <3>1. arrivals'[i] = arrivals[i + 1] /\ i + 1 \in 1 .. Len(arrivals) /\ arrivals[i + 1] \in Ids
      <4>1. arrivals'[i] = arrivals[i + 1] /\ i + 1 \in 1 .. Len(arrivals)
        BY <1>4
      <4> QED BY <1>3, <4>1
    <3>2. entry[arrivals[i + 1]].sequence > 0
      BY <3>1 DEF Inv, ArrivalInv
    <3> QED BY <1>5, <3>1, <3>2
  <2>4. ASSUME NEW i \in 1 .. Len(arrivals'), NEW j \in 1 .. Len(arrivals'), i < j
        PROVE  entry'[arrivals'[i]].restedAt <= entry'[arrivals'[j]].restedAt
    <3>1. /\ arrivals'[i] = arrivals[i + 1] /\ i + 1 \in 1 .. Len(arrivals) /\ arrivals[i + 1] \in Ids
          /\ arrivals'[j] = arrivals[j + 1] /\ j + 1 \in 1 .. Len(arrivals) /\ arrivals[j + 1] \in Ids
          /\ i + 1 < j + 1
      <4>1. /\ arrivals'[i] = arrivals[i + 1] /\ i + 1 \in 1 .. Len(arrivals)
            /\ arrivals'[j] = arrivals[j + 1] /\ j + 1 \in 1 .. Len(arrivals)
        BY <1>4
      <4>2. arrivals[i + 1] \in Ids /\ arrivals[j + 1] \in Ids
        BY <1>3, <4>1
      <4>3. i + 1 < j + 1
        BY <1>4, <2>4
      <4> QED BY <4>1, <4>2, <4>3
    <3>2. entry[arrivals[i + 1]].restedAt <= entry[arrivals[j + 1]].restedAt
      BY <3>1 DEF Inv, ArrivalInv
    <3> QED BY <1>5, <3>1, <3>2
  <2> QED BY <2>1, <2>2, <2>3, <2>4 DEF ArrivalInv
<1> QED BY <1>5, <1>6, <1>7, <1>8, <1>9 DEF Inv

LEMMA CancelOpenInv == Inv /\ CancelOpen => Inv'
<1> SUFFICES ASSUME Inv, CancelOpen PROVE Inv'
  OBVIOUS
<1> DEFINE o == call.id
<1>1. /\ o \in index /\ Withdraw(o) /\ call' = NoCall
      /\ UNCHANGED <<issued, order, arrivals, sequence, recent, filled, now>>
  BY DEF CancelOpen, orderVars
<1>2. o \in AliveIn(entry)
  BY <1>1 DEF Inv, EntryInv
<1> HIDE DEF o
<1>3. /\ entry' \in [Ids -> Entry] /\ index' = AliveIn(entry') /\ withdrawn' \in [Ids -> Nat]
      /\ \A x \in Ids : /\ entry'[x].remaining = entry[x].remaining
                        /\ entry'[x].sequence = entry[x].sequence
                        /\ entry'[x].restedAt = entry[x].restedAt
                        /\ entry'[x].alive => entry[x].alive
      /\ DOMAIN sides' = Sides /\ sides' = [s \in Sides |-> sides'[s]]
      /\ SidesInv'
  BY <1>1, <1>2, WithdrawKeeps
<1>4. CallInv' /\ call' \in CallType /\ call'.op # "submit"
  BY <1>1, IdleCall
<1>5. TypeInv'
  <2>1. index' \subseteq Ids
    BY <1>3 DEF AliveIn
  <2> QED BY <1>1, <1>3, <1>4, <2>1 DEF Inv, TypeInv
<1>6. EntryInv'
  BY <1>1, <1>3, <1>4, EntriesKeep
<1>7. ArrivalInv'
  <2>1. arrivals \in Seq(Ids) /\ \A i \in 1 .. Len(arrivals) : arrivals[i] \in Ids
    BY DEF Inv, TypeInv
  <2>2. MaxAge = 0 => arrivals' = << >>
    BY <1>1 DEF Inv, ArrivalInv
  <2>3. MaxAge > 0 => \A x \in AliveIn(entry') : \E i \in 1 .. Len(arrivals) : arrivals[i] = x
    <3>1. AliveIn(entry') \subseteq AliveIn(entry)
      BY <1>3 DEF AliveIn
    <3> QED BY <3>1 DEF Inv, ArrivalInv
  <2>4. \A i \in 1 .. Len(arrivals) : entry'[arrivals[i]].sequence > 0
    BY <1>3, <2>1 DEF Inv, ArrivalInv
  <2>5. \A i, j \in 1 .. Len(arrivals) : i < j => entry'[arrivals[i]].restedAt <= entry'[arrivals[j]].restedAt
    BY <1>3, <2>1 DEF Inv, ArrivalInv
  <2> QED BY <1>1, <2>2, <2>3, <2>4, <2>5 DEF ArrivalInv
<1> QED BY <1>3, <1>4, <1>5, <1>6, <1>7 DEF Inv

\* A step of submit's loop: o, the first order of the opposite side, trades q.
MatchesWith(o, q) ==
    /\ call.op = "submit" /\ call.phase = "body" /\ call.rem > 0
    /\ o \in AliveIn(entry) /\ o # call.id
    /\ Leads(o, AliveIn(entry), SequenceIn(entry), order, Opposite(order[call.id].side))
    /\ Crosses(order[call.id], order[o])
    /\ q = Lesser(call.rem, entry[o].remaining)
    /\ q \in 1 .. entry[o].remaining /\ q <= call.rem

LEMMA MatchFinds ==
    ASSUME Inv, Match
    PROVE  \E o, q :
             /\ MatchesWith(o, q)
             /\ sides' = [sides EXCEPT ![Opposite(order[call.id].side)] =
                            FillBest(DropDeadFront(sides[Opposite(order[call.id].side)], Opposite(order[call.id].side)),
                                     Opposite(order[call.id].side), order[o].price, q, entry[o].remaining)]
             /\ entry' = [entry EXCEPT ![o].remaining = @ - q, ![o].alive = (entry[o].remaining # q)]
             /\ index' = (IF entry[o].remaining = q THEN index \ {o} ELSE index)
             /\ call' = [call EXCEPT !.rem = @ - q,
                                     !.trades = Append(@, TradeOf(call.id, order[call.id], o, order[o], q))]
             /\ filled' = [filled EXCEPT ![o] = @ + q, ![call.id] = @ + q]
             /\ o = Best(DropDeadFront(sides[Opposite(order[call.id].side)], Opposite(order[call.id].side)),
                         Opposite(order[call.id].side))
<1> DEFINE opp == Opposite(order[call.id].side)
           S == DropDeadFront(sides[opp], opp)
           o == Best(S, opp)
           q == Lesser(call.rem, entry[o].remaining)
<1>1. /\ call.op = "submit" /\ call.phase = "body" /\ call.rem > 0
      /\ o # 0 /\ Crosses(order[call.id], order[o])
      /\ sides' = [sides EXCEPT ![opp] = FillBest(S, opp, order[o].price, q, entry[o].remaining)]
      /\ entry' = [entry EXCEPT ![o].remaining = @ - q, ![o].alive = (entry[o].remaining # q)]
      /\ index' = (IF entry[o].remaining = q THEN index \ {o} ELSE index)
      /\ call' = [call EXCEPT !.rem = @ - q,
                              !.trades = Append(@, TradeOf(call.id, order[call.id], o, order[o], q))]
      /\ filled' = [filled EXCEPT ![o] = @ + q, ![call.id] = @ + q]
  BY DEF Match, InBody, Close
<1>2. opp \in Sides
  BY DEF Opposite, Sides
<1>3. Leads(o, AliveIn(entry), SequenceIn(entry), order, opp)
  <2>1. o # 0 => Leads(o, AliveIn(entry), SequenceIn(entry), order, opp)
    <3> DEFINE s == opp
    <3>1. s \in Sides /\ o = Best(DropDeadFront(sides[s], s), s)
      BY <1>2
    <3> HIDE DEF o, s
    <3>2. o # 0 => Leads(o, AliveIn(entry), SequenceIn(entry), order, s)
      BY <3>1, FrontKeeps
    <3> QED BY <3>2 DEF s
  <2> QED BY <1>1, <2>1
<1> HIDE DEF o
<1>4. o \in AliveIn(entry)
  BY <1>3 DEF Leads, OfSide
<1>5. o # call.id /\ entry[o].remaining \in Nat /\ entry[o].remaining > 0
  BY <1>1, <1>4, Resting
<1>6. call.rem \in Nat
  BY DEF Inv, TypeInv, CallType
<1>7. q \in 1 .. entry[o].remaining /\ q <= call.rem
  BY <1>1, <1>5, <1>6 DEF Lesser
<1> HIDE DEF q
<1>8. MatchesWith(o, q)
  BY <1>1, <1>3, <1>4, <1>5, <1>7 DEF MatchesWith, q
<1> HIDE DEF opp, S
<1>9. o = Best(S, opp)
  BY DEF o
<1> QED BY <1>1, <1>8, <1>9 DEF opp, S

FillsEntry(o, q) ==
    /\ entry' = [entry EXCEPT ![o].remaining = @ - q, ![o].alive = (entry[o].remaining # q)]
    /\ filled' = [filled EXCEPT ![o] = @ + q, ![call.id] = @ + q]

\* What a match does to the entries, as the book and as the reference see it.
LEMMA MatchEntries ==
    ASSUME Inv, NEW o, NEW q, MatchesWith(o, q), FillsEntry(o, q)
    PROVE  /\ entry' \in [Ids -> Entry]
           /\ \A x \in Ids : x # o => entry'[x] = entry[x]
           /\ entry'[o].remaining = entry[o].remaining - q
           /\ entry'[o].sequence = entry[o].sequence /\ entry'[o].restedAt = entry[o].restedAt
           /\ entry'[o].alive = (entry[o].remaining # q)
           /\ Fills(AliveIn(entry), RemainingIn(entry), o, q, AliveIn(entry'), RemainingIn(entry'))
           /\ SequenceIn(entry') = SequenceIn(entry)
           /\ filled' = [x \in Ids |-> IF x \in {o, call.id} THEN filled[x] + q ELSE filled[x]]
           /\ filled' \in [Ids -> Nat]
<1>0. /\ entry' = [entry EXCEPT ![o].remaining = @ - q, ![o].alive = (entry[o].remaining # q)]
      /\ filled' = [filled EXCEPT ![o] = @ + q, ![call.id] = @ + q]
  BY DEF FillsEntry
<1>1. entry \in [Ids -> Entry] /\ filled \in [Ids -> Nat] /\ call.id \in Ids
  BY BoundAssumption DEF Inv, TypeInv, CallInv, MatchesWith, Ids
<1>2. o \in Ids /\ o # call.id /\ entry[o].alive /\ q \in 1 .. entry[o].remaining
  BY <1>1 DEF MatchesWith, AliveIn
<1>3. \A x \in Ids : entry[x].remaining \in Nat /\ entry[x].alive \in BOOLEAN
  BY <1>1, EntryValues
<1>4. entry[o] = [remaining |-> entry[o].remaining, sequence |-> entry[o].sequence,
                  restedAt |-> entry[o].restedAt, alive |-> entry[o].alive]
  BY <1>1, <1>2 DEF Entry
<1>5. /\ \A x \in Ids : x # o => entry'[x] = entry[x]
      /\ entry'[o] = [remaining |-> entry[o].remaining - q, sequence |-> entry[o].sequence,
                      restedAt |-> entry[o].restedAt, alive |-> entry[o].remaining # q]
      /\ entry' = [x \in Ids |-> entry'[x]]
  BY <1>0, <1>1, <1>2, <1>4
<1>6. entry'[o] \in Entry
  BY <1>1, <1>2, <1>3, <1>5, EntryValues DEF Entry
<1>7. entry' \in [Ids -> Entry]
  BY <1>1, <1>5, <1>6
<1>8. /\ entry'[o].remaining = entry[o].remaining - q
      /\ entry'[o].sequence = entry[o].sequence /\ entry'[o].restedAt = entry[o].restedAt
      /\ entry'[o].alive = (entry[o].remaining # q)
  BY <1>5
<1>9. SequenceIn(entry') = SequenceIn(entry)
  BY <1>5, <1>8 DEF SequenceIn
<1>10. Fills(AliveIn(entry), RemainingIn(entry), o, q, AliveIn(entry'), RemainingIn(entry'))
  <2>1. RemainingIn(entry)[o] = entry[o].remaining
    BY <1>2 DEF RemainingIn
  <2>2. AliveIn(entry') = IF q = RemainingIn(entry)[o] THEN AliveIn(entry) \ {o} ELSE AliveIn(entry)
    <3>1. CASE q = entry[o].remaining
      BY <1>2, <1>5, <1>8, <2>1, <3>1 DEF AliveIn
    <3>2. CASE q # entry[o].remaining
      BY <1>2, <1>5, <1>8, <2>1, <3>2 DEF AliveIn
    <3> QED BY <3>1, <3>2
  <2>3. RemainingIn(entry') = [RemainingIn(entry) EXCEPT ![o] = @ - q]
    BY <1>2, <1>5, <1>8 DEF RemainingIn
  <2> QED BY <1>2, <2>1, <2>2, <2>3 DEF Fills
<1>11. /\ filled' = [x \in Ids |-> IF x \in {o, call.id} THEN filled[x] + q ELSE filled[x]]
       /\ filled' \in [Ids -> Nat]
  <2>1. \A x \in Ids : filled'[x] = IF x \in {o, call.id} THEN filled[x] + q ELSE filled[x]
    BY <1>0, <1>1, <1>2
  <2>2. DOMAIN filled' = Ids /\ filled' = [x \in Ids |-> filled'[x]]
    BY <1>0, <1>1, <1>2
  <2>3. q \in Nat
    BY <1>2, <1>3
  <2> QED BY <1>1, <2>1, <2>2, <2>3
<1> QED BY <1>5, <1>7, <1>8, <1>9, <1>10, <1>11

LEMMA MatchInv == Inv /\ Match => Inv' /\ NothingEmptied
<1> SUFFICES ASSUME Inv, Match PROVE Inv' /\ NothingEmptied
  OBVIOUS
<1> DEFINE opp == Opposite(order[call.id].side)
           S == DropDeadFront(sides[opp], opp)
           A == AliveIn(entry)
           R == RemainingIn(entry)
           Q == SequenceIn(entry)
           A2 == AliveIn(entry')
           R2 == RemainingIn(entry')
<1>1. PICK o, q :
        /\ MatchesWith(o, q)
        /\ sides' = [sides EXCEPT ![opp] = FillBest(S, opp, order[o].price, q, entry[o].remaining)]
        /\ entry' = [entry EXCEPT ![o].remaining = @ - q, ![o].alive = (entry[o].remaining # q)]
        /\ index' = (IF entry[o].remaining = q THEN index \ {o} ELSE index)
        /\ call' = [call EXCEPT !.rem = @ - q,
                                !.trades = Append(@, TradeOf(call.id, order[call.id], o, order[o], q))]
        /\ filled' = [filled EXCEPT ![o] = @ + q, ![call.id] = @ + q]
        /\ o = Best(S, opp)
  BY MatchFinds
<1>2. UNCHANGED <<issued, order, arrivals, sequence, recent, withdrawn, now>>
  BY DEF Match, orderVars
<1>3. /\ entry' \in [Ids -> Entry]
      /\ \A x \in Ids : x # o => entry'[x] = entry[x]
      /\ entry'[o].remaining = entry[o].remaining - q
      /\ entry'[o].sequence = entry[o].sequence /\ entry'[o].restedAt = entry[o].restedAt
      /\ entry'[o].alive = (entry[o].remaining # q)
      /\ Fills(A, R, o, q, A2, R2) /\ SequenceIn(entry') = Q
      /\ filled' \in [Ids -> Nat]
  <2>1. MatchesWith(o, q) /\ FillsEntry(o, q)
    BY <1>1 DEF FillsEntry
  <2> HIDE DEF opp, S
  <2> QED BY <2>1, MatchEntries
<1>4. /\ call.op = "submit" /\ call.phase = "body" /\ o \in A /\ o \in OfSide(A, order, opp)
      /\ q \in 1 .. entry[o].remaining /\ q <= call.rem
  BY <1>1 DEF MatchesWith, Leads
<1>5. /\ o \in Ids /\ order[o] \in Order /\ entry[o].remaining \in Nat /\ order[o].side = opp
      /\ opp \in Sides
  BY <1>4, Resting DEF OfSide, Opposite, Sides
<1>6. call.id \in Ids /\ call \in CallType /\ call.rem \in Nat /\ order[call.id] \in Order
  <2>1. call.id \in 1 .. issued /\ issued \in 0 .. MaxOrders
    BY <1>4 DEF Inv, CallInv, TypeInv
  <2> QED BY <2>1, BoundAssumption DEF Inv, TypeInv, CallType, Ids
<1> DEFINE t == TradeOf(call.id, order[call.id], o, order[o], q)
<1>7. t \in Trade
  <2>1. order[o].price \in Prices /\ q \in Nat
    BY <1>4, <1>5 DEF Order
  <2> QED BY <1>5, <1>6, <2>1 DEF TradeOf, Trade
<1> HIDE DEF t
<1>8. call' \in CallType /\ call'.op = "submit" /\ call'.phase = "body" /\ call'.id = call.id
      /\ call'.deadline = call.deadline
  <2>1. call = [op |-> call.op, phase |-> call.phase, id |-> call.id, rem |-> call.rem,
                trades |-> call.trades, deadline |-> call.deadline]
    BY <1>6 DEF CallType
  <2>2. call' = [op |-> call.op, phase |-> call.phase, id |-> call.id, rem |-> call.rem - q,
                 trades |-> Append(call.trades, t), deadline |-> call.deadline]
    BY <1>1, <2>1 DEF t
  <2>3. call.rem - q \in Nat /\ Append(call.trades, t) \in Seq(Trade)
    BY <1>4, <1>5, <1>6, <1>7 DEF CallType
  <2>4. call.op \in {"submit"} /\ call.phase \in {"body"} /\ call.id \in 0 .. MaxOrders /\ call.deadline \in Int
    BY <1>4, <1>6 DEF CallType
  <2> QED BY <2>2, <2>3, <2>4 DEF CallType
<1>9. index' = A2
  BY <1>1, <1>3, <1>5 DEF Inv, EntryInv, Fills, RemainingIn
<1>10. DOMAIN sides = Sides /\ DOMAIN sides' = Sides /\ sides' = [s \in Sides |-> sides'[s]]
  <2>1. DOMAIN sides = Sides
    BY DEF Inv, TypeInv
  <2> HIDE DEF S
  <2> QED BY <1>1, <2>1
<1>11. TypeInv'
  <2>1. index' \subseteq Ids
    BY <1>9 DEF AliveIn
  <2> HIDE DEF A2, R2, A, R, Q, S, opp
  <2> QED BY <1>2, <1>3, <1>8, <1>10, <2>1 DEF Inv, TypeInv
<1>12. EntryInv'
  <2>1. ASSUME NEW x \in Ids
        PROVE  /\ entry'[x].alive => entry'[x].remaining > 0 /\ entry'[x].sequence > 0
               /\ entry'[x].sequence > 0 => x <= issued' /\ ~(call'.op = "submit" /\ call'.id = x)
               /\ entry'[x].sequence <= sequence' /\ entry'[x].restedAt <= now'
    <3>1. CASE x # o
      BY <1>2, <1>3, <1>4, <1>8, <3>1 DEF Inv, EntryInv
    <3>2. CASE x = o
      <4>1. entry[o].sequence > 0
        BY <1>4, Resting
      <4>2. entry'[o].alive => entry'[o].remaining > 0
        <5>1. entry'[o].alive => entry[o].remaining # q
          BY <1>3, Zenon
        <5>2. entry[o].remaining # q => entry[o].remaining - q > 0
          BY <1>4, <1>5
        <5> QED BY <1>3, <5>1, <5>2
      <4> QED BY <1>2, <1>3, <1>4, <1>8, <3>2, <4>1, <4>2 DEF Inv, EntryInv
    <3> QED BY <3>1, <3>2
  <2> QED BY <1>9, <2>1 DEF EntryInv
<1>13. A2 \subseteq A /\ \A x \in Ids : entry'[x].sequence = entry[x].sequence /\ entry'[x].restedAt = entry[x].restedAt
  BY <1>3 DEF Fills
<1>14. CallInv'
  <2>1. call.id \in 1 .. issued
    BY <1>4 DEF Inv, CallInv
  <2>2. MaxAge > 0 => \A x \in A : entry[x].restedAt > call.deadline
    BY <1>4 DEF Inv, CallInv
  <2>3. MaxAge > 0 => \A x \in A2 : entry'[x].restedAt > call'.deadline
    BY <1>8, <1>13, <2>2 DEF AliveIn
  <2> QED BY <1>2, <1>8, <2>1, <2>3 DEF CallInv
<1>15. ArrivalInv'
  <2>1. arrivals \in Seq(Ids) /\ \A i \in 1 .. Len(arrivals) : arrivals[i] \in Ids
    BY DEF Inv, TypeInv
  <2>2. MaxAge = 0 => arrivals = << >>
    BY DEF Inv, ArrivalInv
  <2>3. MaxAge > 0 => \A x \in A2 : \E i \in 1 .. Len(arrivals) : arrivals[i] = x
    BY <1>13 DEF Inv, ArrivalInv
  <2>4. \A i \in 1 .. Len(arrivals) : entry'[arrivals[i]].sequence > 0
    BY <1>13, <2>1 DEF Inv, ArrivalInv
  <2>5. \A i, j \in 1 .. Len(arrivals) : i < j => entry'[arrivals[i]].restedAt <= entry'[arrivals[j]].restedAt
    BY <1>13, <2>1 DEF Inv, ArrivalInv
  <2> QED BY <1>2, <2>2, <2>3, <2>4, <2>5 DEF ArrivalInv
<1>16. Values(A, R, Q) /\ Values(A2, R2, Q) /\ \A x \in A : R[x] > 0
  <2>1. Values(A, R, Q)
    BY EntryValues DEF Inv, TypeInv
  <2>2. Values(A2, R2, SequenceIn(entry'))
    BY <1>3, EntryValues
  <2>3. ASSUME NEW x \in A PROVE R[x] > 0
    <3>1. x \in Ids /\ entry[x].remaining > 0
      BY Resting
    <3> QED BY <3>1 DEF RemainingIn
  <2> QED BY <1>3, <2>1, <2>2, <2>3
<1>17. R[o] = entry[o].remaining
  BY <1>5 DEF RemainingIn
<1>18. /\ GoodSide(FillBest(S, opp, order[o].price, q, entry[o].remaining), opp, A2, R2, Q, order)
       /\ NoneEmptied(FillBest(S, opp, order[o].price, q, entry[o].remaining), sides[opp])
  <2> DEFINE s == opp
             L == S.levels[order[o].price]
             S2 == FillBest(S, s, order[o].price, q, R[o])
  <2>1. o # 0
    BY <1>5, BoundAssumption DEF Ids
  <2>2. /\ GoodSide(S, s, A, R, Q, order)
        /\ S.levels[order[o].price].queue # << >> /\ S.levels[order[o].price].queue[1] = o
        /\ NoneEmptied(S, sides[s])
    <3>1. S = DropDeadFront(sides[s], s) /\ o = Best(S, s) /\ s \in Sides
      BY <1>1, <1>5
    <3> HIDE DEF S, s
    <3> QED BY <2>1, <3>1, FrontKeeps
  <2>3. s \in Sides /\ order[o].side = s /\ o \in A
    BY <1>4, <1>5
  <2>4. S2 = FillBest(S, s, order[o].price, q, R[o]) /\ S2 = FillBest(S, opp, order[o].price, q, entry[o].remaining)
    BY <1>17
  <2> HIDE DEF S, s, S2, A, R, Q, A2, R2
  <2>5. Fills(A, R, o, q, A2, R2)
    BY <1>3
  <2>6. GoodSide(S2, s, A2, R2, Q, order) /\ NoneEmptied(S2, S)
    BY <1>16, <2>2, <2>3, <2>4, <2>5, GoodFill
  <2>7. NoneEmptied(S2, sides[s])
    BY <2>2, <2>6 DEF NoneEmptied
  <2> QED BY <2>4, <2>6, <2>7 DEF s
<1>19. Moves(A, R, Q, A2, R2, Q, order, opp, o)
  <2>1. Differ(R, A, R2, A2, o)
    <3> HIDE DEF A, R, A2, R2
    <3>1. \A x \in Ids : x # o => (x \in A2 <=> x \in A) /\ R2[x] = R[x]
      BY <1>3, <1>16 DEF Fills, Values
    <3> QED BY <3>1 DEF Differ
  <2> HIDE DEF A, R, A2, R2, Q, opp
  <2> QED BY <1>5, <1>16, <2>1 DEF Moves
<1>20. SidesInv'
  <2> SUFFICES ASSUME NEW s \in Sides PROVE GoodSide(sides'[s], s, A2, R2, Q, order)
    BY <1>2, <1>3 DEF SidesInv
  <2>1. sides'[s] = IF s = opp THEN FillBest(S, opp, order[o].price, q, entry[o].remaining) ELSE sides[s]
    <3> HIDE DEF S
    <3> QED BY <1>1, <1>10
  <2>2. GoodSide(sides[s], s, A, R, Q, order)
    BY DEF Inv, SidesInv
  <2> HIDE DEF A, R, A2, R2, Q, opp, S
  <2>3. CASE s # opp
    BY <1>19, <2>1, <2>2, <2>3, OtherSide
  <2> QED BY <1>18, <2>1, <2>3
<1>21. NothingEmptied
  <2> SUFFICES ASSUME NEW s \in Sides PROVE NoneEmptied(sides'[s], sides[s])
    BY DEF NothingEmptied
  <2>1. sides'[s] = IF s = opp THEN FillBest(S, opp, order[o].price, q, entry[o].remaining) ELSE sides[s]
    <3> HIDE DEF S
    <3> QED BY <1>1, <1>10
  <2>2. NoneEmptied(sides[s], sides[s])
    BY DEF NoneEmptied
  <2> HIDE DEF opp, S
  <2> QED BY <1>18, <2>1, <2>2
<1> QED BY <1>11, <1>12, <1>14, <1>15, <1>20, <1>21 DEF Inv

\* The step that rests what is left of the submitted order.
RestsEntry(id, sd) ==
    /\ call.op = "submit" /\ call.phase = "body" /\ call.rem > 0
    /\ id = call.id /\ sd = order[id].side
    /\ sequence' = sequence + 1
    /\ entry' = [entry EXCEPT ![id] =
                   [remaining |-> call.rem, sequence |-> sequence + 1,
                    restedAt |-> IF MaxAge > 0 THEN now ELSE 0, alive |-> TRUE]]
    /\ sides' = [sides EXCEPT ![Opposite(sd)] = DropDeadFront(sides[Opposite(sd)], Opposite(sd)),
                              ![sd] = Add(@, sd, id, order[id].price, call.rem)]
    /\ index' = index \cup {id}
    /\ arrivals' = (IF MaxAge > 0 THEN Append(arrivals, id) ELSE arrivals)
    /\ recent' = Newest(recent \o call.trades)
    /\ call' = NoCall
    /\ UNCHANGED <<issued, order, filled, withdrawn, now>>

LEMMA RestSteps == SubmitRest => RestsEntry(call.id, order[call.id].side)
BY DEF SubmitRest, RestsEntry, InBody, orderVars, history

LEMMA RestEntries ==
    ASSUME Inv, NEW id, NEW sd, RestsEntry(id, sd)
    PROVE  /\ id \in Ids /\ id \in 1 .. issued /\ order[id] \in Order /\ sd \in Sides /\ call.rem \in Nat
           /\ id \notin AliveIn(entry) /\ entry[id].sequence = 0
           /\ entry' \in [Ids -> Entry]
           /\ \A x \in Ids : x # id => entry'[x] = entry[x]
           /\ entry'[id].remaining = call.rem /\ entry'[id].sequence = sequence + 1
           /\ entry'[id].restedAt = (IF MaxAge > 0 THEN now ELSE 0) /\ entry'[id].alive
           /\ AliveIn(entry') = AliveIn(entry) \cup {id}
           /\ RemainingIn(entry') = [RemainingIn(entry) EXCEPT ![id] = call.rem]
           /\ SequenceIn(entry') = [SequenceIn(entry) EXCEPT ![id] = sequence + 1]
<1>1. /\ entry \in [Ids -> Entry] /\ sequence \in Nat /\ now \in Nat /\ call \in CallType
      /\ call.op = "submit" /\ id = call.id /\ sd = order[id].side
  BY DEF Inv, TypeInv, RestsEntry
<1>2. id \in 1 .. issued /\ issued \in 0 .. MaxOrders
  BY <1>1 DEF Inv, CallInv, TypeInv
<1>3. id \in Ids /\ order[id] \in Order /\ call.rem \in Nat
  BY <1>1, <1>2, BoundAssumption DEF Inv, TypeInv, Ids, CallType
<1>4. sd \in Sides
  BY <1>1, <1>3 DEF Order
<1>5. ~(entry[id].sequence > 0) /\ entry[id].sequence \in Nat
  BY <1>1, <1>3, EntryValues DEF Inv, EntryInv
<1>6. entry[id].sequence = 0
  BY <1>5
<1>7. id \notin AliveIn(entry)
  BY <1>1, <1>3, <1>5, EntryValues DEF Inv, EntryInv
<1> DEFINE new == [remaining |-> call.rem, sequence |-> sequence + 1,
                   restedAt |-> IF MaxAge > 0 THEN now ELSE 0, alive |-> TRUE]
<1>8. new \in Entry
  BY <1>1, <1>3 DEF Entry
<1>9. /\ new.remaining = call.rem /\ new.sequence = sequence + 1
      /\ new.restedAt = (IF MaxAge > 0 THEN now ELSE 0) /\ new.alive
  OBVIOUS
<1>10. entry' = [entry EXCEPT ![id] = new]
  BY DEF RestsEntry
<1> HIDE DEF new
<1>11. /\ \A x \in Ids : x # id => entry'[x] = entry[x]
       /\ entry'[id] = new /\ entry' \in [Ids -> Entry]
  BY <1>1, <1>3, <1>8, <1>10
<1>12. AliveIn(entry') = AliveIn(entry) \cup {id}
  BY <1>3, <1>9, <1>11 DEF AliveIn
<1>13. RemainingIn(entry') = [RemainingIn(entry) EXCEPT ![id] = call.rem]
  BY <1>3, <1>9, <1>11 DEF RemainingIn
<1>14. SequenceIn(entry') = [SequenceIn(entry) EXCEPT ![id] = sequence + 1]
  BY <1>3, <1>9, <1>11 DEF SequenceIn
<1> QED BY <1>2, <1>3, <1>4, <1>6, <1>7, <1>9, <1>11, <1>12, <1>13, <1>14

LEMMA RestSides ==
    ASSUME Inv, NEW id, NEW sd, RestsEntry(id, sd)
    PROVE  /\ DOMAIN sides' = Sides /\ sides' = [s \in Sides |-> sides'[s]]
           /\ SidesInv' /\ NothingEmptied
<1> DEFINE A == AliveIn(entry)
           R == RemainingIn(entry)
           Q == SequenceIn(entry)
           A2 == A \cup {id}
           R2 == [R EXCEPT ![id] = call.rem]
           Q2 == [Q EXCEPT ![id] = sequence + 1]
           opp == Opposite(sd)
           S == DropDeadFront(sides[opp], opp)
           S2 == Add(sides[sd], sd, id, order[id].price, call.rem)
<1>1. /\ id \in Ids /\ order[id] \in Order /\ sd \in Sides /\ call.rem \in Nat
      /\ id \notin A /\ entry[id].sequence = 0
      /\ entry' \in [Ids -> Entry]
      /\ AliveIn(entry') = A2 /\ RemainingIn(entry') = R2 /\ SequenceIn(entry') = Q2
  BY RestEntries
<1>2. /\ sides' = [sides EXCEPT ![opp] = S, ![sd] = Add(@, sd, id, order[id].price, call.rem)]
      /\ order' = order /\ sd = order[id].side /\ call.rem > 0
  BY DEF RestsEntry
<1>3. opp \in Sides /\ opp # sd /\ \A s \in Sides : s = sd \/ s = opp
  BY <1>1 DEF Opposite, Sides
<1>4. DOMAIN sides = Sides /\ sequence \in Nat /\ entry \in [Ids -> Entry]
  BY DEF Inv, TypeInv
<1>5. DOMAIN sides' = Sides /\ sides'[sd] = S2 /\ sides'[opp] = S
      /\ sides' = [s \in Sides |-> sides'[s]]
  <2> HIDE DEF S, opp
  <2> QED BY <1>1, <1>2, <1>3, <1>4
<1>6. Values(A, R, Q) /\ Q[id] = 0
  BY <1>1, <1>4, EntryValues
<1>7. \A x \in Ids : Q[x] < sequence + 1
  <2>1. ASSUME NEW x \in Ids PROVE Q[x] < sequence + 1
    <3>1. Q[x] = entry[x].sequence /\ entry[x].sequence \in Nat
      BY <1>4, EntryValues
    <3>2. entry[x].sequence <= sequence
      BY DEF Inv, EntryInv
    <3> HIDE DEF Q
    <3> QED BY <1>4, <3>1, <3>2
  <2> QED BY <2>1
<1>8. GoodSide(S2, sd, A2, R2, Q2, order) /\ NoneEmptied(S2, sides[sd])
  <2>1. GoodSide(sides[sd], sd, A, R, Q, order)
    BY <1>1 DEF Inv, SidesInv
  <2>2. order[id].price \in Prices /\ sequence + 1 \in Nat
    BY <1>1, <1>4 DEF Order
  <2> DEFINE q == call.rem
             n == sequence + 1
             T == sides[sd]
  <2>3. /\ q \in Nat /\ n \in Nat /\ \A x \in Ids : Q[x] < n
        /\ GoodSide(T, sd, A, R, Q, order) /\ S2 = Add(T, sd, id, order[id].price, q)
        /\ order[id].side = sd /\ order[id].price \in Prices
    BY <1>1, <1>2, <1>7, <2>1, <2>2
  <2> HIDE DEF A, R, Q, S2, q, n, T
  <2>4. /\ GoodSide(S2, sd, A \cup {id}, [R EXCEPT ![id] = q], [Q EXCEPT ![id] = n], order)
        /\ q > 0 => NoneEmptied(S2, T)
    BY <1>1, <1>6, <2>3, GoodAdd
  <2> QED BY <1>2, <2>4 DEF q, n, T
<1>9. GoodSide(S, opp, A, R, Q, order) /\ NoneEmptied(S, sides[opp])
  <2> DEFINE s == opp
  <2>1. s \in Sides /\ S = DropDeadFront(sides[s], s)
    BY <1>3
  <2> HIDE DEF s, S
  <2>2. GoodSide(S, s, A, R, Q, order) /\ NoneEmptied(S, sides[s])
    BY <2>1, FrontKeeps
  <2> QED BY <2>2 DEF s
<1>10. Moves(A, R, Q, A2, R2, Q2, order, sd, id)
  <2>1. Values(A2, R2, Q2)
    <3>1. Values(AliveIn(entry'), RemainingIn(entry'), SequenceIn(entry'))
      BY <1>1, EntryValues
    <3> QED BY <1>1, <3>1
  <2> HIDE DEF A, R, Q
  <2>2. \A x \in Ids : x # id => (x \in A2 <=> x \in A) /\ R2[x] = R[x] /\ Q2[x] = Q[x]
    BY <1>1, <1>6 DEF Values
  <2> HIDE DEF A2, R2, Q2
  <2>3. Differ(R, A, R2, A2, id)
    BY <2>2 DEF Differ
  <2>4. ~(Q[id] > 0)
    BY <1>6
  <2> QED BY <1>1, <1>2, <1>6, <2>1, <2>2, <2>3, <2>4 DEF Moves
<1>11. SidesInv'
  <2> SUFFICES ASSUME NEW s \in Sides PROVE GoodSide(sides'[s], s, A2, R2, Q2, order)
    BY <1>1, <1>2 DEF SidesInv
  <2> HIDE DEF A, R, Q, A2, R2, Q2, S, S2, opp
  <2>1. GoodSide(S, opp, A2, R2, Q2, order)
    BY <1>3, <1>9, <1>10, OtherSide
  <2> QED BY <1>3, <1>5, <1>8, <2>1
<1>12. NothingEmptied
  <2> HIDE DEF S, S2, opp
  <2> QED BY <1>3, <1>5, <1>8, <1>9 DEF NothingEmptied
<1> QED BY <1>5, <1>11, <1>12

LEMMA SubmitRestInv == Inv /\ SubmitRest => Inv'
<1> SUFFICES ASSUME Inv, SubmitRest PROVE Inv'
  OBVIOUS
<1> DEFINE id == call.id
           sd == order[id].side
<1>1. RestsEntry(id, sd)
  BY RestSteps
<1> HIDE DEF id, sd
<1>2. /\ sequence' = sequence + 1 /\ index' = index \cup {id}
      /\ arrivals' = (IF MaxAge > 0 THEN Append(arrivals, id) ELSE arrivals)
      /\ recent' = Newest(recent \o call.trades) /\ call' = NoCall /\ call.rem > 0
      /\ UNCHANGED <<issued, order, filled, withdrawn, now>>
  BY <1>1 DEF RestsEntry
<1>3. /\ id \in Ids /\ id \in 1 .. issued /\ call.rem \in Nat /\ entry[id].sequence = 0
      /\ entry' \in [Ids -> Entry]
      /\ \A x \in Ids : x # id => entry'[x] = entry[x]
      /\ entry'[id].remaining = call.rem /\ entry'[id].sequence = sequence + 1
      /\ entry'[id].restedAt = (IF MaxAge > 0 THEN now ELSE 0) /\ entry'[id].alive
      /\ AliveIn(entry') = AliveIn(entry) \cup {id}
  BY <1>1, RestEntries
<1>4. DOMAIN sides' = Sides /\ sides' = [s \in Sides |-> sides'[s]] /\ SidesInv'
  BY <1>1, RestSides
<1>5. /\ entry \in [Ids -> Entry] /\ sequence \in Nat /\ now \in Nat /\ arrivals \in Seq(Ids)
      /\ Len(arrivals) \in Nat /\ \A i \in 1 .. Len(arrivals) : arrivals[i] \in Ids
  BY DEF Inv, TypeInv
<1>6. CallInv' /\ call' \in CallType /\ call'.op # "submit"
  BY <1>2, IdleCall
<1>7. index' = AliveIn(entry')
  BY <1>2, <1>3 DEF Inv, EntryInv
<1>8. TypeInv'
  <2>1. recent \o call.trades \in Seq(Trade)
    BY ConcatProperties DEF Inv, TypeInv, CallType
  <2>2. recent' \in Seq(Trade) /\ Len(recent') <= RecentTradeCapacity
    BY <1>2, <2>1, NewestTyped
  <2>3. arrivals' \in Seq(Ids) /\ index' \subseteq Ids /\ sequence' \in Nat
    BY <1>2, <1>3, <1>5, <1>7 DEF AliveIn
  <2> QED BY <1>2, <1>3, <1>4, <1>6, <2>2, <2>3 DEF Inv, TypeInv
<1>9. EntryInv'
  <2>1. ASSUME NEW x \in Ids
        PROVE  /\ entry'[x].alive => entry'[x].remaining > 0 /\ entry'[x].sequence > 0
               /\ entry'[x].sequence > 0 => x <= issued' /\ ~(call'.op = "submit" /\ call'.id = x)
               /\ entry'[x].sequence <= sequence' /\ entry'[x].restedAt <= now'
    <3>1. CASE x # id
      <4>1. entry[x].sequence <= sequence /\ entry[x].sequence \in Nat
        BY <1>5, EntryValues DEF Inv, EntryInv
      <4>2. entry[x].sequence <= sequence'
        BY <1>2, <1>5, <4>1
      <4> QED BY <1>2, <1>3, <1>6, <3>1, <4>2 DEF Inv, EntryInv
    <3>2. CASE x = id
      <4>1. x <= issued
        BY <1>3, <3>2
      <4>2. entry'[id].restedAt <= now /\ sequence + 1 > 0
        BY <1>3, <1>5, BoundAssumption
      <4> QED BY <1>2, <1>3, <1>5, <1>6, <3>2, <4>1, <4>2
    <3> QED BY <3>1, <3>2
  <2> QED BY <1>7, <2>1 DEF EntryInv
<1>10. ArrivalInv'
  <2>1. \A i \in 1 .. Len(arrivals) : entry[arrivals[i]].sequence > 0 /\ arrivals[i] # id
    BY <1>3 DEF Inv, ArrivalInv
  <2>2. \A i \in 1 .. Len(arrivals) : entry'[arrivals[i]] = entry[arrivals[i]]
    BY <1>3, <1>5, <2>1
  <2>3. CASE MaxAge > 0
    <3>1. /\ Len(arrivals') = Len(arrivals) + 1 /\ arrivals'[Len(arrivals) + 1] = id
          /\ \A i \in 1 .. Len(arrivals) : arrivals'[i] = arrivals[i]
          /\ \A i \in 1 .. Len(arrivals') : i \in 1 .. Len(arrivals) \/ i = Len(arrivals) + 1
      BY <1>2, <1>5, <2>3
    <3>2. ASSUME NEW x \in AliveIn(entry') PROVE \E i \in 1 .. Len(arrivals') : arrivals'[i] = x
      <4>1. CASE x = id
        BY <1>5, <3>1, <4>1
      <4>2. CASE x \in AliveIn(entry)
        <5>1. PICK i \in 1 .. Len(arrivals) : arrivals[i] = x
          BY <2>3, <4>2 DEF Inv, ArrivalInv
        <5> QED BY <1>5, <3>1, <5>1
      <4> QED BY <1>3, <4>1, <4>2
    <3>3. ASSUME NEW i \in 1 .. Len(arrivals') PROVE entry'[arrivals'[i]].sequence > 0
      <4>1. CASE i \in 1 .. Len(arrivals)
        BY <2>1, <2>2, <3>1, <4>1
      <4>2. CASE i = Len(arrivals) + 1
        BY <1>3, <1>5, <3>1, <4>2
      <4> QED BY <3>1, <4>1, <4>2
    <3>4. ASSUME NEW i \in 1 .. Len(arrivals'), NEW j \in 1 .. Len(arrivals'), i < j
          PROVE  entry'[arrivals'[i]].restedAt <= entry'[arrivals'[j]].restedAt
      <4>1. i \in 1 .. Len(arrivals)
        BY <1>5, <3>1, <3>4
      <4>2. CASE j \in 1 .. Len(arrivals)
        BY <2>2, <3>1, <3>4, <4>1, <4>2 DEF Inv, ArrivalInv
      <4>3. CASE j = Len(arrivals) + 1
        <5>1. entry'[arrivals'[j]].restedAt = now
          BY <1>3, <2>3, <3>1, <4>3
        <5>2. entry[arrivals[i]].restedAt <= now
          BY <1>5, <4>1 DEF Inv, EntryInv
        <5> QED BY <2>2, <3>1, <4>1, <5>1, <5>2
      <4> QED BY <3>1, <4>2, <4>3
    <3> QED BY <2>3, <3>2, <3>3, <3>4 DEF ArrivalInv
  <2>4. CASE ~(MaxAge > 0)
    <3>1. MaxAge = 0
      BY <2>4, BoundAssumption
    <3>2. arrivals' = arrivals /\ arrivals = << >>
      BY <1>2, <3>1 DEF Inv, ArrivalInv
    <3>3. Len(arrivals') = 0
      BY <3>2
    <3> QED BY <3>1, <3>2, <3>3 DEF ArrivalInv
  <2> QED BY <2>3, <2>4
<1> QED BY <1>4, <1>6, <1>8, <1>9, <1>10 DEF Inv

LEMMA InvNext == Inv /\ [Next]_vars => Inv'
<1> SUFFICES ASSUME Inv, [Next]_vars PROVE Inv'
  OBVIOUS
<1>1. CASE Next
  <2>1. CASE \E sd \in Sides, p \in Prices, q \in Quantities : SubmitBegin(sd, p, q)
    BY <2>1, SubmitBeginInv
  <2>2. CASE \E o \in Ids : CancelBegin(o)
    BY <2>2, CancelBeginInv
  <2>3. CASE \E op \in {"read", "best_price"} : ReadBegin(op)
    BY <2>3, ReadBeginInv
  <2>4. CASE CallStep
    BY <2>4, ExpireStepInv, ExpireDoneInv, MatchInv, SubmitFilledInv, SubmitRestInv, CancelOpenInv,
       NothingDoneInv, BestPriceEndInv DEF CallStep
  <2>5. CASE Tick
    BY <2>5, TickInv
  <2> QED BY <1>1, <2>1, <2>2, <2>3, <2>4, <2>5 DEF Next
<1>2. CASE UNCHANGED vars
  <2>1. UNCHANGED <<issued, order, entry, sides, index, arrivals, sequence, filled, withdrawn, recent, now, call>>
    BY <1>2 DEF vars, orderVars, bookVars, history
  <2>2. CallInv' /\ now \in Nat /\ recent \in Seq(Trade) /\ Len(recent) <= RecentTradeCapacity /\ call \in CallType
    BY <2>1 DEF Inv, CallInv, TypeInv
  <2> QED BY <2>1, <2>2, InvFrame
<1> QED BY <1>1, <1>2

LEMMA InvAlways == Spec => []Inv
BY InvInit, InvNext, PTL DEF Spec

-----------------------------------------------------------------------------
(* Lazy deletion *)

\* As many entries of a queue are live as orders rest at its price.
LEMMA LiveCount ==
    ASSUME NEW L, NEW sd, NEW p, NEW A, A = AliveIn(entry), NEW R, NEW Q, Values(A, R, Q),
           GoodLevel(L, sd, p, A, R, Q, order)
    PROVE  Cardinality(LiveIn(L.queue)) = Cardinality(AtPrice(A, order, sd, p))
<1> DEFINE live == LiveIn(L.queue)
           T == AtPrice(A, order, sd, p)
           f == [j \in live |-> L.queue[j]]
<1>1. /\ live \subseteq 1 .. Len(L.queue)
      /\ \A j \in live : L.queue[j] \in T
      /\ \A x \in T : \E j \in live : L.queue[j] = x
  BY LiveAtPrice
<1>2. \A i, j \in 1 .. Len(L.queue) : L.queue[i] = L.queue[j] => i = j
  BY QueuedOnce
<1>3. IsFiniteSet(T)
  BY AtPriceTypes DEF Values
<1> HIDE DEF live, T
<1>4. f \in [live -> T] /\ (\A i, j \in live : f[i] = f[j] => i = j) /\ \A x \in T : \E j \in live : f[j] = x
  BY <1>1, <1>2
<1> HIDE DEF f
<1>5. f \in Bijection(live, T)
  BY <1>4 DEF Bijection, Injection, IsInjective, Surjection
<1>6. Cardinality(live) = Cardinality(T)
  <2>1. ExistsBijection(live, T)
    BY <1>5 DEF ExistsBijection
  <2>2. IsFiniteSet(live)
    <3>1. L.queue \in Seq(Ids)
      BY QueuedOnce
    <3>2. IsFiniteSet(1 .. Len(L.queue))
      BY <3>1, FS_Interval
    <3> QED BY <1>1, <3>2, FS_Subset
  <2> QED BY <1>3, <2>1, <2>2, FS_Bijection
<1> QED BY <1>6 DEF live, T

\* What the invariant says of one level of one side.
LEMMA LevelNow ==
    ASSUME Inv, NEW sd \in Sides, NEW p \in DOMAIN sides[sd].levels
    PROVE  /\ GoodLevel(sides[sd].levels[p], sd, p, AliveIn(entry), RemainingIn(entry), SequenceIn(entry), order)
           /\ Values(AliveIn(entry), RemainingIn(entry), SequenceIn(entry))
<1>1. GoodSide(sides[sd], sd, AliveIn(entry), RemainingIn(entry), SequenceIn(entry), order)
  BY DEF Inv, SidesInv
<1>2. Values(AliveIn(entry), RemainingIn(entry), SequenceIn(entry))
  BY EntryValues DEF Inv, TypeInv
<1> QED BY <1>1, <1>2 DEF GoodSide

LEMMA InvTypes == Inv => TypeOK
<1> SUFFICES ASSUME Inv PROVE TypeOK
  OBVIOUS
<1>1. \A o \in Ids : entry[o] \in [remaining : Nat, sequence : Nat, restedAt : Nat, alive : BOOLEAN]
  BY DEF Inv, TypeInv, Entry
<1>2. index \subseteq 1 .. issued
  BY Resting DEF Inv, EntryInv
<1>3. call.op \in {"none", "submit", "cancel", "read", "best_price"}
  BY DEF Inv, TypeInv, CallType
<1>4. ASSUME NEW sd \in Sides
      PROVE  /\ sides[sd].keys \in Seq(Int)
             /\ DOMAIN sides[sd].levels \subseteq Prices
             /\ \A p \in DOMAIN sides[sd].levels :
                  sides[sd].levels[p] \in [queue : Seq(Ids), quantity : Nat, dead : Nat]
             /\ sides[sd].total \in Nat
  <2> DEFINE A == AliveIn(entry)
             R == RemainingIn(entry)
             Q == SequenceIn(entry)
  <2>1. GoodSide(sides[sd], sd, A, R, Q, order)
    BY DEF Inv, SidesInv
  <2>2. R \in [Ids -> Nat]
    BY EntryValues DEF Inv, TypeInv, Values
  <2>3. \A p \in DOMAIN sides[sd].levels : sides[sd].levels[p] \in Level
    BY LevelNow DEF GoodLevel
  <2> HIDE DEF A, R, Q
  <2>4. sides[sd].keys \in Seq(Int) /\ DOMAIN sides[sd].levels \subseteq Prices
        /\ Adds(Only(R, OfSide(A, order, sd)), sides[sd].total)
    BY <2>1 DEF GoodSide, Shape
  <2>5. sides[sd].total \in Nat
    BY <2>2, <2>4, OnlyBounds
  <2> QED BY <2>3, <2>4, <2>5 DEF Level
<1> QED BY <1>1, <1>2, <1>3, <1>4 DEF Inv, TypeInv, TypeOK

LEMMA InvIndex == Inv => IndexExact
<1> SUFFICES ASSUME Inv PROVE IndexExact
  OBVIOUS
<1>1. index = {o \in Ids : entry[o].alive}
  BY DEF Inv, EntryInv, AliveIn
<1>2. ASSUME NEW sd \in Sides, NEW p \in DOMAIN sides[sd].levels
      PROVE  /\ IsUnique(sides[sd].levels[p].queue)
             /\ \A o \in Queued(sd, p) : order[o].side = sd /\ order[o].price = p
  <2> DEFINE q == sides[sd].levels[p].queue
  <2>1. /\ q \in Seq(Ids) /\ \A i, j \in 1 .. Len(q) : q[i] = q[j] => i = j
    BY LevelNow, QueuedOnce
  <2>2. \A i \in 1 .. Len(q) : order[q[i]].side = sd /\ order[q[i]].price = p
    BY LevelNow DEF GoodLevel
  <2>3. Queued(sd, p) = {q[i] : i \in DOMAIN q}
    BY DEF Queued, ToSet
  <2> HIDE DEF q
  <2>4. DOMAIN q = 1 .. Len(q)
    BY <2>1
  <2>5. IsUnique(q)
    BY <2>1, <2>4 DEF IsUnique
  <2> QED BY <2>2, <2>3, <2>4, <2>5 DEF q
<1>3. ASSUME NEW o \in index
      PROVE  /\ order[o].price \in DOMAIN sides[order[o].side].levels
             /\ o \in Queued(order[o].side, order[o].price)
  <2> DEFINE sd == order[o].side
             p == order[o].price
             q == sides[sd].levels[p].queue
  <2>1. o \in AliveIn(entry)
    BY DEF Inv, EntryInv
  <2>2. sd \in Sides /\ o \in OfSide(AliveIn(entry), order, sd) /\ o \in AtPrice(AliveIn(entry), order, sd, p)
    BY <2>1, Resting DEF Order, OfSide, AtPrice
  <2>3. p \in DOMAIN sides[sd].levels
    BY <2>2 DEF Inv, SidesInv, GoodSide
  <2>4. q \in Seq(Ids) /\ \E i \in 1 .. Len(q) : q[i] = o
    BY <2>2, <2>3, LevelNow, QueuedOnce, LevelFacts
  <2>5. Queued(sd, p) = {q[i] : i \in DOMAIN q}
    BY DEF Queued, ToSet
  <2> HIDE DEF q
  <2>6. DOMAIN q = 1 .. Len(q)
    BY <2>4
  <2> QED BY <2>3, <2>4, <2>5, <2>6
<1> QED BY <1>1, <1>2, <1>3 DEF IndexExact

LEMMA InvDeadCount == Inv => DeadCountExact
<1> SUFFICES ASSUME Inv, NEW sd \in Sides, NEW p \in DOMAIN sides[sd].levels
             PROVE  sides[sd].levels[p].dead
                      = Len(sides[sd].levels[p].queue) - Cardinality(LiveIn(sides[sd].levels[p].queue))
  BY DEF DeadCountExact
<1> DEFINE L == sides[sd].levels[p]
           A == AliveIn(entry)
           R == RemainingIn(entry)
           Q == SequenceIn(entry)
<1>1. GoodLevel(L, sd, p, A, R, Q, order) /\ Values(A, R, Q)
  BY LevelNow
<1>2. A = AliveIn(entry)
  OBVIOUS
<1> HIDE DEF L, A, R, Q
<1>3. L.dead = Len(L.queue) - Cardinality(AtPrice(A, order, sd, p))
  BY <1>1, LevelFacts
<1>4. Cardinality(LiveIn(L.queue)) = Cardinality(AtPrice(A, order, sd, p))
  BY <1>1, <1>2, LiveCount
<1> QED BY <1>3, <1>4 DEF L

\* Lazy deletion keeps its books: through every mix of fills, cancels and
\* expiries the index, the entries marked alive and the live entries of the
\* queues are the same orders, at their own side and price, and each level's
\* `dead` counts the others, whatever the threshold of compaction
\* (_Side.remove, _Side.best, OrderBook.cancel, _expire, submit).
THEOREM LazyDeletion == Spec => []LazyDeletionExact
<1>1. Inv => LazyDeletionExact
  BY InvTypes, InvIndex, InvDeadCount DEF LazyDeletionExact
<1> QED BY <1>1, InvAlways, PTL

-----------------------------------------------------------------------------
(***************************************************************************)
(* The production book implements the reference book.                      *)
(*                                                                         *)
(* The oracle's list of open orders is the set of entries marked alive     *)
(* (what lazy deletion keeps makes it also the live entries of the         *)
(* queues), so each step is compared through `entry` and `call` alone.     *)
(***************************************************************************)
SeenRight == RestingSeen = AliveIn(entry)

LEMMA Seen == Inv => SeenRight
<1> SUFFICES ASSUME Inv PROVE RestingSeen = AliveIn(entry)
  BY DEF SeenRight
<1>1. IndexExact /\ index = AliveIn(entry)
  BY InvIndex DEF Inv, EntryInv
<1>2. ASSUME NEW o \in AliveIn(entry) PROVE o \in RestingSeen
  <2>1. /\ o \in Ids /\ entry[o].alive /\ order[o].side \in Sides
    BY Resting DEF Order
  <2>2. /\ order[o].price \in DOMAIN sides[order[o].side].levels
        /\ o \in Queued(order[o].side, order[o].price)
    BY <1>1 DEF IndexExact
  <2> QED BY <2>1, <2>2 DEF RestingSeen
<1>3. RestingSeen \subseteq AliveIn(entry)
  BY DEF RestingSeen, AliveIn
<1> QED BY <1>2, <1>3

LEMMA SeenSame ==
    ASSUME UNCHANGED <<entry, sides>>
    PROVE  UNCHANGED <<RestingSeen, RemSeen, SeqSeen, RestedAtSeen>>
BY DEF RestingSeen, RemSeen, SeqSeen, RestedAtSeen, Queued

\* What the oracle sees of a call that begins, of one that has returned.
LEMMA SeenCalls ==
    /\ call' = NoCall => CallSeen' = Reference!NoCall
    /\ \A op, id, q : Begin(op, id, q) /\ op # "best_price" => Reference!Begin(op, id, q)
    /\ \A id, q : Begin("best_price", id, q) => Reference!Begin("read", id, q)
<1>1. call' = NoCall => CallSeen' = Reference!NoCall
  BY DEF CallSeen, NoCall, Reference!NoCall
<1>2. ASSUME NEW op, NEW id, NEW q, Begin(op, id, q)
      PROVE  Reference!Begin(IF op = "best_price" THEN "read" ELSE op, id, q)
  BY <1>2 DEF Begin, Reference!Begin, CallSeen
<1> QED BY <1>1, <1>2

LEMMA RefSubmitBegin ==
    ASSUME NEW sd, NEW p, NEW q, SubmitBegin(sd, p, q)
    PROVE  Reference!SubmitBegin(sd, p, q)
BY SeenSame, SeenCalls DEF SubmitBegin, Reference!SubmitBegin, bookVars, history

LEMMA RefCancelBegin ==
    ASSUME NEW o, CancelBegin(o)
    PROVE  Reference!CancelBegin(o)
BY SeenSame, SeenCalls DEF CancelBegin, Reference!CancelBegin, orderVars, bookVars, history

LEMMA RefReadBegin ==
    ASSUME NEW op \in {"read", "best_price"}, ReadBegin(op)
    PROVE  Reference!ReadBegin
BY SeenSame, SeenCalls DEF ReadBegin, Reference!ReadBegin, orderVars, bookVars, history

LEMMA RefTick == Tick => Reference!Tick
<1> SUFFICES ASSUME Tick PROVE Reference!Tick
  OBVIOUS
<1>1. CallSeen' = CallSeen
  BY DEF Tick, CallSeen
<1> QED BY <1>1, SeenSame DEF Tick, Reference!Tick, orderVars, bookVars, history

\* A body runs when nothing is left to expire.
LEMMA RefInBody ==
    ASSUME Inv, NEW op \in {"submit", "cancel", "read", "best_price"}, InBody(op)
    PROVE  Reference!InBody(IF op = "best_price" THEN "read" ELSE op)
<1>1. CallSeen.op = (IF op = "best_price" THEN "read" ELSE op) /\ CallSeen.deadline = call.deadline
  BY DEF InBody, CallSeen
<1>2. ASSUME NEW o \in RestingSeen PROVE ~Reference!Expirable(o)
  <2>1. o \in AliveIn(entry) /\ o \in Ids
    BY Seen DEF SeenRight, AliveIn
  <2>2. MaxAge > 0 => entry[o].restedAt > call.deadline
    BY <2>1 DEF InBody, Inv, CallInv
  <2>3. RestedAtSeen[o] = entry[o].restedAt /\ entry[o].restedAt \in Nat /\ call.deadline \in Int
    BY <2>1, EntryValues DEF RestedAtSeen, Inv, TypeInv, CallType
  <2> QED BY <1>1, <2>2, <2>3 DEF Reference!Expirable
<1> QED BY <1>1, <1>2 DEF Reference!InBody

LEMMA RefSubmitFilled ==
    ASSUME Inv, SubmitFilled
    PROVE  Reference!SubmitFilled
<1>1. Reference!InBody("submit")
  BY RefInBody DEF SubmitFilled
<1>2. CallSeen.rem = call.rem /\ CallSeen.trades = call.trades
  BY DEF CallSeen
<1> QED BY <1>1, <1>2, SeenSame, SeenCalls
        DEF SubmitFilled, Reference!SubmitFilled, orderVars, bookVars, history, Newest, Reference!Newest

LEMMA RefCancelClosed ==
    ASSUME Inv, CancelClosed
    PROVE  Reference!CancelClosed
<1>1. Reference!InBody("cancel")
  BY RefInBody DEF CancelClosed
<1>2. CallSeen.id = call.id
  BY DEF CallSeen
<1>3. call.id \notin RestingSeen
  BY Seen DEF SeenRight, CancelClosed, Inv, EntryInv
<1> QED BY <1>1, <1>2, <1>3, SeenSame, SeenCalls
        DEF CancelClosed, Reference!CancelClosed, orderVars, bookVars, history

LEMMA RefReadEnd ==
    ASSUME Inv, ReadEnd
    PROVE  Reference!ReadEnd
<1>1. Reference!InBody("read")
  BY RefInBody DEF ReadEnd
<1> QED BY <1>1, SeenSame, SeenCalls DEF ReadEnd, Reference!ReadEnd, orderVars, bookVars, history

\* Cleaning the front of a side changes nothing the oracle sees.
LEMMA RefBestPriceEnd ==
    ASSUME Inv, NEW sd \in Sides, BestPriceEnd(sd)
    PROVE  Reference!ReadEnd
<1>1. Reference!InBody("read")
  BY RefInBody DEF BestPriceEnd
<1>2. Inv'
  BY BestPriceEndInv
<1>3. SeenRight /\ SeenRight'
  BY <1>2, Seen, PTL
<1>4. UNCHANGED <<RestingSeen, RemSeen, SeqSeen, RestedAtSeen>>
  BY <1>3 DEF SeenRight, BestPriceEnd, RemSeen, SeqSeen, RestedAtSeen
<1> QED BY <1>1, <1>4, SeenCalls DEF BestPriceEnd, Reference!ReadEnd, orderVars, history

\* A cancel or an expiry takes the order out of what the oracle sees.
LEMMA RefWithdraw ==
    ASSUME Inv, Inv', NEW o \in AliveIn(entry), Withdraw(o), UNCHANGED order
    PROVE  Reference!Withdraw(o) /\ UNCHANGED <<SeqSeen, RestedAtSeen>>
<1>1. /\ entry' = [entry EXCEPT ![o].alive = FALSE]
      /\ withdrawn' = [withdrawn EXCEPT ![o] = withdrawn[o] + entry[o].remaining]
  BY DEF Withdraw, OpenQuantity
<1>2. /\ entry \in [Ids -> Entry] /\ o \in Ids /\ entry[o].alive
  BY DEF Inv, TypeInv, AliveIn
<1>3. /\ AliveIn(entry') = AliveIn(entry) \ {o}
      /\ \A x \in Ids : /\ entry'[x].remaining = entry[x].remaining
                        /\ entry'[x].sequence = entry[x].sequence
                        /\ entry'[x].restedAt = entry[x].restedAt
  BY WithdrawKeeps
<1>4. RestingSeen = AliveIn(entry) /\ RestingSeen' = AliveIn(entry')
  <2>1. SeenRight /\ SeenRight'
    BY Seen, PTL
  <2> QED BY <2>1 DEF SeenRight
<1>5. RemSeen[o] = entry[o].remaining
  BY <1>2 DEF RemSeen
<1>6. RemSeen' = [RemSeen EXCEPT ![o] = 0]
  <2>1. \A x \in Ids : entry'[x].alive <=> (entry[x].alive /\ x # o)
    BY <1>3 DEF AliveIn
  <2> QED BY <1>3, <2>1 DEF RemSeen
<1>7. UNCHANGED <<SeqSeen, RestedAtSeen>>
  BY <1>3 DEF SeqSeen, RestedAtSeen
<1> QED BY <1>1, <1>3, <1>4, <1>5, <1>6, <1>7 DEF Reference!Withdraw

\* _expire's loop: a live entry that is old enough expires, a dead one is nothing to the oracle.
LEMMA RefExpireStep ==
    ASSUME Inv, Inv', ExpireStep
    PROVE  (\E o \in Ids : Reference!Expire(o)) \/ UNCHANGED Reference!vars
<1> DEFINE o == Head(arrivals)
<1>1. /\ call.op # "none" /\ arrivals # << >>
      /\ UNCHANGED <<issued, order, sequence, recent, filled, now, call>>
      /\ entry[o].alive => Withdraw(o) /\ ~(entry[o].restedAt > call.deadline)
      /\ ~entry[o].alive => UNCHANGED <<sides, entry, withdrawn>>
  BY DEF ExpireStep, ExpireStops, orderVars
<1>2. o \in Ids /\ MaxAge > 0
  <2>1. arrivals \in Seq(Ids) /\ MaxAge # 0
    BY <1>1 DEF Inv, TypeInv, ArrivalInv
  <2>2. o \in Ids
    BY <1>1, <2>1
  <2> QED BY <2>1, <2>2, BoundAssumption
<1> HIDE DEF o
<1>3. CallSeen' = CallSeen /\ CallSeen.deadline = call.deadline
      /\ (CallSeen.op = "none" => call.op = "none")
  BY <1>1 DEF CallSeen
<1>4. CASE entry[o].alive
  <2>1. o \in AliveIn(entry)
    BY <1>2, <1>4 DEF AliveIn
  <2>2. Reference!Withdraw(o) /\ UNCHANGED <<SeqSeen, RestedAtSeen>>
    BY <1>1, <1>4, <2>1, RefWithdraw
  <2>3. Reference!Expirable(o)
    <3>1. entry[o].restedAt \in Nat /\ call.deadline \in Int
      BY <1>2, EntryValues DEF Inv, TypeInv, CallType
    <3>2. RestedAtSeen[o] = entry[o].restedAt /\ RestingSeen = AliveIn(entry)
      BY <1>2, Seen DEF RestedAtSeen, SeenRight
    <3> QED BY <1>1, <1>2, <1>3, <1>4, <2>1, <3>1, <3>2 DEF Reference!Expirable
  <2> QED BY <1>1, <1>2, <1>3, <2>2, <2>3 DEF Reference!Expire
<1>5. CASE ~entry[o].alive
  <2>1. UNCHANGED <<RestingSeen, RemSeen, SeqSeen, RestedAtSeen>>
    BY <1>1, <1>5, SeenSame
  <2> QED BY <1>1, <1>3, <1>5, <2>1 DEF Reference!vars
<1> QED BY <1>4, <1>5

LEMMA RefExpireDone ==
    ASSUME Inv, ExpireDone
    PROVE  UNCHANGED Reference!vars
<1>1. call' = [call EXCEPT !.phase = "body"] /\ call \in CallType
      /\ UNCHANGED <<orderVars, bookVars, history, recent, now>>
  BY DEF ExpireDone, Inv, TypeInv
<1>2. CallSeen' = CallSeen
  BY <1>1 DEF CallSeen, CallType
<1> QED BY <1>1, <1>2, SeenSame DEF Reference!vars, orderVars, bookVars, history

LEMMA RefCancelOpen ==
    ASSUME Inv, Inv', CancelOpen
    PROVE  Reference!CancelOpen
<1> DEFINE o == call.id
<1>1. /\ o \in index /\ Withdraw(o) /\ call' = NoCall /\ InBody("cancel")
      /\ UNCHANGED <<issued, order, sequence, recent, filled, now>>
  BY DEF CancelOpen, orderVars
<1>2. o \in AliveIn(entry) /\ CallSeen.id = o
  BY <1>1 DEF Inv, EntryInv, CallSeen
<1> HIDE DEF o
<1>3. Reference!Withdraw(o) /\ UNCHANGED <<SeqSeen, RestedAtSeen>>
  BY <1>1, <1>2, RefWithdraw
<1>4. o \in RestingSeen
  BY <1>2, Seen DEF SeenRight
<1>5. Reference!InBody("cancel")
  BY <1>1, RefInBody
<1> QED BY <1>1, <1>2, <1>3, <1>4, <1>5, SeenCalls DEF Reference!CancelOpen

\* The orders of a side are the same to both books, and the order that leads them is the oracle's front.
LEMMA SeenSides ==
    ASSUME Inv, NEW sd \in Sides
    PROVE  /\ Reference!OnSide(sd) = OfSide(AliveIn(entry), order, sd)
           /\ \A o : Leads(o, AliveIn(entry), SequenceIn(entry), order, sd) => Reference!IsFront(o)
<1>1. Reference!OnSide(sd) = OfSide(AliveIn(entry), order, sd)
  BY Seen DEF SeenRight, OfSide, Reference!OnSide
<1>2. ASSUME NEW o, Leads(o, AliveIn(entry), SequenceIn(entry), order, sd) PROVE Reference!IsFront(o)
  <2>1. o \in OfSide(AliveIn(entry), order, sd)
    BY <1>2 DEF Leads
  <2>2. o \in RestingSeen /\ o \in Ids /\ order[o].side = sd
    BY <2>1, Seen DEF SeenRight, OfSide, AliveIn
  <2>3. ASSUME NEW x \in OfSide(AliveIn(entry), order, sd), x # o PROVE Reference!Before(o, x)
    <3>1. x \in AliveIn(entry) /\ x \in Ids
      BY DEF OfSide, AliveIn
    <3>2. order[o].price \in Nat /\ order[x].price \in Nat
      BY <2>1, <3>1, Resting, PriceAssumption DEF OfSide, Order
    <3>3. SeqSeen[o] = SequenceIn(entry)[o] /\ SeqSeen[x] = SequenceIn(entry)[x]
      BY <2>2, <3>1 DEF SeqSeen, SequenceIn
    <3>4. \/ Key(sd, order[o].price) < Key(sd, order[x].price)
          \/ order[o].price = order[x].price /\ SeqSeen[o] < SeqSeen[x]
      BY <1>2, <2>3, <3>3 DEF Leads
    <3> QED BY <2>2, <3>2, <3>4 DEF Key, Reference!Before
  <2> QED BY <1>1, <2>2, <2>3 DEF Reference!IsFront
<1> QED BY <1>1, <1>2

LEMMA RefMatch ==
    ASSUME Inv, Inv', Match
    PROVE  \E o \in Ids : Reference!Match(o)
<1> DEFINE opp == Opposite(order[call.id].side)
<1>1. PICK o, q :
        /\ MatchesWith(o, q) /\ FillsEntry(o, q)
        /\ call' = [call EXCEPT !.rem = @ - q,
                                !.trades = Append(@, TradeOf(call.id, order[call.id], o, order[o], q))]
  BY MatchFinds DEF FillsEntry
<1>2. /\ InBody("submit")
      /\ UNCHANGED <<issued, order, sequence, recent, withdrawn, now>>
  BY DEF Match, orderVars
<1>3. /\ call.rem > 0 /\ o \in AliveIn(entry) /\ o \in Ids /\ o # call.id /\ call.op = "submit"
      /\ Leads(o, AliveIn(entry), SequenceIn(entry), order, opp)
      /\ Crosses(order[call.id], order[o])
      /\ q = Lesser(call.rem, entry[o].remaining)
  BY <1>1 DEF MatchesWith, AliveIn
<1>4. /\ \A x \in Ids : x # o => entry'[x] = entry[x]
      /\ entry'[o].remaining = entry[o].remaining - q
      /\ entry'[o].sequence = entry[o].sequence /\ entry'[o].restedAt = entry[o].restedAt
      /\ entry'[o].alive = (entry[o].remaining # q)
      /\ Fills(AliveIn(entry), RemainingIn(entry), o, q, AliveIn(entry'), RemainingIn(entry'))
      /\ filled' = [x \in Ids |-> IF x \in {o, call.id} THEN filled[x] + q ELSE filled[x]]
  BY <1>1, MatchEntries
<1>5. RestingSeen = AliveIn(entry) /\ RestingSeen' = AliveIn(entry')
  <2>1. SeenRight /\ SeenRight'
    BY Seen, PTL
  <2> QED BY <2>1 DEF SeenRight
<1>6. entry[o].alive /\ RemSeen[o] = entry[o].remaining /\ entry[o].remaining \in Nat
  BY <1>3, Resting DEF RemSeen
<1>7. RemSeen' = [RemSeen EXCEPT ![o] = @ - q]
  <2>1. RemSeen'[o] = entry[o].remaining - q
    <3>1. RemSeen'[o] = IF entry'[o].alive THEN entry'[o].remaining ELSE 0
      BY <1>3 DEF RemSeen
    <3>2. CASE entry[o].remaining = q
      BY <1>4, <1>6, <3>1, <3>2
    <3>3. CASE entry[o].remaining # q
      BY <1>4, <1>6, <3>1, <3>3
    <3> QED BY <3>2, <3>3
  <2>2. \A x \in Ids : x # o => RemSeen'[x] = RemSeen[x]
    BY <1>4 DEF RemSeen
  <2>3. RemSeen' = [x \in Ids |-> RemSeen'[x]] /\ RemSeen = [x \in Ids |-> RemSeen[x]]
    BY DEF RemSeen
  <2> QED BY <1>3, <1>6, <2>1, <2>2, <2>3
<1>8. RestingSeen' = IF RemSeen[o] = q THEN RestingSeen \ {o} ELSE RestingSeen
  <2>1. RemainingIn(entry)[o] = RemSeen[o]
    BY <1>3, <1>6 DEF RemainingIn
  <2> QED BY <1>4, <1>5, <2>1 DEF Fills
<1>9. UNCHANGED <<SeqSeen, RestedAtSeen>>
  BY <1>3, <1>4 DEF SeqSeen, RestedAtSeen
<1>10. /\ CallSeen.rem = call.rem /\ CallSeen.id = call.id /\ CallSeen.trades = call.trades
       /\ CallSeen.deadline = call.deadline
       /\ CallSeen' = [op |-> "submit", id |-> call.id, rem |-> call.rem - q,
                       trades |-> Append(call.trades, Reference!TradeOf(call.id, order[call.id], o, order[o], q)),
                       deadline |-> call.deadline]
  <2>1. call \in CallType
    BY DEF Inv, TypeInv
  <2>2. TradeOf(call.id, order[call.id], o, order[o], q)
          = Reference!TradeOf(call.id, order[call.id], o, order[o], q)
    BY DEF TradeOf, Reference!TradeOf
  <2> QED BY <1>1, <1>3, <2>1, <2>2 DEF CallType, CallSeen
<1>11. q = Reference!Lesser(CallSeen.rem, RemSeen[o])
  BY <1>3, <1>6, <1>10 DEF Lesser, Reference!Lesser
<1>12. Reference!InBody("submit")
  BY <1>2, RefInBody
<1>13. opp \in Sides /\ opp = Reference!Opposite(order[CallSeen.id].side)
  BY <1>10 DEF Opposite, Reference!Opposite, Sides
<1>14. Reference!IsFront(o) /\ o \in Reference!OnSide(opp)
  <2>1. o \in OfSide(AliveIn(entry), order, opp)
    BY <1>3 DEF Leads
  <2> HIDE DEF opp
  <2> QED BY <1>3, <1>13, <2>1, SeenSides
<1>15. o \in Reference!Matchable
  BY <1>3, <1>10, <1>13, <1>14 DEF Reference!Matchable, Crosses, Reference!Crosses
<1>16. /\ CallSeen' = [op |-> "submit", id |-> CallSeen.id, rem |-> CallSeen.rem - q,
                       trades |-> Append(CallSeen.trades,
                                         Reference!TradeOf(CallSeen.id, order[CallSeen.id], o, order[o], q)),
                       deadline |-> CallSeen.deadline]
       /\ filled' = [x \in Ids |-> IF x \in {o, CallSeen.id} THEN filled[x] + q ELSE filled[x]]
       /\ CallSeen.rem > 0
  BY <1>3, <1>4, <1>10
<1>17. Reference!Match(o)
  BY <1>2, <1>7, <1>8, <1>9, <1>11, <1>12, <1>14, <1>15, <1>16 DEF Reference!Match, Reference!Ids, Ids
<1> QED BY <1>3, <1>17

LEMMA RefSubmitRest ==
    ASSUME Inv, Inv', SubmitRest
    PROVE  Reference!SubmitRest
<1> DEFINE id == call.id
           sd == order[id].side
           opp == Opposite(sd)
           S == DropDeadFront(sides[opp], opp)
           o == Best(S, opp)
<1>1. /\ InBody("submit") /\ call.rem > 0
      /\ o # 0 => ~Crosses(order[id], order[o])
      /\ sequence' = sequence + 1 /\ recent' = Newest(recent \o call.trades) /\ call' = NoCall
      /\ UNCHANGED <<issued, order, filled, withdrawn, now>>
  BY DEF SubmitRest, orderVars, history
<1>2. RestsEntry(id, sd)
  BY RestSteps
<1>3. /\ id \in Ids /\ order[id] \in Order /\ sd \in Sides
      /\ \A x \in Ids : x # id => entry'[x] = entry[x]
      /\ entry'[id].remaining = call.rem /\ entry'[id].sequence = sequence + 1
      /\ entry'[id].restedAt = (IF MaxAge > 0 THEN now ELSE 0) /\ entry'[id].alive
      /\ AliveIn(entry') = AliveIn(entry) \cup {id}
  BY <1>2, RestEntries
<1>4. opp \in Sides /\ opp = Reference!Opposite(sd)
  BY DEF Opposite, Reference!Opposite, Sides
<1>5. /\ o = 0 => OfSide(AliveIn(entry), order, opp) = {}
      /\ o # 0 => Leads(o, AliveIn(entry), SequenceIn(entry), order, opp)
  <2> DEFINE s == opp
  <2>1. s \in Sides /\ o = Best(DropDeadFront(sides[s], s), s)
    BY <1>4
  <2> HIDE DEF o, s
  <2>2. /\ o = 0 => OfSide(AliveIn(entry), order, s) = {}
        /\ o # 0 => Leads(o, AliveIn(entry), SequenceIn(entry), order, s)
    BY <2>1, FrontKeeps
  <2> QED BY <2>2 DEF s
<1> HIDE DEF o
<1>6. CallSeen.rem = call.rem /\ CallSeen.id = id /\ CallSeen.trades = call.trades
  BY DEF CallSeen
<1>7. Reference!Matchable = {}
  <2> SUFFICES ASSUME NEW x \in Reference!Matchable PROVE FALSE
    OBVIOUS
  <2>1. x \in OfSide(AliveIn(entry), order, opp) /\ Crosses(order[id], order[x])
    <3>1. x \in Reference!OnSide(opp) /\ Crosses(order[id], order[x])
      BY <1>4, <1>6 DEF Reference!Matchable, Crosses, Reference!Crosses
    <3> HIDE DEF opp
    <3> QED BY <1>4, <3>1, SeenSides
  <2>2. o # 0 /\ ~Crosses(order[id], order[o]) /\ o \in OfSide(AliveIn(entry), order, opp)
    BY <1>1, <1>5, <2>1 DEF Leads
  <2>3. /\ order[id].price \in Nat /\ order[o].price \in Nat /\ order[x].price \in Nat
    BY <1>3, <2>1, <2>2, Resting, PriceAssumption DEF OfSide, Order
  <2>4. order[o].price = order[x].price \/ Key(opp, order[o].price) < Key(opp, order[x].price)
    BY <1>5, <2>1, <2>2 DEF Leads
  <2> QED BY <1>3, <2>1, <2>2, <2>3, <2>4 DEF Crosses, Key, Opposite, Sides
<1>8. RestingSeen' = RestingSeen \cup {id}
  <2>1. SeenRight /\ SeenRight'
    BY Seen, PTL
  <2> QED BY <1>3, <2>1 DEF SeenRight
<1>9. /\ RemSeen' = [RemSeen EXCEPT ![id] = call.rem]
      /\ SeqSeen' = [SeqSeen EXCEPT ![id] = sequence + 1]
      /\ RestedAtSeen' = [RestedAtSeen EXCEPT ![id] = IF MaxAge > 0 THEN now ELSE 0]
  BY <1>3 DEF RemSeen, SeqSeen, RestedAtSeen
<1>10. Reference!InBody("submit")
  BY <1>1, RefInBody
<1>11. recent' = Reference!Newest(recent \o CallSeen.trades)
  BY <1>1, <1>6 DEF Newest, Reference!Newest
<1>12. CallSeen' = Reference!NoCall
  BY <1>1, SeenCalls
<1> HIDE DEF id
<1> QED BY <1>1, <1>6, <1>7, <1>8, <1>9, <1>10, <1>11, <1>12 DEF Reference!SubmitRest

-----------------------------------------------------------------------------
LEMMA RefInit == Init => Reference!Init
<1> SUFFICES ASSUME Init PROVE Reference!Init
  OBVIOUS
<1>1. RestingSeen = {} /\ RemSeen = [o \in Ids |-> 0]
      /\ SeqSeen = [o \in Ids |-> 0] /\ RestedAtSeen = [o \in Ids |-> 0]
  BY DEF Init, NoEntry, RestingSeen, RemSeen, SeqSeen, RestedAtSeen
<1>2. CallSeen = Reference!NoCall
  BY DEF Init, NoCall, CallSeen, Reference!NoCall
<1> QED BY <1>1, <1>2 DEF Init, Reference!Init, Ids, Reference!Ids, NoOrder, Reference!NoOrder

LEMMA RefNext == Inv /\ Inv' /\ [Next]_vars => [Reference!Next]_(Reference!vars)
<1> SUFFICES ASSUME Inv, Inv', [Next]_vars PROVE Reference!Next \/ UNCHANGED Reference!vars
  OBVIOUS
<1> USE DEF Reference!Next
<1>0. Reference!Ids = Ids /\ Reference!Sides = Sides
  BY DEF Ids, Sides, Reference!Ids, Reference!Sides
<1>1. ASSUME NEW sd \in Sides, NEW p \in Prices, NEW q \in Quantities, SubmitBegin(sd, p, q)
      PROVE  Reference!Next
  BY <1>0, <1>1, RefSubmitBegin
<1>2. ASSUME NEW o \in Ids, CancelBegin(o) PROVE Reference!Next
  BY <1>0, <1>2, RefCancelBegin
<1>3. ASSUME NEW op \in {"read", "best_price"}, ReadBegin(op) PROVE Reference!Next
  BY <1>3, RefReadBegin
<1>4. ASSUME ExpireStep PROVE Reference!Next \/ UNCHANGED Reference!vars
  BY <1>0, <1>4, RefExpireStep
<1>5. ASSUME ExpireDone PROVE UNCHANGED Reference!vars
  BY <1>5, RefExpireDone
<1>6. ASSUME Match PROVE Reference!Next
  BY <1>0, <1>6, RefMatch
<1>7. ASSUME SubmitFilled PROVE Reference!Next
  BY <1>7, RefSubmitFilled
<1>8. ASSUME SubmitRest PROVE Reference!Next
  BY <1>8, RefSubmitRest
<1>9. ASSUME CancelOpen PROVE Reference!Next
  BY <1>9, RefCancelOpen
<1>10. ASSUME CancelClosed PROVE Reference!Next
  BY <1>10, RefCancelClosed
<1>11. ASSUME ReadEnd PROVE Reference!Next
  BY <1>11, RefReadEnd
<1>12. ASSUME NEW sd \in Sides, BestPriceEnd(sd) PROVE Reference!Next
  BY <1>12, RefBestPriceEnd
<1>13. ASSUME Tick PROVE Reference!Next
  BY <1>13, RefTick
<1>14. ASSUME UNCHANGED vars PROVE UNCHANGED Reference!vars
  <2>1. UNCHANGED <<entry, sides, call>> /\ UNCHANGED <<RestingSeen, RemSeen, SeqSeen, RestedAtSeen>>
    BY <1>14, SeenSame DEF vars, bookVars
  <2>2. CallSeen' = CallSeen
    BY <2>1 DEF CallSeen
  <2> QED BY <1>14, <2>1, <2>2 DEF vars, orderVars, bookVars, history, Reference!vars
<1> HIDE DEF Reference!Next
<1> QED BY <1>1, <1>2, <1>3, <1>4, <1>5, <1>6, <1>7, <1>8, <1>9, <1>10, <1>11, <1>12, <1>13, <1>14
        DEF Next, CallStep

\* The production book with its lazily deleted queues, running totals, index and
\* deque of arrivals does nothing the slow oracle could not do: every match takes
\* the order that is first by price and then by arrival, at its price, every
\* submit rests only what nothing opposite crosses, and every expiry and cancel
\* takes out exactly the order it names (reference_book.py is the oracle).
THEOREM BookImplementsReference == Spec => ImplementsReference
<1>1. Init => Reference!Init
  BY RefInit
<1>2. Inv /\ Inv' /\ [Next]_vars => [Reference!Next]_(Reference!vars)
  BY RefNext
<1> QED BY <1>1, <1>2, InvAlways, PTL DEF Spec, ImplementsReference, Reference!Spec

-----------------------------------------------------------------------------
(***************************************************************************)
(* What is proved of the reference book holds of the production book.      *)
(***************************************************************************)
Promises == INSTANCE PriceTimeBookProofs WITH
    resting <- RestingSeen, rem <- RemSeen, seq <- SeqSeen,
    restedAt <- RestedAtSeen, call <- CallSeen

\* Quantity is conserved order by order, the sides never cross, every execution
\* honours both limits, and priority leaves no tie.
PromisesKept ==
    /\ Reference!Conservation
    /\ Reference!Uncrossed
    /\ Reference!TradesWithinLimits
    /\ Reference!PriorityTotal

\* The two instances of the reference book are the same specification.
LEMMA SamePromises ==
    /\ Reference!Init => Promises!Init
    /\ [Reference!Next]_(Reference!vars) => [Promises!Next]_(Promises!vars)
    /\ Promises!Conservation /\ Promises!Uncrossed /\ Promises!TradesWithinLimits
         /\ Promises!PriorityTotal => PromisesKept
<1> USE DEF Reference!Init, Promises!Init, Reference!NoCall, Promises!NoCall, Reference!Ids, Promises!Ids,
          Reference!Sides, Promises!Sides, Reference!NoOrder, Promises!NoOrder, Reference!vars, Promises!vars,
          Reference!Next, Promises!Next, Reference!SubmitBegin, Promises!SubmitBegin, Reference!Begin, Promises!Begin,
          Reference!CancelBegin, Promises!CancelBegin, Reference!ReadBegin, Promises!ReadBegin, Reference!Expire, Promises!Expire,
          Reference!Expirable, Promises!Expirable, Reference!Withdraw, Promises!Withdraw, Reference!Match, Promises!Match,
          Reference!InBody, Promises!InBody, Reference!IsFront, Promises!IsFront, Reference!OnSide, Promises!OnSide,
          Reference!Before, Promises!Before, Reference!Matchable, Promises!Matchable, Reference!Opposite, Promises!Opposite,
          Reference!Crosses, Promises!Crosses, Reference!Lesser, Promises!Lesser, Reference!TradeOf, Promises!TradeOf,
          Reference!SubmitFilled, Promises!SubmitFilled, Reference!Newest, Promises!Newest, Reference!SubmitRest, Promises!SubmitRest,
          Reference!CancelOpen, Promises!CancelOpen, Reference!CancelClosed, Promises!CancelClosed, Reference!ReadEnd, Promises!ReadEnd,
          Reference!Tick, Promises!Tick
<1>1. Reference!Init => Promises!Init
  OBVIOUS
<1>2. [Reference!Next]_(Reference!vars) => [Promises!Next]_(Promises!vars)
  OBVIOUS
<1>3. Promises!Conservation => Reference!Conservation
  BY DEF Promises!Conservation, Reference!Conservation
<1>4. Promises!Uncrossed => Reference!Uncrossed
  BY DEF Promises!Uncrossed, Reference!Uncrossed
<1>5. Promises!TradesWithinLimits => Reference!TradesWithinLimits
  BY DEF Promises!TradesWithinLimits, Reference!TradesWithinLimits,
         Promises!WithinLimits, Reference!WithinLimits
<1>6. Promises!PriorityTotal => Reference!PriorityTotal
  BY DEF Promises!PriorityTotal, Reference!PriorityTotal
<1> QED BY <1>1, <1>2, <1>3, <1>4, <1>5, <1>6 DEF PromisesKept

\* submit, cancel, _expire and the readers of book.py, in any sequence and at any
\* clock, keep what the reference book promises: what was executed, withdrawn,
\* still rests and is yet to be placed adds up to each order's quantity, no resting
\* bid reaches a resting ask, and no execution is outside the limit of a side.
THEOREM BookKeepsPromises == Spec => []PromisesKept
<1>1. Reference!Spec => Promises!Spec
  BY SamePromises, PTL DEF Reference!Spec, Promises!Spec
<1>2. Promises!Spec => [](Promises!Conservation /\ Promises!Uncrossed
                           /\ Promises!TradesWithinLimits /\ Promises!PriorityTotal)
  BY PriceAssumption, QuantityAssumption, BoundAssumption, Promises!Conserved,
     Promises!NeverCrossed, Promises!TradesHonourLimits, Promises!PriorityIsTotal, PTL
<1> QED BY <1>1, <1>2, BookImplementsReference, SamePromises, PTL DEF ImplementsReference

-----------------------------------------------------------------------------
(* The library's sum of a function on a set, and the running sums of Adds *)

\* A non-empty family of subsets of a finite set has a smallest member: nothing
\* can be taken out of it.
LEMMA SmallestMember ==
    ASSUME NEW S, IsFiniteSet(S), NEW F \in SUBSET (SUBSET S), F # {}
    PROVE  \E T \in F : IsFiniteSet(T) /\ \A x \in T : T \ {x} \notin F
<1>1. F \subseteq FiniteSubsetsOf(S)
  BY FS_Subset DEF FiniteSubsetsOf
<1>2. IsWellFoundedOn(StrictSubsetOrdering(S), FiniteSubsetsOf(S))
  BY FS_StrictSubsetOrderingWellFounded
<1>3. PICK T \in F : \A U \in F : ~(<<U, T>> \in StrictSubsetOrdering(S))
  BY <1>1, <1>2, WFMin
<1>4. \A x \in T : T \ {x} \notin F
  BY <1>3 DEF StrictSubsetOrdering
<1> QED BY <1>1, <1>3, <1>4, FS_Subset

Picked(s) == CHOOSE x \in s : TRUE

\* How the library adds up: one element at a time, in an order nobody knows.
IsIter(g, f, S) ==
    g = [s \in SUBSET S |-> IF s = {} THEN 0 ELSE f[Picked(s)] + g[s \ {Picked(s)}]]

LEMMA SumExpand ==
    ASSUME NEW f, NEW S
    PROVE  SumFunctionOnSet(f, S) = (CHOOSE g : IsIter(g, f, S))[S]
BY DEF SumFunctionOnSet, FoldFunctionOnSet, MapThenFoldSet, IsIter, Picked

LEMMA IterStep ==
    ASSUME NEW S, NEW f, NEW g, IsIter(g, f, S), NEW U \in SUBSET S
    PROVE  IF U = {} THEN g[U] = 0
           ELSE Picked(U) \in U /\ g[U] = f[Picked(U)] + g[U \ {Picked(U)}]
BY DEF IsIter, Picked

LEMMA IterUnique ==
    ASSUME NEW S, IsFiniteSet(S), NEW T, NEW f, NEW g, IsIter(g, f, S), NEW h, IsIter(h, f, T),
           NEW U \in SUBSET S, U \subseteq T
    PROVE  g[U] = h[U]
<1> DEFINE F == {V \in SUBSET S : V \subseteq T /\ g[V] # h[V]}
<1> SUFFICES ASSUME F # {} PROVE FALSE
  OBVIOUS
<1>1. PICK V \in F : \A x \in V : V \ {x} \notin F
  <2> HIDE DEF F
  <2>1. F \in SUBSET (SUBSET S)
    BY DEF F
  <2> QED BY <2>1, SmallestMember
<1>2. V \in SUBSET S /\ V \in SUBSET T /\ g[V] # h[V]
  OBVIOUS
<1>3. V # {} /\ Picked(V) \in V
  BY <1>2, IterStep
<1>4. g[V \ {Picked(V)}] = h[V \ {Picked(V)}]
  BY <1>1, <1>2, <1>3
<1>5. g[V] = f[Picked(V)] + g[V \ {Picked(V)}]
  <2> HIDE DEF F
  <2> QED BY <1>2, <1>3, IterStep
<1>6. h[V] = f[Picked(V)] + h[V \ {Picked(V)}]
  <2> HIDE DEF F
  <2> QED BY <1>2, <1>3, IterStep
<1> HIDE DEF F
<1> QED BY <1>2, <1>4, <1>5, <1>6

LEMMA IterExists ==
    ASSUME NEW S, IsFiniteSet(S), NEW f
    PROVE  \E g : IsIter(g, f, S)
<1> DEFINE F == {V \in SUBSET S : ~\E g : IsIter(g, f, V)}
           it(V) == CHOOSE g : IsIter(g, f, V)
<1> SUFFICES ASSUME F # {} PROVE FALSE
  OBVIOUS
<1>1. PICK V \in F : IsFiniteSet(V) /\ \A x \in V : V \ {x} \notin F
  <2> HIDE DEF F
  <2>1. F \in SUBSET (SUBSET S)
    BY DEF F
  <2> QED BY <2>1, SmallestMember
<1>2. \A x \in V : IsIter(it(V \ {x}), f, V \ {x})
  BY <1>1
<1> DEFINE g == [s \in SUBSET V |->
                   IF s = {} THEN 0
                   ELSE IF s = V THEN f[Picked(V)] + it(V \ {Picked(V)})[V \ {Picked(V)}]
                   ELSE it(V \ {CHOOSE x \in V : x \notin s})[s]]
<1> HIDE DEF it
<1>3. ASSUME NEW s \in SUBSET V, s # V, NEW x \in V \ s
      PROVE  g[s] = it(V \ {x})[s]
  <2>1. CASE s = {}
    <3>1. it(V \ {x})[{}] = 0
      BY <1>2, IterStep
    <3> QED BY <2>1, <3>1
  <2>2. CASE s # {}
    <3> DEFINE y == CHOOSE z \in V : z \notin s
    <3>1. y \in V /\ y \notin s
      BY <1>3
    <3>2. IsFiniteSet(V \ {y})
      BY <1>1, FS_RemoveElement
    <3>3. it(V \ {y})[s] = it(V \ {x})[s]
      <4> HIDE DEF y, g
      <4> QED BY <1>2, <3>1, <3>2, <1>3, IterUnique
    <3> QED BY <2>2, <3>3, <1>3
  <2> QED BY <2>1, <2>2
<1>4. ASSUME NEW s \in SUBSET V, s # {}
      PROVE  g[s] = f[Picked(s)] + g[s \ {Picked(s)}]
  <2>1. Picked(s) \in s
    BY <1>4 DEF Picked
  <2>2. CASE s = V
    <3>1. g[V \ {Picked(V)}] = it(V \ {Picked(V)})[V \ {Picked(V)}]
      <4> HIDE DEF g
      <4> QED BY <1>3, <2>1, <2>2
    <3>2. V # {} /\ g[V] = f[Picked(V)] + it(V \ {Picked(V)})[V \ {Picked(V)}]
      BY <1>4, <2>2
    <3> QED BY <2>2, <3>1, <3>2
  <2>3. CASE s # V
    <3>1. PICK x \in V : x \notin s
      BY <2>3
    <3>2. g[s] = it(V \ {x})[s] /\ g[s \ {Picked(s)}] = it(V \ {x})[s \ {Picked(s)}]
      <4> HIDE DEF g
      <4>1. s \ {Picked(s)} \in SUBSET V /\ s \ {Picked(s)} # V /\ x \in V \ (s \ {Picked(s)})
        BY <3>1
      <4> QED BY <1>3, <2>3, <3>1, <4>1
    <3>3. it(V \ {x})[s] = f[Picked(s)] + it(V \ {x})[s \ {Picked(s)}]
      BY <1>2, <1>4, <3>1, IterStep
    <3> QED BY <3>2, <3>3
  <2> QED BY <2>2, <2>3
<1>5. g[{}] = 0
  OBVIOUS
<1>6. IsIter(g, f, V)
  <2>1. g = [s \in SUBSET V |-> g[s]]
    OBVIOUS
  <2> HIDE DEF g
  <2>2. \A s \in SUBSET V : g[s] = IF s = {} THEN 0 ELSE f[Picked(s)] + g[s \ {Picked(s)}]
    BY <1>4, <1>5
  <2> QED BY <2>1, <2>2 DEF IsIter
<1> QED BY <1>1, <1>6

\* The sum over the empty set, and one element taken out: whichever it is.
LEMMA SumEmpty ==
    ASSUME NEW f
    PROVE  SumFunctionOnSet(f, {}) = 0
<1> DEFINE g == CHOOSE g : IsIter(g, f, {})
<1>1. IsIter(g, f, {})
  BY IterExists, FS_EmptySet
<1> HIDE DEF g
<1>2. g[{}] = 0
  BY <1>1, IterStep
<1> QED BY <1>2, SumExpand DEF g

LEMMA SumPicked ==
    ASSUME NEW S, IsFiniteSet(S), S # {}, NEW f
    PROVE  /\ Picked(S) \in S
           /\ SumFunctionOnSet(f, S) = f[Picked(S)] + SumFunctionOnSet(f, S \ {Picked(S)})
<1> DEFINE x == Picked(S)
           T == S \ {x}
           g == CHOOSE g : IsIter(g, f, S)
           h == CHOOSE h : IsIter(h, f, T)
<1>0. x \in S /\ IsFiniteSet(T)
  BY FS_RemoveElement DEF Picked
<1>1. IsIter(g, f, S)
  BY IterExists
<1>2. IsIter(h, f, T)
  <2> HIDE DEF T
  <2> QED BY <1>0, IterExists
<1>3. SumFunctionOnSet(f, S) = g[S] /\ SumFunctionOnSet(f, T) = h[T]
  BY SumExpand
<1> HIDE DEF g, h
<1>4. g[S] = f[x] + g[T]
  BY <1>1, IterStep
<1>5. g[T] = h[T]
  <2> HIDE DEF T
  <2>1. T \in SUBSET S
    BY DEF T
  <2> QED BY <1>1, <1>2, <2>1, IterUnique
<1> QED BY <1>0, <1>3, <1>4, <1>5

LEMMA SumAdds ==
    ASSUME NEW R \in [Ids -> Nat], NEW T \in SUBSET Ids
    PROVE  Adds(Only(R, T), SumFunctionOnSet(R, T))
<1> DEFINE F == {U \in SUBSET T : ~Adds(Only(R, U), SumFunctionOnSet(R, U))}
<1> SUFFICES ASSUME F # {} PROVE FALSE
  OBVIOUS
<1>1. IsFiniteSet(T)
  BY IdsFinite, FS_Subset
<1>2. PICK U \in F : IsFiniteSet(U) /\ \A x \in U : U \ {x} \notin F
  <2> HIDE DEF F
  <2>1. F \in SUBSET (SUBSET T)
    BY DEF F
  <2> QED BY <1>1, <2>1, SmallestMember
<1>3. U \in SUBSET T /\ ~Adds(Only(R, U), SumFunctionOnSet(R, U))
  OBVIOUS
<1>4. U # {}
  <2>1. \A o \in Ids : Only(R, {})[o] = 0
    BY DEF Only
  <2>2. Adds(Only(R, {}), 0)
    BY <2>1, AddsZero
  <2> QED BY <1>3, <2>2, SumEmpty
<1> DEFINE x == Picked(U)
           V == U \ {x}
           s == SumFunctionOnSet(R, V)
<1>5. x \in U /\ SumFunctionOnSet(R, U) = R[x] + s
  BY <1>2, <1>4, SumPicked
<1>6. Adds(Only(R, V), s)
  BY <1>2, <1>3, <1>5
<1>7. x \in Ids /\ R[x] \in Nat /\ Only(R, V) \in [Ids -> Nat] /\ Only(R, V)[x] = 0
      /\ \A o \in Ids : Only(R, U)[o] = IF o = x THEN R[x] ELSE Only(R, V)[o]
  BY <1>3, <1>5 DEF Only
<1> HIDE DEF x, V, s, F
<1>8. s \in Nat
  BY <1>6, <1>7, AddsBounds
<1>9. Adds(Only(R, U), s - 0 + R[x])
  BY <1>6, <1>7, AddsPut
<1>10. s - 0 + R[x] = R[x] + s
  BY <1>7, <1>8
<1> QED BY <1>3, <1>5, <1>9, <1>10

-----------------------------------------------------------------------------
(* Queues strung together *)

\* The first n queues strung together.
FlatOf(g, qs, n) ==
    g = [i \in 1 .. n |-> IF i = 1 THEN qs[i] ELSE g[i - 1] \o qs[i]]

LEMMA FlatStep ==
    ASSUME NEW qs, NEW n \in Nat, NEW g, FlatOf(g, qs, n)
    PROVE  /\ n > 0 => g[1] = qs[1]
           /\ \A i \in 2 .. n : g[i] = g[i - 1] \o qs[i]
<1> DEFINE Of(i) == IF i = 1 THEN qs[i] ELSE g[i - 1] \o qs[i]
<1>1. g = [i \in 1 .. n |-> Of(i)]
  BY DEF FlatOf
<1>2. \A i \in 1 .. n : g[i] = Of(i)
  <2> HIDE DEF Of
  <2> QED BY <1>1
<1>3. (n > 0 => 1 \in 1 .. n) /\ \A i \in 2 .. n : i \in 1 .. n /\ i # 1
  OBVIOUS
<1>4. n > 0 => g[1] = qs[1]
  BY <1>2, <1>3
<1>5. ASSUME NEW i \in 2 .. n PROVE g[i] = g[i - 1] \o qs[i]
  <2>1. i \in 1 .. n /\ i # 1
    BY <1>3
  <2> QED BY <1>2, <2>1
<1> QED BY <1>4, <1>5

LEMMA FlatExists ==
    ASSUME NEW qs, NEW n \in Nat
    PROVE  \E g : FlatOf(g, qs, n)
<1> DEFINE T == {m \in Nat : ~\E g : FlatOf(g, qs, m)}
<1> SUFFICES ASSUME T # {} PROVE FALSE
  OBVIOUS
<1> DEFINE m == Min(T)
<1>1. m \in T /\ \A y \in T : m <= y
  <2>1. T \in SUBSET Nat
    OBVIOUS
  <2> HIDE DEF T
  <2> QED BY <2>1, LeastNat
<1> HIDE DEF m
<1>2. m # 0
  <2> DEFINE g == [i \in 1 .. 0 |-> qs[i]]
  <2>1. FlatOf(g, qs, 0)
    BY DEF FlatOf
  <2> HIDE DEF g
  <2> QED BY <1>1, <2>1
<1>3. m \in Nat /\ m - 1 \in Nat /\ m - 1 \notin T
  <2>1. m \in Nat
    BY <1>1
  <2> HIDE DEF T
  <2> QED BY <1>1, <1>2, <2>1
<1>4. PICK g : FlatOf(g, qs, m - 1)
  BY <1>3
<1> DEFINE h == [i \in 1 .. m |-> IF i < m THEN g[i] ELSE IF m = 1 THEN qs[m] ELSE g[m - 1] \o qs[m]]
<1>5. \A i \in 1 .. m : h[i] = IF i = 1 THEN qs[i] ELSE h[i - 1] \o qs[i]
  <2> SUFFICES ASSUME NEW i \in 1 .. m PROVE h[i] = IF i = 1 THEN qs[i] ELSE h[i - 1] \o qs[i]
    OBVIOUS
  <2>1. /\ m - 1 > 0 => g[1] = qs[1]
        /\ \A j \in 2 .. m - 1 : g[j] = g[j - 1] \o qs[j]
    BY <1>3, <1>4, FlatStep
  <2>2. h[i] = IF i < m THEN g[i] ELSE IF m = 1 THEN qs[m] ELSE g[m - 1] \o qs[m]
    OBVIOUS
  <2>3. i > 1 => h[i - 1] = g[i - 1]
    BY <1>3
  <2> HIDE DEF h
  <2>4. CASE i < m
    <3>1. h[i] = g[i]
      BY <2>2, <2>4
    <3>2. CASE i = 1
      BY <1>3, <2>1, <2>4, <3>1, <3>2
    <3>3. CASE i > 1
      <4>1. i \in 2 .. m - 1
        BY <1>3, <2>4, <3>3
      <4>2. i # 1
        BY <1>3, <3>3
      <4>3. g[i] = g[i - 1] \o qs[i] /\ h[i - 1] = g[i - 1]
        BY <2>1, <2>3, <3>3, <4>1
      <4> QED BY <3>1, <4>2, <4>3
    <3> QED BY <1>3, <3>2, <3>3
  <2>5. CASE i = m
    BY <1>3, <2>2, <2>3, <2>5
  <2> QED BY <1>3, <2>4, <2>5
<1>6. FlatOf(h, qs, m)
  <2>1. h = [i \in 1 .. m |-> h[i]]
    OBVIOUS
  <2> HIDE DEF h
  <2> QED BY <1>5, <2>1 DEF FlatOf
<1> HIDE DEF h
<1> QED BY <1>1, <1>6

\* r lists what is in the first n queues, and its order is that of the relation B.
Lists(r, qs, n) ==
    \A x : (\E k \in 1 .. Len(r) : r[k] = x) <=> \E i \in 1 .. n : \E a \in 1 .. Len(qs[i]) : qs[i][a] = x
InOrder(r, B) == \A k, l \in 1 .. Len(r) : k < l => <<r[k], r[l]>> \in B
\* Whatever is in an earlier queue comes before whatever is in a later one.
QueuesInOrder(qs, B) ==
    \A i, j \in 1 .. Len(qs) : i < j =>
        \A a \in 1 .. Len(qs[i]), b \in 1 .. Len(qs[j]) : <<qs[i][a], qs[j][b]>> \in B

LEMMA FlatNext ==
    ASSUME NEW qs \in Seq(Seq(Ids)), NEW B, QueuesInOrder(qs, B), \A i \in 1 .. Len(qs) : InOrder(qs[i], B),
           NEW n \in 2 .. Len(qs), NEW r \in Seq(Ids), Lists(r, qs, n - 1), InOrder(r, B),
           NEW r2, r2 = r \o qs[n]
    PROVE  r2 \in Seq(Ids) /\ Lists(r2, qs, n) /\ InOrder(r2, B)
<1> DEFINE q == qs[n]
<1>1. /\ n \in 1 .. Len(qs) /\ n \in Nat /\ n > 1 /\ Len(qs) \in Nat /\ q \in Seq(Ids) /\ q = qs[n]
      /\ Len(r) \in Nat /\ Len(q) \in Nat
      /\ \A i \in 1 .. n : i = n \/ i \in 1 .. n - 1
      /\ \A i \in 1 .. n - 1 : i \in 1 .. n /\ i \in 1 .. Len(qs) /\ i < n
  OBVIOUS
<1>2. InOrder(q, B)
  BY <1>1
<1> HIDE DEF q
<1>3. /\ r2 \in Seq(Ids) /\ Len(r2) = Len(r) + Len(q)
      /\ \A k \in 1 .. Len(r) : k \in 1 .. Len(r2) /\ r2[k] = r[k]
      /\ \A k \in 1 .. Len(q) : Len(r) + k \in 1 .. Len(r2) /\ r2[Len(r) + k] = q[k]
      /\ \A k \in 1 .. Len(r2) : k \in 1 .. Len(r) \/ (k - Len(r) \in 1 .. Len(q) /\ r2[k] = q[k - Len(r)])
  <2>1. r2 = r \o q
    BY <1>1
  <2>2. r2 \in Seq(Ids) /\ Len(r2) = Len(r) + Len(q)
        /\ \A k \in 1 .. Len(r) + Len(q) : r2[k] = IF k <= Len(r) THEN r[k] ELSE q[k - Len(r)]
    BY <1>1, <2>1, ConcatProperties
  <2> QED BY <1>1, <2>2
<1>4. ASSUME NEW x
      PROVE  (\E k \in 1 .. Len(r2) : r2[k] = x) <=> \E i \in 1 .. n : \E a \in 1 .. Len(qs[i]) : qs[i][a] = x
  <2>1. ASSUME NEW k \in 1 .. Len(r2), r2[k] = x
        PROVE  \E i \in 1 .. n : \E a \in 1 .. Len(qs[i]) : qs[i][a] = x
    <3>1. CASE k \in 1 .. Len(r)
      <4>1. r[k] = x
        BY <1>3, <2>1, <3>1
      <4>2. PICK i \in 1 .. n - 1 : \E a \in 1 .. Len(qs[i]) : qs[i][a] = x
        BY <3>1, <4>1 DEF Lists
      <4> QED BY <1>1, <4>2
    <3>2. CASE k - Len(r) \in 1 .. Len(q) /\ r2[k] = q[k - Len(r)]
      <4>1. n \in 1 .. n
        BY <1>1
      <4> QED BY <1>1, <2>1, <3>2, <4>1
    <3> QED BY <1>3, <3>1, <3>2
  <2>2. ASSUME NEW i \in 1 .. n, NEW a \in 1 .. Len(qs[i]), qs[i][a] = x
        PROVE  \E k \in 1 .. Len(r2) : r2[k] = x
    <3>1. CASE i = n
      BY <1>1, <1>3, <2>2, <3>1
    <3>2. CASE i \in 1 .. n - 1
      <4>1. PICK k \in 1 .. Len(r) : r[k] = x
        BY <2>2, <3>2 DEF Lists
      <4> QED BY <1>3, <4>1
    <3> QED BY <1>1, <3>1, <3>2
  <2> QED BY <2>1, <2>2
<1>5. ASSUME NEW k \in 1 .. Len(r2), NEW l \in 1 .. Len(r2), k < l
      PROVE  <<r2[k], r2[l]>> \in B
  <2>1. CASE l \in 1 .. Len(r)
    <3>1. k \in 1 .. Len(r)
      BY <1>1, <1>3, <1>5, <2>1
    <3> QED BY <1>3, <1>5, <2>1, <3>1 DEF InOrder
  <2>2. CASE k \in 1 .. Len(r) /\ l - Len(r) \in 1 .. Len(q) /\ r2[l] = q[l - Len(r)]
    <3>1. r2[k] = r[k]
      BY <1>3, <2>2
    <3>2. PICK i \in 1 .. n - 1 : \E a \in 1 .. Len(qs[i]) : qs[i][a] = r[k]
      BY <2>2 DEF Lists
    <3>3. PICK a \in 1 .. Len(qs[i]) : qs[i][a] = r[k]
      BY <3>2
    <3>4. <<qs[i][a], qs[n][l - Len(r)]>> \in B
      BY <1>1, <2>2 DEF QueuesInOrder
    <3> QED BY <1>1, <2>2, <3>1, <3>3, <3>4
  <2>3. CASE /\ k - Len(r) \in 1 .. Len(q) /\ r2[k] = q[k - Len(r)]
             /\ l - Len(r) \in 1 .. Len(q) /\ r2[l] = q[l - Len(r)]
    <3>1. k - Len(r) < l - Len(r)
      BY <1>1, <1>3, <1>5
    <3> QED BY <1>2, <2>3, <3>1 DEF InOrder
  <2> QED BY <1>3, <2>1, <2>2, <2>3
<1> QED BY <1>3, <1>4, <1>5 DEF Lists, InOrder

LEMMA FlatLists ==
    ASSUME NEW qs \in Seq(Seq(Ids)), NEW B, QueuesInOrder(qs, B), \A i \in 1 .. Len(qs) : InOrder(qs[i], B)
    PROVE  LET r == FlattenSeq(qs) IN r \in Seq(Ids) /\ Lists(r, qs, Len(qs)) /\ InOrder(r, B)
<1> DEFINE n == Len(qs)
           g == CHOOSE h : FlatOf(h, qs, n)
           r == FlattenSeq(qs)
<1>1. n \in Nat
  OBVIOUS
<1>2. CASE n = 0
  <2>1. r = qs /\ qs = << >>
    BY <1>2 DEF FlattenSeq
  <2>2. r \in Seq(Ids) /\ Len(r) = 0
    BY <2>1
  <2> HIDE DEF r
  <2> QED BY <1>2, <2>2 DEF Lists, InOrder, r
<1>3. CASE n # 0
  <2>1. r = g[n]
    BY <1>3 DEF FlattenSeq, FlatOf
  <2>2. FlatOf(g, qs, n)
    BY <1>1, FlatExists
  <2> HIDE DEF g, r
  <2>3. g[1] = qs[1] /\ \A i \in 2 .. n : g[i] = g[i - 1] \o qs[i]
    <3> HIDE DEF n
    <3>1. n > 0
      BY <1>1, <1>3
    <3>2. (n > 0 => g[1] = qs[1]) /\ \A i \in 2 .. n : g[i] = g[i - 1] \o qs[i]
      BY <1>1, <2>2, FlatStep
    <3> QED BY <3>1, <3>2
  <2> DEFINE T == {i \in 1 .. n : ~(g[i] \in Seq(Ids) /\ Lists(g[i], qs, i) /\ InOrder(g[i], B))}
  <2>4. T = {}
    <3> SUFFICES ASSUME T # {} PROVE FALSE
      OBVIOUS
    <3> DEFINE m == Min(T)
    <3>1. m \in T /\ \A y \in T : m <= y
      <4>1. T \in SUBSET Nat
        OBVIOUS
      <4> HIDE DEF T
      <4> QED BY <4>1, LeastNat
    <3> HIDE DEF m
    <3>2. m # 1
      <4>1. 1 \in 1 .. n /\ qs[1] \in Seq(Ids) /\ InOrder(qs[1], B)
        BY <1>1, <1>3
      <4>2. \A i : i \in 1 .. 1 <=> i = 1
        OBVIOUS
      <4>3. Lists(qs[1], qs, 1)
        BY <4>2 DEF Lists
      <4> QED BY <2>3, <3>1, <4>1, <4>3
    <3>3. m \in 2 .. n /\ m - 1 \notin T /\ m - 1 \in 1 .. n
      <4>1. m \in 1 .. n
        BY <3>1
      <4> HIDE DEF T
      <4> QED BY <1>1, <3>1, <3>2, <4>1
    <3>4. g[m - 1] \in Seq(Ids) /\ Lists(g[m - 1], qs, m - 1) /\ InOrder(g[m - 1], B)
      BY <3>3
    <3>5. g[m] = g[m - 1] \o qs[m]
      BY <2>3, <3>3
    <3>6. g[m] \in Seq(Ids) /\ Lists(g[m], qs, m) /\ InOrder(g[m], B)
      BY <3>3, <3>4, <3>5, FlatNext
    <3> QED BY <3>1, <3>6
  <2>5. n \in 1 .. n
    BY <1>1, <1>3
  <2> QED BY <2>1, <2>4, <2>5 DEF r
<1> QED BY <1>2, <1>3

-----------------------------------------------------------------------------
(* The open orders listed *)

Earlier == {c \in Ids \X Ids : Reference!Before(c[1], c[2])}

\* What a queue lists when only its live entries are read.
LEMMA QueueLists ==
    ASSUME Inv, NEW sd \in Sides, NEW p \in DOMAIN sides[sd].levels,
           NEW q, q = LiveOnly(sides[sd].levels[p].queue, 0)
    PROVE  /\ q \in Seq(Ids)
           /\ \A x : (\E i \in 1 .. Len(q) : q[i] = x) <=> x \in AtPrice(AliveIn(entry), order, sd, p)
           /\ \A i, j \in 1 .. Len(q) : i < j => entry[q[i]].sequence < entry[q[j]].sequence
<1> DEFINE L == sides[sd].levels[p]
           A == AliveIn(entry)
           R == RemainingIn(entry)
           Q == SequenceIn(entry)
<1>1. GoodLevel(L, sd, p, A, R, Q, order) /\ Values(A, R, Q)
  BY LevelNow
<1>2. \A x \in Ids : x \in A <=> Stays(x, 0)
  BY BoundAssumption DEF AliveIn, Stays, Ids
<1>3. \A x \in Ids : Q[x] = entry[x].sequence
  BY DEF SequenceIn
<1>4. q = LiveOnly(L.queue, 0)
  OBVIOUS
<1> HIDE DEF L, A, R, Q
<1>5. GoodLevel(Compact(L, 0), sd, p, A, R, Q, order)
  BY <1>1, <1>2, LevelCompacts
<1>6. L.queue \in Seq(Ids)
  BY <1>1, QueuedOnce
<1>7. q \in Seq(Ids) /\ Selects(q, L.queue, 0, Len(L.queue))
  BY <1>4, <1>6, LiveOnlySelects
<1>8. Compact(L, 0).queue = q
  <2>1. L = [queue |-> L.queue, quantity |-> L.quantity, dead |-> L.dead]
    BY <1>1, LevelFacts
  <2> QED BY <1>4, <2>1 DEF Compact
<1>9. /\ \A i \in 1 .. Len(q) : order[q[i]].side = sd /\ order[q[i]].price = p
      /\ \A i, j \in 1 .. Len(q) : i < j => Q[q[i]] < Q[q[j]]
      /\ \A o \in AtPrice(A, order, sd, p) : \E i \in 1 .. Len(q) : q[i] = o
  BY <1>5, <1>8 DEF GoodLevel
<1>10. \A i \in 1 .. Len(q) : q[i] \in Ids /\ q[i] \in A
  BY <1>2, <1>7 DEF Selects
<1>11. \A i \in 1 .. Len(q) : q[i] \in AtPrice(A, order, sd, p)
  BY <1>9, <1>10 DEF AtPrice, OfSide
<1>12. \A i, j \in 1 .. Len(q) : i < j => entry[q[i]].sequence < entry[q[j]].sequence
  BY <1>3, <1>9, <1>10
<1> QED BY <1>7, <1>9, <1>11, <1>12 DEF A

\* Two resting orders of a side, by the keys of their prices or their sequences.
LEMMA BeforeMeans ==
    ASSUME Inv, NEW sd \in Sides, NEW a \in OfSide(AliveIn(entry), order, sd), NEW b \in OfSide(AliveIn(entry), order, sd),
           \/ Key(sd, order[a].price) < Key(sd, order[b].price)
           \/ order[a].price = order[b].price /\ entry[a].sequence < entry[b].sequence
    PROVE  <<a, b>> \in Earlier
<1>1. a \in AliveIn(entry) /\ b \in AliveIn(entry) /\ order[a].side = sd
  BY DEF OfSide
<1>2. /\ a \in Ids /\ b \in Ids /\ order[a].price \in Nat /\ order[b].price \in Nat
  BY <1>1, Resting, PriceAssumption DEF Order
<1>3. SeqSeen[a] = entry[a].sequence /\ SeqSeen[b] = entry[b].sequence
  BY <1>2 DEF SeqSeen
<1>4. Reference!Before(a, b)
  BY <1>1, <1>2, <1>3 DEF Key, Reference!Before
<1> QED BY <1>2, <1>4 DEF Earlier

LEMMA InvList ==
    ASSUME Inv, NEW sd \in Sides
    PROVE  InPriority(LiveEntries(sides[sd], sd), Reference!OnSide(sd))
<1> DEFINE S == sides[sd]
           A == AliveIn(entry)
           Side == OfSide(A, order, sd)
           At(p) == AtPrice(A, order, sd, p)
           Price(i) == PriceOf(sd, S.keys[i])
           qs == [i \in DOMAIN S.keys |-> LiveOnly(LevelAt(S, sd, i).queue, 0)]
           r == LiveEntries(S, sd)
<1>1. /\ GoodSide(S, sd, A, RemainingIn(entry), SequenceIn(entry), order)
      /\ A \in SUBSET Ids
  BY DEF Inv, SidesInv, AliveIn
<1>2. /\ S.keys \in Seq(Int) /\ Ascending(S.keys)
      /\ DOMAIN S.levels = {PriceOf(sd, S.keys[i]) : i \in 1 .. Len(S.keys)}
      /\ \A o \in Side : order[o].price \in DOMAIN S.levels
  BY <1>1 DEF GoodSide, Shape
<1>3. ASSUME NEW i \in 1 .. Len(S.keys)
      PROVE  /\ Price(i) \in DOMAIN S.levels /\ qs[i] = LiveOnly(S.levels[Price(i)].queue, 0)
             /\ Key(sd, Price(i)) = S.keys[i] /\ S.keys[i] \in Int
  <2>1. S.keys[i] \in Int /\ i \in DOMAIN S.keys
    BY <1>2
  <2>2. Price(i) \in DOMAIN S.levels
    BY <1>2
  <2>3. qs[i] = LiveOnly(S.levels[Price(i)].queue, 0)
    BY <2>1 DEF LevelAt
  <2>4. Key(sd, Price(i)) = S.keys[i]
    BY <2>1, KeyInverse
  <2> QED BY <2>1, <2>2, <2>3, <2>4
<1>4. DOMAIN qs = 1 .. Len(S.keys) /\ Len(S.keys) \in Nat
  BY <1>2
<1>5. ASSUME NEW i \in 1 .. Len(S.keys)
      PROVE  /\ qs[i] \in Seq(Ids)
             /\ \A x : (\E a \in 1 .. Len(qs[i]) : qs[i][a] = x) <=> x \in At(Price(i))
             /\ \A a, b \in 1 .. Len(qs[i]) : a < b => entry[qs[i][a]].sequence < entry[qs[i][b]].sequence
  <2> DEFINE p == Price(i)
             q == qs[i]
  <2>1. p \in DOMAIN sides[sd].levels /\ q = LiveOnly(sides[sd].levels[p].queue, 0)
    BY <1>3
  <2> HIDE DEF p, q
  <2>2. /\ q \in Seq(Ids)
        /\ \A x : (\E a \in 1 .. Len(q) : q[a] = x) <=> x \in AtPrice(AliveIn(entry), order, sd, p)
        /\ \A a, b \in 1 .. Len(q) : a < b => entry[q[a]].sequence < entry[q[b]].sequence
    BY <2>1, QueueLists
  <2> QED BY <2>2 DEF p, q
<1>6. qs \in Seq(Seq(Ids)) /\ Len(qs) = Len(S.keys)
  <2> HIDE DEF qs, S
  <2>1. qs \in [1 .. Len(S.keys) -> Seq(Ids)]
    <3>1. qs = [i \in 1 .. Len(S.keys) |-> qs[i]]
      BY <1>2 DEF qs
    <3> QED BY <1>5, <3>1
  <2> QED BY <1>4, <2>1
<1>7. r = FlattenSeq(qs)
  BY DEF LiveEntries
<1>8. \A p, x : x \in At(p) <=> x \in Side /\ order[x].price = p
  BY DEF AtPrice
<1>9. Side \in SUBSET Ids
  BY <1>1 DEF OfSide
<1>10. Side = OfSide(AliveIn(entry), order, sd)
  OBVIOUS
<1> HIDE DEF qs, A, At, Price, Side, r
<1>11. ASSUME NEW i \in 1 .. Len(S.keys) PROVE InOrder(qs[i], Earlier)
  <2> SUFFICES ASSUME NEW a \in 1 .. Len(qs[i]), NEW b \in 1 .. Len(qs[i]), a < b
               PROVE  <<qs[i][a], qs[i][b]>> \in Earlier
    BY DEF InOrder
  <2> DEFINE x == qs[i][a]
             y == qs[i][b]
  <2>1. x \in At(Price(i)) /\ y \in At(Price(i)) /\ entry[x].sequence < entry[y].sequence
    BY <1>5
  <2> HIDE DEF x, y
  <2>2. x \in Side /\ y \in Side /\ order[x].price = order[y].price
    BY <1>8, <2>1
  <2>3. <<x, y>> \in Earlier
    BY <1>10, <2>1, <2>2, BeforeMeans
  <2> QED BY <2>3 DEF x, y
<1>12. QueuesInOrder(qs, Earlier)
  <2> SUFFICES ASSUME NEW i \in 1 .. Len(S.keys), NEW j \in 1 .. Len(S.keys), i < j,
                      NEW a \in 1 .. Len(qs[i]), NEW b \in 1 .. Len(qs[j])
               PROVE  <<qs[i][a], qs[j][b]>> \in Earlier
    BY <1>6 DEF QueuesInOrder
  <2> DEFINE x == qs[i][a]
             y == qs[j][b]
  <2>1. x \in At(Price(i)) /\ y \in At(Price(j))
    BY <1>5
  <2> HIDE DEF x, y
  <2>2. x \in Side /\ y \in Side /\ order[x].price = Price(i) /\ order[y].price = Price(j)
    BY <1>8, <2>1
  <2>3. Key(sd, Price(i)) < Key(sd, Price(j))
    BY <1>2, <1>3 DEF Ascending
  <2>4. <<x, y>> \in Earlier
    BY <1>10, <2>2, <2>3, BeforeMeans
  <2> QED BY <2>4 DEF x, y
<1>13. r \in Seq(Ids) /\ Lists(r, qs, Len(qs)) /\ InOrder(r, Earlier)
  <2> HIDE DEF S
  <2>1. \A i \in 1 .. Len(qs) : InOrder(qs[i], Earlier)
    BY <1>6, <1>11
  <2> QED BY <1>6, <1>7, <1>12, <2>1, FlatLists
<1>14. ToSet(r) = Side
  <2>1. ToSet(r) = {r[k] : k \in 1 .. Len(r)}
    BY <1>13 DEF ToSet
  <2>2. ASSUME NEW x \in Side PROVE \E k \in 1 .. Len(r) : r[k] = x
    <3>1. PICK i \in 1 .. Len(S.keys) : order[x].price = Price(i)
      BY <1>2 DEF Price
    <3>2. x \in At(Price(i))
      BY <1>8, <3>1
    <3>3. \E a \in 1 .. Len(qs[i]) : qs[i][a] = x
      BY <1>5, <3>2
    <3> QED BY <1>6, <1>13, <3>3 DEF Lists
  <2>3. ASSUME NEW k \in 1 .. Len(r) PROVE r[k] \in Side
    <3> DEFINE x == r[k]
    <3>1. \E l \in 1 .. Len(r) : r[l] = x
      OBVIOUS
    <3> HIDE DEF x
    <3>2. PICK i \in 1 .. Len(S.keys) : \E a \in 1 .. Len(qs[i]) : qs[i][a] = x
      BY <1>6, <1>13, <3>1 DEF Lists
    <3>3. x \in At(Price(i))
      BY <1>5, <3>2
    <3> QED BY <1>8, <3>3 DEF x
  <2> QED BY <2>1, <2>2, <2>3
<1>15. ASSUME NEW k \in DOMAIN r, NEW l \in DOMAIN r, k < l PROVE Reference!Before(r[k], r[l])
  <2>1. k \in 1 .. Len(r) /\ l \in 1 .. Len(r)
    BY <1>13
  <2>2. <<r[k], r[l]>> \in Earlier
    BY <1>13, <1>15, <2>1 DEF InOrder
  <2> DEFINE x == r[k]
             y == r[l]
  <2> HIDE DEF x, y
  <2>3. <<x, y>> \in Earlier
    BY <2>2 DEF x, y
  <2>4. Reference!Before(x, y)
    BY <2>3 DEF Earlier
  <2> QED BY <2>4 DEF x, y
<1>16. Reference!OnSide(sd) = Side
  BY SeenSides DEF Side, A
<1> QED BY <1>14, <1>15, <1>16 DEF InPriority, r

-----------------------------------------------------------------------------
(***************************************************************************)
(* What is answered: the open orders listed, the totals, the depth.  No    *)
(* level stays without quantity, so that every price shown has an order.   *)
(***************************************************************************)
LevelsFull == \A sd \in Sides : \A p \in DOMAIN sides[sd].levels : sides[sd].levels[p].quantity # 0

LEMMA FullInit == Init => LevelsFull
BY DEF Init, LevelsFull, EmptySide

LEMMA FullKept ==
    ASSUME Inv, LevelsFull, NothingEmptied
    PROVE  LevelsFull'
<1> SUFFICES ASSUME NEW sd \in Sides, NEW p \in DOMAIN sides'[sd].levels, sides'[sd].levels[p].quantity = 0
             PROVE  FALSE
  BY DEF LevelsFull
<1>1. p \in DOMAIN sides[sd].levels /\ sides[sd].levels[p].quantity = 0
  BY DEF NothingEmptied, NoneEmptied
<1> QED BY <1>1 DEF LevelsFull

LEMMA FrontEmpties == Inv /\ (\E sd \in Sides : BestPriceEnd(sd)) => NothingEmptied
<1> SUFFICES ASSUME Inv, NEW sd \in Sides, BestPriceEnd(sd) PROVE NothingEmptied
  OBVIOUS
<1> DEFINE S == DropDeadFront(sides[sd], sd)
<1>1. sides' = [sides EXCEPT ![sd] = S]
  BY DEF BestPriceEnd
<1>2. NoneEmptied(S, sides[sd])
  BY FrontKeeps
<1> HIDE DEF S
<1>3. DOMAIN sides = Sides
  BY DEF Inv, TypeInv
<1>4. ASSUME NEW s \in Sides PROVE NoneEmptied(sides'[s], sides[s])
  <2>1. sides'[s] = IF s = sd THEN S ELSE sides[s]
    BY <1>1, <1>3
  <2>2. NoneEmptied(sides[s], sides[s])
    BY DEF NoneEmptied
  <2> QED BY <1>2, <2>1, <2>2
<1> QED BY <1>4 DEF NothingEmptied

LEMMA FullNext == Inv /\ LevelsFull /\ [Next]_vars => LevelsFull'
<1> SUFFICES ASSUME Inv, LevelsFull, [Next]_vars PROVE LevelsFull'
  OBVIOUS
<1>1. CASE UNCHANGED sides
  BY <1>1 DEF LevelsFull
<1>2. CASE NothingEmptied
  BY <1>2, FullKept
<1>3. CASE ExpireStep
  <2>1. CASE entry[Head(arrivals)].alive
    <3> DEFINE o == Head(arrivals)
    <3>1. Withdraw(o) /\ UNCHANGED order
      BY <1>3, <2>1 DEF ExpireStep, orderVars
    <3>2. arrivals \in Seq(Ids) /\ arrivals # << >>
      BY <1>3 DEF Inv, TypeInv, ExpireStep, ExpireStops
    <3>3. o \in Ids
      BY <3>2
    <3>4. o \in AliveIn(entry)
      BY <2>1, <3>3 DEF AliveIn
    <3> HIDE DEF o
    <3> QED BY <3>1, <3>4, WithdrawKeeps, <1>2
  <2> QED BY <1>1, <1>3, <2>1 DEF ExpireStep
<1>4. CASE CancelOpen
  <2>1. Withdraw(call.id) /\ UNCHANGED order /\ call.id \in index
    BY <1>4 DEF CancelOpen, orderVars
  <2>2. call.id \in AliveIn(entry)
    BY <2>1 DEF Inv, EntryInv
  <2> QED BY <2>1, <2>2, WithdrawKeeps, <1>2
<1>5. CASE SubmitRest
  BY <1>5, <1>2, RestSteps, RestSides
<1>6. CASE Match
  BY <1>6, <1>2, MatchInv
<1>7. CASE \E sd \in Sides : BestPriceEnd(sd)
  BY <1>7, <1>2, FrontEmpties
<1>8. CASE ExpireDone \/ SubmitFilled \/ CancelClosed \/ ReadEnd \/ Tick
  BY <1>1, <1>8 DEF ExpireDone, SubmitFilled, CancelClosed, ReadEnd, Tick, bookVars
<1>9. CASE \E sd \in Sides, p \in Prices, q \in Quantities : SubmitBegin(sd, p, q)
  BY <1>1, <1>9 DEF SubmitBegin, bookVars
<1>10. CASE (\E o \in Ids : CancelBegin(o)) \/ (\E op \in {"read", "best_price"} : ReadBegin(op))
  BY <1>1, <1>10 DEF CancelBegin, ReadBegin, bookVars
<1>11. CASE UNCHANGED vars
  BY <1>1, <1>11 DEF vars, bookVars
<1> QED BY <1>3, <1>4, <1>5, <1>6, <1>7, <1>8, <1>9, <1>10, <1>11 DEF Next, CallStep

\* A sum kept by the book is the oracle's sum.
LEMMA SumsSeen ==
    ASSUME Inv, NEW T \in SUBSET AliveIn(entry), NEW n, Adds(Only(RemainingIn(entry), T), n)
    PROVE  n = ReferenceQuantity(T)
<1>1. /\ entry \in [Ids -> Entry] /\ AliveIn(entry) \in SUBSET Ids
      /\ \A o \in Ids : o \in AliveIn(entry) <=> entry[o].alive
  BY DEF Inv, TypeInv, AliveIn
<1>2. RemSeen \in [Ids -> Nat]
  BY <1>1, EntryValues DEF RemSeen
<1>3. Only(RemSeen, T) = Only(RemainingIn(entry), T)
  BY <1>1 DEF Only, RemSeen, RemainingIn
<1>4. Adds(Only(RemSeen, T), SumFunctionOnSet(RemSeen, T))
  BY <1>1, <1>2, SumAdds
<1>5. Only(RemSeen, T) \in [Ids -> Nat]
  BY <1>2, OnlyTyped
<1> QED BY <1>3, <1>4, <1>5, AddsOnce DEF ReferenceQuantity

LEMMA InvAnswers == Inv /\ LevelsFull => AnswersLikeReference
<1> SUFFICES ASSUME Inv, LevelsFull, NEW sd \in Sides
             PROVE  LET open == Reference!OnSide(sd)
                        shown == BookLevels(sides[sd], sd)
                    IN  /\ InPriority(LiveEntries(sides[sd], sd), open)
                        /\ sides[sd].total = ReferenceQuantity(open)
                        /\ {shown[i].price : i \in DOMAIN shown} = {order[o].price : o \in open}
                        /\ \A i \in DOMAIN shown :
                             /\ shown[i].quantity
                                  = ReferenceQuantity({o \in open : order[o].price = shown[i].price})
                             /\ i > 1 => Key(sd, shown[i - 1].price) < Key(sd, shown[i].price)
  BY DEF AnswersLikeReference
<1> DEFINE A == AliveIn(entry)
           R == RemainingIn(entry)
           Q == SequenceIn(entry)
           S == sides[sd]
           open == Reference!OnSide(sd)
           At(p) == {o \in open : order[o].price = p}
           shown == BookLevels(S, sd)
<1>1. GoodSide(S, sd, A, R, Q, order) /\ Values(A, R, Q)
  BY EntryValues DEF Inv, SidesInv, TypeInv
<1>2. \A p \in DOMAIN S.levels : S.levels[p].quantity # 0
  BY DEF LevelsFull
<1>3. open = OfSide(A, order, sd) /\ \A p : At(p) = AtPrice(A, order, sd, p)
  BY SeenSides DEF AtPrice
<1>4. open \in SUBSET A /\ \A p : At(p) \in SUBSET A
  BY <1>3 DEF OfSide
<1>5. \A T \in SUBSET A : \A n : Adds(Only(R, T), n) => n = ReferenceQuantity(T)
  BY SumsSeen
<1>6. InPriority(LiveEntries(sides[sd], sd), open)
  BY InvList
<1> HIDE DEF A, R, Q, S, open, At
<1>7. /\ S.keys \in Seq(Int) /\ Ascending(S.keys)
      /\ DOMAIN S.levels = {PriceOf(sd, S.keys[i]) : i \in 1 .. Len(S.keys)}
  BY <1>1 DEF GoodSide, Shape
<1>8. /\ DOMAIN shown = 1 .. Len(S.keys)
      /\ \A i \in 1 .. Len(S.keys) : /\ shown[i].price = PriceOf(sd, S.keys[i])
                                     /\ shown[i].quantity = S.levels[PriceOf(sd, S.keys[i])].quantity
                                     /\ PriceOf(sd, S.keys[i]) \in DOMAIN S.levels
  BY <1>7 DEF BookLevels, LevelAt
<1> HIDE DEF shown
<1>9. S.total = ReferenceQuantity(open)
  <2>1. Adds(Only(R, open), S.total)
    BY <1>1, <1>3 DEF GoodSide
  <2> QED BY <1>4, <1>5, <2>1
<1>10. ASSUME NEW o \in open PROVE \E i \in DOMAIN shown : shown[i].price = order[o].price
  <2>1. order[o].price \in DOMAIN S.levels
    BY <1>1, <1>3 DEF GoodSide
  <2>2. PICK i \in 1 .. Len(S.keys) : order[o].price = PriceOf(sd, S.keys[i])
    BY <1>7, <2>1
  <2> QED BY <1>8, <2>2
<1>11. ASSUME NEW i \in DOMAIN shown
       PROVE  /\ shown[i].quantity = ReferenceQuantity(At(shown[i].price))
              /\ \E o \in open : order[o].price = shown[i].price
  <2> DEFINE p == PriceOf(sd, S.keys[i])
             n == S.levels[p].quantity
  <2>1. p \in DOMAIN S.levels /\ shown[i].price = p /\ shown[i].quantity = n
    BY <1>8
  <2> HIDE DEF p
  <2>2. GoodLevel(S.levels[p], sd, p, A, R, Q, order)
    BY <1>1, <2>1 DEF GoodSide
  <2>3. Adds(Only(R, At(p)), n)
    BY <1>3, <2>2 DEF GoodLevel
  <2>4. At(p) # {}
    <3> SUFFICES ASSUME At(p) = {} PROVE FALSE
      OBVIOUS
    <3> DEFINE w == Only(R, At(p))
    <3>1. w \in [Ids -> Nat] /\ Adds(w, n)
      BY <1>1, <2>3, OnlyTyped DEF Values
    <3>2. \A o \in Ids : w[o] = 0
      BY DEF Only
    <3> HIDE DEF w
    <3>3. n = 0
      BY <3>1, <3>2, AddsZero, AddsOnce
    <3> QED BY <1>2, <2>1, <3>3
  <2>5. \E o \in open : order[o].price = p
    BY <2>4 DEF At
  <2> HIDE DEF n
  <2> QED BY <1>4, <1>5, <2>1, <2>3, <2>5
<1>12. ASSUME NEW i \in DOMAIN shown, i > 1
       PROVE  Key(sd, shown[i - 1].price) < Key(sd, shown[i].price)
  <2>1. /\ i \in 1 .. Len(S.keys) /\ i - 1 \in 1 .. Len(S.keys) /\ i - 1 < i
        /\ shown[i].price = PriceOf(sd, S.keys[i]) /\ shown[i - 1].price = PriceOf(sd, S.keys[i - 1])
    <3>1. i \in 1 .. Len(S.keys) /\ Len(S.keys) \in Nat
      BY <1>7, <1>8
    <3> DEFINE m == Len(S.keys)
    <3>2. m \in Nat /\ i \in 1 .. m /\ i > 1
      BY <1>12, <3>1
    <3> HIDE DEF m
    <3>3. i - 1 \in 1 .. m /\ i - 1 < i
      BY <3>2
    <3> USE DEF m
    <3>4. /\ shown[i].price = PriceOf(sd, S.keys[i])
          /\ shown[i - 1].price = PriceOf(sd, S.keys[i - 1])
      BY <1>8, <3>1, <3>3
    <3> QED BY <3>1, <3>3, <3>4
  <2>2. S.keys[i - 1] \in Int /\ S.keys[i] \in Int /\ S.keys[i - 1] < S.keys[i]
    BY <1>7, <2>1 DEF Ascending
  <2> QED BY <2>1, <2>2, KeyInverse
<1>13. {shown[i].price : i \in DOMAIN shown} = {order[o].price : o \in open}
  BY <1>10, <1>11
<1> QED BY <1>6, <1>9, <1>11, <1>12, <1>13 DEF S, shown, open, At

\* open_orders, snapshot and total_quantity of book.py, for every history, answer
\* what the list-based oracle would: the same orders in priority order, the prices
\* at which an order rests strictly best first, with the quantity that rests there,
\* and the total over the side.  Nothing canceled, expired or filled is counted and
\* no empty level is shown, although the queues still hold dead entries.
THEOREM AnswersMatch == Spec => []AnswersLikeReference
<1>1. Init => Inv /\ LevelsFull
  BY InvInit, FullInit
<1>2. Inv /\ LevelsFull /\ [Next]_vars => (Inv /\ LevelsFull)'
  BY InvNext, FullNext
<1>3. Inv /\ LevelsFull => AnswersLikeReference
  BY InvAnswers
<1> QED BY <1>1, <1>2, <1>3, PTL DEF Spec
=============================================================================
