------------------------ MODULE PriceTimeBookProofs ------------------------
(***************************************************************************)
(* What PriceTimeBook promises, for any number of orders, any prices and   *)
(* quantities, any maximum age and any clock.                              *)
(***************************************************************************)
EXTENDS PriceTimeBook, TLAPS

\* The bounded tape is made of the executions it was given, newest ones kept.
LEMMA NewestIsSuffix ==
    ASSUME NEW T, NEW tape \in Seq(T)
    PROVE  /\ Newest(tape) \in Seq(T)
           /\ \A i \in 1 .. Len(Newest(tape)) :
                \E j \in 1 .. Len(tape) : Newest(tape)[i] = tape[j]
<1> USE BoundAssumption
<1>1. CASE Len(tape) <= RecentTradeCapacity
  BY <1>1 DEF Newest
<1>2. CASE Len(tape) > RecentTradeCapacity
  <2> DEFINE m == Len(tape) - RecentTradeCapacity + 1
  <2>1. /\ Newest(tape) = SubSeq(tape, m, Len(tape))
        /\ m \in 1 .. Len(tape)
        /\ Len(tape) \in Nat
    BY <1>2 DEF Newest
  <2>2. /\ SubSeq(tape, m, Len(tape)) \in Seq(T)
        /\ Len(SubSeq(tape, m, Len(tape))) = RecentTradeCapacity
        /\ \A i \in 1 .. RecentTradeCapacity :
             SubSeq(tape, m, Len(tape))[i] = tape[m + i - 1]
    BY <2>1
  <2>3. \A i \in 1 .. RecentTradeCapacity : m + i - 1 \in 1 .. Len(tape)
    BY <2>1
  <2> QED BY <2>1, <2>2, <2>3
<1> QED BY <1>1, <1>2

\* An order that rests has been issued, and carries a real order.
LEMMA RestingIssued ==
    ASSUME TypeOK, NEW o \in resting
    PROVE  o \in Ids /\ o \in 1 .. issued /\ order[o] \in Order
BY BoundAssumption DEF TypeOK, Ids

\* The order a submit is placing was issued.
LEMMA SubmitterIssued ==
    ASSUME TypeOK, call.op = "submit"
    PROVE  call.id \in 1 .. issued /\ call.id \in Ids /\ order[call.id] \in Order
<1>1. call.id \in 0 .. MaxOrders /\ call.id <= issued /\ call.id # 0
  BY DEF TypeOK, Call
<1>2. issued \in 0 .. MaxOrders /\ \A o \in 1 .. issued : order[o] \in Order
  BY DEF TypeOK
<1>3. call.id \in 1 .. issued /\ call.id \in Ids
  BY <1>1, <1>2, BoundAssumption DEF Ids
<1> QED BY <1>2, <1>3

\* The state of a free lock is a well-formed one.
LEMMA NoCallTyped == NoCall \in Call /\ NoCall.id = 0 /\ NoCall.op = "none"
BY BoundAssumption DEF NoCall, Call

\* The tape after a submit is a sequence of trades.
LEMMA TapeTyped ==
    ASSUME TypeOK
    PROVE  Newest(recent \o call.trades) \in Seq(Trade)
<1>1. recent \in Seq(Trade) /\ call.trades \in Seq(Trade)
  BY DEF TypeOK, Call
<1>2. recent \o call.trades \in Seq(Trade)
  BY <1>1
<1> QED BY <1>2, NewestIsSuffix

\* A cancel or an expiry keeps the types of what it changes.
LEMMA WithdrawTyped ==
    ASSUME TypeOK, NEW o \in Ids, Withdraw(o)
    PROVE  /\ resting' \subseteq 1 .. issued
           /\ rem' \in [Ids -> Nat]
           /\ withdrawn' \in [Ids -> Nat]
<1>1. resting \subseteq 1 .. issued /\ rem \in [Ids -> Nat] /\ withdrawn \in [Ids -> Nat]
  BY DEF TypeOK
<1>2. resting' \subseteq 1 .. issued
  BY <1>1 DEF Withdraw
<1>3. rem' \in [Ids -> Nat]
  BY <1>1 DEF Withdraw
<1>4. withdrawn' \in [Ids -> Nat]
  BY <1>1 DEF Withdraw
<1> QED BY <1>2, <1>3, <1>4

-----------------------------------------------------------------------------
\* The empty book is well typed.
LEMMA TypeInit == Init => TypeOK
BY BoundAssumption, NoCallTyped DEF Init, TypeOK, Ids

\* Every step of every call keeps the types.
LEMMA TypeNext == TypeOK /\ [Next]_vars => TypeOK'
<1> SUFFICES ASSUME TypeOK, [Next]_vars PROVE TypeOK'
  OBVIOUS
<1> USE BoundAssumption
<1>1. ASSUME NEW sd \in Sides, NEW p \in Prices, NEW q \in Quantities,
             SubmitBegin(sd, p, q)
      PROVE  TypeOK'
  <2>1. issued + 1 \in Ids /\ issued' = issued + 1 /\ issued' \in 0 .. MaxOrders
    BY <1>1 DEF SubmitBegin, TypeOK, Ids
  <2>2. [side |-> sd, price |-> p, quantity |-> q] \in Order
    BY DEF Order
  <2>3. /\ order' \in [Ids -> Order \cup {NoOrder}]
        /\ \A o \in 1 .. issued' : order'[o] \in Order
    <3> DEFINE new == [side |-> sd, price |-> p, quantity |-> q]
    <3>1. order' = [order EXCEPT ![issued + 1] = new]
      BY <1>1 DEF SubmitBegin
    <3>2. new \in Order
      BY <2>2
    <3> HIDE DEF new
    <3>3. order' \in [Ids -> Order \cup {NoOrder}]
      BY <2>1, <3>1, <3>2 DEF TypeOK
    <3>4. \A o \in 1 .. issued : o \in Ids /\ o # issued + 1 /\ order[o] \in Order
      BY DEF TypeOK, Ids
    <3>5. \A o \in 1 .. issued' : o \in 1 .. issued \/ o = issued + 1
      BY <2>1 DEF TypeOK
    <3>6. \A o \in 1 .. issued : order'[o] = order[o]
      BY <3>1, <3>4 DEF TypeOK
    <3>7. order'[issued + 1] = new
      BY <2>1, <3>1 DEF TypeOK
    <3> QED BY <3>2, <3>3, <3>4, <3>5, <3>6, <3>7
  <2>4. call' \in Call /\ call'.id = issued + 1
    BY <1>1, <2>1, QuantityAssumption DEF SubmitBegin, Begin, TypeOK, Call, Ids
  <2>5. 1 .. issued \subseteq 1 .. issued'
    BY <2>1 DEF TypeOK
  <2> QED BY <1>1, <2>1, <2>3, <2>4, <2>5 DEF SubmitBegin, TypeOK
<1>2. ASSUME NEW o \in Ids, CancelBegin(o) PROVE TypeOK'
  <2>1. call' \in Call /\ call'.id = o /\ o # 0
    BY <1>2 DEF CancelBegin, Begin, TypeOK, Call, Ids
  <2> QED BY <1>2, <2>1 DEF CancelBegin, TypeOK
<1>3. CASE ReadBegin
  <2>1. call' \in Call /\ call'.id = 0 /\ call'.op = "read"
    BY <1>3 DEF ReadBegin, Begin, TypeOK, Call
  <2> QED BY <1>3, <2>1 DEF ReadBegin, TypeOK
<1>4. ASSUME NEW o \in Ids, Expire(o) PROVE TypeOK'
  BY <1>4, WithdrawTyped DEF Expire, TypeOK
<1>5. ASSUME NEW o \in Ids, Match(o) PROVE TypeOK'
  <2> DEFINE q == Lesser(call.rem, rem[o])
             t == TradeOf(call.id, order[call.id], o, order[o], q)
  <2>1. o \in resting /\ call.id \in Ids /\ call.id # 0
    <3>1. o \in resting /\ call.op = "submit"
      BY <1>5 DEF Match, InBody, IsFront
    <3>2. call.id # 0
      BY <3>1 DEF TypeOK
    <3> QED BY <3>1, <3>2, SubmitterIssued
  <2>2. order[o] \in Order
    BY <2>1, RestingIssued
  <2>3. q \in Nat /\ call.rem - q \in Nat /\ rem[o] - q \in Nat
    <3>1. call.rem \in Nat /\ rem[o] \in Nat
      BY DEF TypeOK, Call
    <3> QED BY <3>1 DEF Lesser
  <2>4. t \in Trade
    BY <2>1, <2>2, <2>3 DEF TradeOf, Trade, Order
  <2>5. /\ call' = [op |-> "submit", id |-> call.id, rem |-> call.rem - q,
                    trades |-> Append(call.trades, t), deadline |-> call.deadline]
        /\ rem' = [rem EXCEPT ![o] = @ - q]
        /\ resting' = IF rem[o] = q THEN resting \ {o} ELSE resting
        /\ filled' = [x \in Ids |-> IF x \in {o, call.id} THEN filled[x] + q ELSE filled[x]]
        /\ UNCHANGED <<issued, order, seq, restedAt, sequence, recent, withdrawn, now>>
    BY <1>5 DEF Match
  <2> HIDE DEF q, t
  <2>6. call' \in Call /\ call'.id = call.id
    BY <2>3, <2>4, <2>5 DEF TypeOK, Call
  <2>7. rem' \in [Ids -> Nat] /\ filled' \in [Ids -> Nat] /\ resting' \subseteq 1 .. issued
    <3>1. rem \in [Ids -> Nat] /\ filled \in [Ids -> Nat] /\ resting \subseteq 1 .. issued
      BY DEF TypeOK
    <3>2. rem' \in [Ids -> Nat]
      BY <2>3, <2>5, <3>1
    <3>3. filled' \in [Ids -> Nat]
      BY <2>3, <2>5, <3>1
    <3>4. resting' \subseteq 1 .. issued
      BY <2>5, <3>1
    <3> QED BY <3>2, <3>3, <3>4
  <2> QED BY <2>1, <2>5, <2>6, <2>7 DEF TypeOK
<1>6. CASE SubmitFilled
  <2>1. recent' \in Seq(Trade)
    BY <1>6, TapeTyped DEF SubmitFilled
  <2> QED BY <1>6, <2>1, NoCallTyped DEF SubmitFilled, TypeOK
<1>7. CASE SubmitRest
  <2>1. recent' \in Seq(Trade)
    BY <1>7, TapeTyped DEF SubmitRest
  <2>2. call.id \in 1 .. issued /\ call.id \in Ids /\ call.rem \in Nat
    <3>1. call.op = "submit" /\ call.rem \in Nat
      BY <1>7 DEF SubmitRest, InBody, TypeOK, Call
    <3> QED BY <3>1, SubmitterIssued
  <2>3. /\ resting' \subseteq 1 .. issued
        /\ rem' \in [Ids -> Nat]
        /\ seq' \in [Ids -> Nat]
        /\ restedAt' \in [Ids -> Nat]
        /\ sequence' \in Nat
    <3>1. /\ resting \subseteq 1 .. issued
          /\ rem \in [Ids -> Nat] /\ seq \in [Ids -> Nat] /\ restedAt \in [Ids -> Nat]
          /\ sequence \in Nat /\ now \in Nat
      BY DEF TypeOK
    <3>2. /\ resting' = resting \cup {call.id}
          /\ rem' = [rem EXCEPT ![call.id] = call.rem]
          /\ seq' = [seq EXCEPT ![call.id] = sequence + 1]
          /\ restedAt' = [restedAt EXCEPT ![call.id] = IF MaxAge > 0 THEN now ELSE 0]
          /\ sequence' = sequence + 1
      BY <1>7 DEF SubmitRest
    <3>3. resting' \subseteq 1 .. issued
      BY <2>2, <3>1, <3>2
    <3>4. rem' \in [Ids -> Nat]
      BY <2>2, <3>1, <3>2
    <3>5. sequence + 1 \in Nat
      BY <3>1
    <3>7. seq' \in [Ids -> Nat] /\ sequence' \in Nat
      BY <3>1, <3>2, <3>5
    <3>6. restedAt' \in [Ids -> Nat]
      BY <3>1, <3>2
    <3> QED BY <3>3, <3>4, <3>6, <3>7
  <2>4. call' \in Call /\ call'.id = 0 /\ call'.op = "none"
    BY <1>7, NoCallTyped DEF SubmitRest
  <2>5. UNCHANGED <<issued, order, filled, withdrawn, now>>
    BY <1>7 DEF SubmitRest
  <2> QED BY <2>1, <2>3, <2>4, <2>5 DEF TypeOK
<1>8. CASE CancelOpen
  <2>1. call.id \in Ids /\ Withdraw(call.id)
    BY <1>8, RestingIssued DEF CancelOpen
  <2>2. call' \in Call /\ call'.id = 0 /\ call'.op = "none"
    BY <1>8, NoCallTyped DEF CancelOpen
  <2>3. UNCHANGED <<issued, order, seq, restedAt, sequence, recent, filled, now>>
    BY <1>8 DEF CancelOpen
  <2>4. resting' \subseteq 1 .. issued /\ rem' \in [Ids -> Nat] /\ withdrawn' \in [Ids -> Nat]
    BY <2>1, WithdrawTyped
  <2> QED BY <2>2, <2>3, <2>4 DEF TypeOK
<1>9. CASE CancelClosed
  BY <1>9, NoCallTyped DEF CancelClosed, TypeOK
<1>10. CASE ReadEnd
  BY <1>10, NoCallTyped DEF ReadEnd, TypeOK
<1>11. CASE Tick
  BY <1>11 DEF Tick, TypeOK
<1>12. CASE UNCHANGED vars
  BY <1>12 DEF vars, TypeOK
<1> QED
  BY <1>1, <1>2, <1>3, <1>4, <1>5, <1>6, <1>7, <1>8, <1>9, <1>10, <1>11, <1>12 DEF Next

\* The book's state keeps its types in every call: in particular a fill never
\* takes more than an order has left.
THEOREM TypeCorrect == Spec => []TypeOK
BY TypeInit, TypeNext, PTL DEF Spec

-----------------------------------------------------------------------------
(***************************************************************************)
(* Conservation.  It is inductive only together with what ties `resting`   *)
(* to `rem`, and with the order being submitted not resting yet: a match   *)
(* then never meets the submitter itself, and resting overwrites a zero.   *)
(***************************************************************************)
RestingHasQuantity == \A o \in Ids : o \in resting <=> rem[o] > 0
UnissuedIsEmpty == \A o \in Ids : o > issued => filled[o] = 0 /\ withdrawn[o] = 0
SubmitterIsOut == call.op = "submit" => call.id \notin resting

Accounts == RestingHasQuantity /\ UnissuedIsEmpty /\ SubmitterIsOut /\ Conservation

\* The empty book is balanced.
LEMMA AccountsInit == Init => Accounts
BY BoundAssumption DEF Init, Accounts, RestingHasQuantity, UnissuedIsEmpty,
   SubmitterIsOut, Conservation, NoCall, Ids

\* Cancels and expiries move what an order has left to `withdrawn`.
LEMMA WithdrawAccounts ==
    ASSUME TypeOK, Accounts, NEW o \in Ids, Withdraw(o), o \in resting,
           UNCHANGED <<issued, order, filled>>,
           \/ UNCHANGED call
           \/ call.op # "submit" /\ call'.op # "submit"
    PROVE  Accounts'
<1>1. /\ rem \in [Ids -> Nat] /\ withdrawn \in [Ids -> Nat] /\ filled \in [Ids -> Nat]
      /\ resting \subseteq 1 .. issued /\ issued \in 0 .. MaxOrders /\ call.rem \in Nat
  BY DEF TypeOK, Call
<1>2. /\ resting' = resting \ {o}
      /\ rem' = [rem EXCEPT ![o] = 0]
      /\ withdrawn' = [withdrawn EXCEPT ![o] = @ + rem[o]]
  BY DEF Withdraw
<1>3. RestingHasQuantity'
  BY <1>1, <1>2 DEF RestingHasQuantity, Accounts
<1>4. UnissuedIsEmpty'
  BY <1>1, <1>2 DEF UnissuedIsEmpty, Accounts
<1>5. SubmitterIsOut'
  BY <1>2 DEF SubmitterIsOut, Accounts
<1>6. Conservation'
  <2> SUFFICES ASSUME NEW x \in 1 .. issued
               PROVE  order[x].quantity = filled[x] + withdrawn'[x] + rem'[x]
                        + (IF call'.op = "submit" /\ call'.id = x THEN call'.rem ELSE 0)
    BY DEF Conservation
  <2>1. x \in Ids /\ rem[x] \in Nat /\ withdrawn[x] \in Nat /\ filled[x] \in Nat
    BY <1>1, BoundAssumption DEF Ids
  <2>2. withdrawn'[x] + rem'[x] = withdrawn[x] + rem[x]
    BY <1>1, <1>2, <2>1
  <2>3. order[x].quantity = filled[x] + withdrawn[x] + rem[x]
                        + (IF call.op = "submit" /\ call.id = x THEN call.rem ELSE 0)
    BY DEF Accounts, Conservation
  <2>4. withdrawn'[x] \in Nat /\ rem'[x] \in Nat
    BY <1>1, <1>2, <2>1
  <2> QED BY <1>1, <2>1, <2>2, <2>3, <2>4
<1> QED BY <1>3, <1>4, <1>5, <1>6 DEF Accounts

\* Steps that only begin or end a call, with no quantity in flight.
LEMMA QuietAccounts ==
    ASSUME TypeOK, Accounts, UNCHANGED <<issued, order, resting, rem, filled, withdrawn>>,
           \/ UNCHANGED call
           \/ /\ call'.op # "submit"
              /\ call.op = "submit" => call.rem = 0
    PROVE  Accounts'
<1>1. RestingHasQuantity' /\ UnissuedIsEmpty' /\ SubmitterIsOut'
  BY DEF Accounts, RestingHasQuantity, UnissuedIsEmpty, SubmitterIsOut
<1>2. Conservation'
  BY DEF Accounts, Conservation
<1> QED BY <1>1, <1>2 DEF Accounts

\* A match moves the same quantity from the maker's remainder and from the
\* submit's to the executed quantities of both.
LEMMA MatchAccounts ==
    ASSUME TypeOK, Accounts, NEW o \in Ids, Match(o)
    PROVE  Accounts'
<1> DEFINE q == Lesser(call.rem, rem[o])
<1>1. /\ rem \in [Ids -> Nat] /\ withdrawn \in [Ids -> Nat] /\ filled \in [Ids -> Nat]
      /\ resting \subseteq 1 .. issued /\ issued \in 0 .. MaxOrders
      /\ call.rem \in Nat /\ call.id \in Ids /\ call.id <= issued
  <2>1. call.op = "submit"
    BY DEF Match, InBody
  <2> QED BY <2>1, SubmitterIssued DEF TypeOK, Call
<1>2. /\ call'.op = "submit" /\ call'.id = call.id /\ call'.rem = call.rem - q
      /\ rem' = [rem EXCEPT ![o] = @ - q]
      /\ resting' = IF rem[o] = q THEN resting \ {o} ELSE resting
      /\ filled' = [x \in Ids |-> IF x \in {o, call.id} THEN filled[x] + q ELSE filled[x]]
      /\ UNCHANGED <<issued, order, withdrawn>>
  BY DEF Match
<1>3. call.op = "submit" /\ o \in resting /\ call.id \notin resting /\ o # call.id
  BY DEF Match, InBody, IsFront, Accounts, SubmitterIsOut
<1>4. q \in Nat /\ q <= call.rem /\ q <= rem[o]
  BY <1>1 DEF Lesser
<1> HIDE DEF q
<1>5. RestingHasQuantity'
  <2> SUFFICES ASSUME NEW x \in Ids PROVE x \in resting' <=> rem'[x] > 0
    BY DEF RestingHasQuantity
  <2>1. x \in resting <=> rem[x] > 0
    BY DEF Accounts, RestingHasQuantity
  <2>2. CASE x = o
    BY <1>1, <1>2, <1>3, <1>4, <2>1, <2>2
  <2>3. CASE x # o
    BY <1>1, <1>2, <2>1, <2>3
  <2> QED BY <2>2, <2>3
<1>6. UnissuedIsEmpty'
  BY <1>1, <1>2, <1>3 DEF UnissuedIsEmpty, Accounts
<1>7. SubmitterIsOut'
  BY <1>2, <1>3 DEF SubmitterIsOut
<1>8. Conservation'
  <2> SUFFICES ASSUME NEW x \in 1 .. issued
               PROVE  order[x].quantity = filled'[x] + withdrawn[x] + rem'[x]
                        + (IF call.id = x THEN call.rem - q ELSE 0)
    BY <1>2 DEF Conservation
  <2>1. x \in Ids /\ rem[x] \in Nat /\ withdrawn[x] \in Nat /\ filled[x] \in Nat
    <3>1. x \in Ids
      BY <1>1, BoundAssumption DEF Ids
    <3> QED BY <1>1, <3>1
  <2>2. order[x].quantity = filled[x] + withdrawn[x] + rem[x]
                              + (IF call.id = x THEN call.rem ELSE 0)
    BY <1>3 DEF Accounts, Conservation
  <2>3. CASE x = o
    <3>1. filled'[x] = filled[x] + q /\ rem'[x] = rem[x] - q /\ call.id # x
      BY <1>1, <1>2, <1>3, <2>1, <2>3
    <3> QED BY <1>4, <2>1, <2>2, <3>1
  <2>4. CASE x = call.id
    <3>1. filled'[x] = filled[x] + q /\ rem'[x] = rem[x]
      BY <1>1, <1>2, <1>3, <2>1, <2>4
    <3> QED BY <1>1, <1>4, <2>1, <2>2, <2>4, <3>1
  <2>5. CASE x # o /\ x # call.id
    <3>1. filled'[x] = filled[x] /\ rem'[x] = rem[x]
      BY <1>1, <1>2, <2>1, <2>5
    <3> QED BY <2>2, <2>5, <3>1
  <2> QED BY <2>3, <2>4, <2>5
<1> QED BY <1>5, <1>6, <1>7, <1>8 DEF Accounts

\* Resting places exactly what the submit had left.
LEMMA RestAccounts ==
    ASSUME TypeOK, Accounts, SubmitRest
    PROVE  Accounts'
<1>1. /\ rem \in [Ids -> Nat] /\ withdrawn \in [Ids -> Nat] /\ filled \in [Ids -> Nat]
      /\ call.rem \in Nat /\ call.id \in Ids /\ call.id <= issued
      /\ issued \in 0 .. MaxOrders
  BY DEF TypeOK, Call, SubmitRest, InBody, Ids
<1>2. /\ call.op = "submit" /\ call.rem > 0 /\ call'.op = "none"
      /\ resting' = resting \cup {call.id}
      /\ rem' = [rem EXCEPT ![call.id] = call.rem]
      /\ UNCHANGED <<issued, order, filled, withdrawn>>
  BY NoCallTyped DEF SubmitRest, InBody
<1>3. rem[call.id] = 0
  BY <1>1, <1>2 DEF Accounts, SubmitterIsOut, RestingHasQuantity
<1>4. RestingHasQuantity'
  BY <1>1, <1>2 DEF Accounts, RestingHasQuantity
<1>5. UnissuedIsEmpty' /\ SubmitterIsOut'
  BY <1>2 DEF Accounts, UnissuedIsEmpty, SubmitterIsOut
<1>6. Conservation'
  <2> SUFFICES ASSUME NEW x \in 1 .. issued
               PROVE  order[x].quantity = filled[x] + withdrawn[x] + rem'[x] + 0
    BY <1>2 DEF Conservation
  <2>1. x \in Ids /\ rem[x] \in Nat /\ withdrawn[x] \in Nat /\ filled[x] \in Nat
    BY <1>1, BoundAssumption DEF Ids
  <2>2. order[x].quantity = filled[x] + withdrawn[x] + rem[x]
                              + (IF call.id = x THEN call.rem ELSE 0)
    BY <1>2 DEF Accounts, Conservation
  <2>3. rem'[x] = IF x = call.id THEN call.rem ELSE rem[x]
    BY <1>1, <1>2, <2>1
  <2> QED BY <1>1, <1>3, <2>1, <2>2, <2>3
<1> QED BY <1>4, <1>5, <1>6 DEF Accounts

\* A new order starts with all of its quantity in flight.
LEMMA SubmitBeginAccounts ==
    ASSUME TypeOK, Accounts,
           NEW sd \in Sides, NEW p \in Prices, NEW k \in Quantities, SubmitBegin(sd, p, k)
    PROVE  Accounts'
<1>1. /\ rem \in [Ids -> Nat] /\ withdrawn \in [Ids -> Nat] /\ filled \in [Ids -> Nat]
      /\ order \in [Ids -> Order \cup {NoOrder}]
      /\ issued \in 0 .. MaxOrders /\ resting \subseteq 1 .. issued /\ k \in Nat
  BY QuantityAssumption DEF TypeOK
<1>2. /\ issued' = issued + 1 /\ issued + 1 \in Ids
      /\ order' = [order EXCEPT ![issued + 1] = [side |-> sd, price |-> p, quantity |-> k]]
      /\ call.op = "none"
      /\ call'.op = "submit" /\ call'.id = issued + 1 /\ call'.rem = k
      /\ UNCHANGED <<resting, rem, filled, withdrawn>>
  BY <1>1, BoundAssumption DEF SubmitBegin, Begin, Ids
<1>3. issued + 1 \notin resting
  BY <1>1
<1>4. RestingHasQuantity' /\ SubmitterIsOut'
  BY <1>2, <1>3 DEF Accounts, RestingHasQuantity, SubmitterIsOut
<1>5. UnissuedIsEmpty'
  BY <1>1, <1>2 DEF Accounts, UnissuedIsEmpty, Ids
<1>6. rem[issued + 1] = 0 /\ filled[issued + 1] = 0 /\ withdrawn[issued + 1] = 0
  BY <1>1, <1>2, <1>3 DEF Accounts, RestingHasQuantity, UnissuedIsEmpty
<1>7. Conservation'
  <2> SUFFICES ASSUME NEW x \in 1 .. issued + 1
               PROVE  order'[x].quantity = filled[x] + withdrawn[x] + rem[x]
                        + (IF issued + 1 = x THEN k ELSE 0)
    BY <1>2 DEF Conservation
  <2>1. CASE x = issued + 1
    BY <1>1, <1>2, <1>6, <2>1
  <2>2. CASE x # issued + 1
    <3>1. x \in 1 .. issued /\ x \in Ids
      BY <1>1, <2>2, BoundAssumption DEF Ids
    <3>2. order'[x] = order[x]
      BY <1>1, <1>2, <2>2, <3>1
    <3>3. order[x].quantity = filled[x] + withdrawn[x] + rem[x] + 0
      BY <1>2, <3>1 DEF Accounts, Conservation
    <3> QED BY <2>2, <3>2, <3>3
  <2> QED BY <2>1, <2>2
<1> QED BY <1>4, <1>5, <1>7 DEF Accounts

\* Every step of every call keeps the accounts.
LEMMA AccountsNext == TypeOK /\ Accounts /\ [Next]_vars => Accounts'
<1> SUFFICES ASSUME TypeOK, Accounts, [Next]_vars PROVE Accounts'
  OBVIOUS
<1>1. ASSUME NEW o \in Ids, CancelBegin(o) PROVE Accounts'
  BY <1>1, QuietAccounts DEF CancelBegin, Begin
<1>2. CASE ReadBegin
  BY <1>2, QuietAccounts DEF ReadBegin, Begin
<1>3. ASSUME NEW o \in Ids, Expire(o) PROVE Accounts'
  BY <1>3, WithdrawAccounts DEF Expire, Expirable
<1>4. CASE SubmitFilled
  BY <1>4, QuietAccounts, NoCallTyped DEF SubmitFilled, InBody
<1>5. CASE CancelOpen
  <2>1. call.id \in Ids
    BY <1>5, RestingIssued DEF CancelOpen
  <2> QED BY <1>5, <2>1, WithdrawAccounts, NoCallTyped DEF CancelOpen, InBody
<1>6. CASE CancelClosed
  BY <1>6, QuietAccounts, NoCallTyped DEF CancelClosed, InBody
<1>7. CASE ReadEnd
  BY <1>7, QuietAccounts, NoCallTyped DEF ReadEnd, InBody
<1>8. CASE Tick
  BY <1>8, QuietAccounts DEF Tick
<1>9. CASE UNCHANGED vars
  BY <1>9, QuietAccounts DEF vars
<1> QED
  BY <1>1, <1>2, <1>3, <1>4, <1>5, <1>6, <1>7, <1>8, <1>9,
     MatchAccounts, RestAccounts, SubmitBeginAccounts DEF Next

\* Order by order, no quantity is lost or made: executed, canceled or expired,
\* resting and in flight add up to what was submitted.
THEOREM Conserved == Spec => []Conservation
<1>1. Init => TypeOK /\ Accounts
  BY TypeInit, AccountsInit
<1>2. TypeOK /\ Accounts /\ [Next]_vars => (TypeOK /\ Accounts)'
  BY TypeNext, AccountsNext
<1>3. TypeOK /\ Accounts => Conservation
  BY DEF Accounts
<1> QED BY <1>1, <1>2, <1>3, PTL DEF Spec

-----------------------------------------------------------------------------
(***************************************************************************)
(* An issued order never changes.  Used by every invariant about prices.   *)
(***************************************************************************)
\* An Order is immutable once it was constructed.
LEMMA OrdersKept ==
    ASSUME TypeOK, [Next]_vars
    PROVE  /\ issued <= issued'
           /\ \A x \in 1 .. issued : order'[x] = order[x]
<1>1. ASSUME NEW sd \in Sides, NEW p \in Prices, NEW k \in Quantities, SubmitBegin(sd, p, k)
      PROVE  issued <= issued' /\ \A x \in 1 .. issued : order'[x] = order[x]
  <2>1. issued \in Nat /\ \A x \in 1 .. issued : x \in Ids /\ x # issued + 1
    BY BoundAssumption DEF TypeOK, Ids
  <2>2. order \in [Ids -> Order \cup {NoOrder}]
    BY DEF TypeOK
  <2>3. issued' = issued + 1
        /\ order' = [order EXCEPT ![issued + 1] = [side |-> sd, price |-> p, quantity |-> k]]
    BY <1>1 DEF SubmitBegin
  <2> QED BY <2>1, <2>2, <2>3
<1>2. CASE UNCHANGED <<issued, order>>
  BY <1>2, BoundAssumption DEF TypeOK
<1>3. (\E sd \in Sides, p \in Prices, k \in Quantities : SubmitBegin(sd, p, k))
      \/ UNCHANGED <<issued, order>>
  BY DEF Next, vars, CancelBegin, ReadBegin, Expire, Match, SubmitFilled, SubmitRest,
     CancelOpen, CancelClosed, ReadEnd, Tick
<1> QED BY <1>1, <1>2, <1>3

\* The only step that makes an order rest is SubmitRest.
LEMMA RestingGrows ==
    ASSUME TypeOK, [Next]_vars
    PROVE  SubmitRest \/ (resting' \subseteq resting /\ UNCHANGED <<seq, sequence>>)
BY DEF Next, vars, SubmitBegin, CancelBegin, ReadBegin, Expire, Withdraw, Match,
   SubmitFilled, CancelOpen, CancelClosed, ReadEnd, Tick

-----------------------------------------------------------------------------
(***************************************************************************)
(* Priority: sequence numbers are distinct among resting orders.           *)
(***************************************************************************)
SequenceDistinct ==
    /\ \A a \in resting : seq[a] <= sequence
    /\ \A a, b \in resting : a # b => seq[a] # seq[b]

\* A new resting order takes a sequence number above all others.
LEMMA SequenceNext ==
    ASSUME TypeOK, SequenceDistinct, [Next]_vars
    PROVE  SequenceDistinct'
<1>1. seq \in [Ids -> Nat] /\ sequence \in Nat /\ resting \subseteq Ids
  BY BoundAssumption DEF TypeOK, Ids
<1>2. CASE resting' \subseteq resting /\ UNCHANGED <<seq, sequence>>
  BY <1>2 DEF SequenceDistinct
<1>3. CASE SubmitRest
  <2>1. /\ resting' = resting \cup {call.id}
        /\ seq' = [seq EXCEPT ![call.id] = sequence + 1]
        /\ sequence' = sequence + 1
    BY <1>3 DEF SubmitRest
  <2>2. call.id \in Ids
    BY <1>3 DEF SubmitRest, InBody, TypeOK, Call, Ids
  <2>3. \A a \in resting' : seq'[a] = IF a = call.id THEN sequence + 1 ELSE seq[a]
    BY <1>1, <2>1, <2>2
  <2>4. \A a \in resting' : a # call.id => a \in resting /\ seq[a] <= sequence /\ seq[a] \in Nat
    BY <1>1, <2>1 DEF SequenceDistinct
  <2>5. \A a \in resting' : seq'[a] <= sequence'
    BY <1>1, <2>1, <2>3, <2>4
  <2>6. \A a, b \in resting' : a # b => seq'[a] # seq'[b]
    BY <1>1, <2>1, <2>3, <2>4 DEF SequenceDistinct
  <2> QED BY <2>5, <2>6 DEF SequenceDistinct
<1> QED BY <1>2, <1>3, RestingGrows

\* Distinct sequence numbers make the priority total and strict.
LEMMA SequenceGivesPriority ==
    ASSUME TypeOK, SequenceDistinct
    PROVE  PriorityTotal
<1> SUFFICES ASSUME NEW a \in resting, NEW b \in resting,
                    order[a].side = order[b].side, a # b
             PROVE  (Before(a, b) /\ ~Before(b, a)) \/ (Before(b, a) /\ ~Before(a, b))
  BY DEF PriorityTotal
<1>1. /\ order[a].price \in Nat /\ order[b].price \in Nat
  BY RestingIssued, PriceAssumption DEF Order
<1>2. seq[a] \in Nat /\ seq[b] \in Nat /\ seq[a] # seq[b]
  BY RestingIssued DEF TypeOK, SequenceDistinct
<1> QED BY <1>1, <1>2 DEF Before

\* Price-time priority always determines the one order a match takes.
THEOREM PriorityIsTotal == Spec => []PriorityTotal
<1>1. Init => TypeOK /\ SequenceDistinct
  BY TypeInit DEF Init, SequenceDistinct
<1>2. TypeOK /\ SequenceDistinct /\ [Next]_vars => (TypeOK /\ SequenceDistinct)'
  BY TypeNext, SequenceNext
<1>3. TypeOK /\ SequenceDistinct => PriorityTotal
  BY SequenceGivesPriority
<1> QED BY <1>1, <1>2, <1>3, PTL DEF Spec

-----------------------------------------------------------------------------
\* A step that lets nothing new rest cannot cross the book, and an order rests
\* only when it meets none of the other side.
LEMMA UncrossedNext ==
    ASSUME TypeOK, TypeOK', Uncrossed, [Next]_vars
    PROVE  Uncrossed'
<1>1. \A o \in resting : order'[o] = order[o] /\ order[o] \in Order
  BY OrdersKept, RestingIssued
<1>2. CASE resting' \subseteq resting
  BY <1>1, <1>2 DEF Uncrossed, OnSide
<1>3. CASE SubmitRest
  <2>1. /\ resting' = resting \cup {call.id} /\ order' = order /\ Matchable = {}
    BY <1>3 DEF SubmitRest
  <2>2. call.id \in 1 .. issued /\ order[call.id] \in Order
    BY <1>3, SubmitterIssued DEF SubmitRest, InBody
  <2>3. \A o \in resting : order[o].side = Opposite(order[call.id].side)
                             => ~Crosses(order[call.id], order[o])
    BY <2>1 DEF Matchable, OnSide
  <2>4. \A o \in resting \cup {call.id} : order[o].price \in Nat /\ order[o].side \in Sides
    BY <1>1, <2>2, PriceAssumption DEF Order
  <2> SUFFICES ASSUME NEW b \in resting \cup {call.id}, NEW a \in resting \cup {call.id},
                      order[b].side = "BUY", order[a].side = "SELL"
               PROVE  order[b].price < order[a].price
    BY <2>1 DEF Uncrossed, OnSide
  <2>5. CASE b \in resting /\ a \in resting
    BY <2>5 DEF Uncrossed, OnSide
  <2>6. CASE b = call.id /\ a \in resting
    BY <2>3, <2>4, <2>6 DEF Opposite, Crosses
  <2>7. CASE a = call.id /\ b \in resting
    BY <2>3, <2>4, <2>7 DEF Opposite, Crosses
  <2>8. a # b
    OBVIOUS
  <2> QED BY <2>5, <2>6, <2>7, <2>8
<1> QED BY <1>2, <1>3, RestingGrows

\* The book is never left crossed, also in the middle of a call.
THEOREM NeverCrossed == Spec => []Uncrossed
<1>1. Init => TypeOK /\ Uncrossed
  BY TypeInit DEF Init, Uncrossed, OnSide
<1>2. TypeOK /\ Uncrossed /\ [Next]_vars => (TypeOK /\ Uncrossed)'
  BY TypeNext, UncrossedNext
<1> QED BY <1>1, <1>2, PTL DEF Spec

-----------------------------------------------------------------------------
(***************************************************************************)
(* The tape.  A trade stays within the limits of its two orders because    *)
(* they are issued, and issued orders never change.                        *)
(***************************************************************************)
GoodTrade(t) ==
    /\ t.buy \in 1 .. issued /\ t.sell \in 1 .. issued
    /\ order[t.buy].side = "BUY" /\ order[t.sell].side = "SELL"
    /\ order[t.sell].price <= t.price /\ t.price <= order[t.buy].price
    /\ t.quantity > 0

GoodTape(tape) == \A i \in 1 .. Len(tape) : GoodTrade(tape[i])

TapesGood == GoodTape(recent) /\ GoodTape(call.trades)

\* A trade on record is not affected by later steps.
LEMMA GoodTradeKept ==
    ASSUME TypeOK, [Next]_vars, NEW t, GoodTrade(t)
    PROVE  GoodTrade(t)'
<1>1. issued <= issued' /\ issued \in Nat /\ issued' \in Nat
  BY OrdersKept, TypeNext, BoundAssumption DEF TypeOK
<1>2. t.buy \in 1 .. issued' /\ t.sell \in 1 .. issued'
  BY <1>1 DEF GoodTrade
<1>3. order'[t.buy] = order[t.buy] /\ order'[t.sell] = order[t.sell]
  BY OrdersKept DEF GoodTrade
<1> QED BY <1>2, <1>3 DEF GoodTrade

\* A match between two orders that cross is a good trade at the maker's price.
LEMMA MatchIsGood ==
    ASSUME TypeOK, Accounts, NEW o \in Ids, Match(o)
    PROVE  GoodTrade(TradeOf(call.id, order[call.id], o, order[o], Lesser(call.rem, rem[o])))
<1>1. o \in resting /\ o \in 1 .. issued /\ order[o] \in Order
  BY RestingIssued DEF Match, IsFront
<1>2. call.id \in 1 .. issued /\ order[call.id] \in Order
  BY SubmitterIssued DEF Match, InBody
<1>3. rem[o] \in Nat /\ rem[o] > 0 /\ call.rem \in Nat /\ call.rem > 0
  BY <1>1 DEF Accounts, RestingHasQuantity, Match, TypeOK, Call
<1>4. Lesser(call.rem, rem[o]) > 0
  BY <1>3 DEF Lesser
<1>5. order[o].side = Opposite(order[call.id].side) /\ Crosses(order[call.id], order[o])
  BY DEF Match, Matchable, OnSide
<1>6. /\ order[o].price \in Nat /\ order[call.id].price \in Nat
      /\ order[o].side \in Sides /\ order[call.id].side \in Sides
  BY <1>1, <1>2, PriceAssumption DEF Order
<1>7. CASE order[call.id].side = "BUY"
  BY <1>1, <1>2, <1>4, <1>5, <1>6, <1>7 DEF GoodTrade, TradeOf, Opposite, Crosses, Sides
<1>8. CASE order[call.id].side = "SELL"
  BY <1>1, <1>2, <1>4, <1>5, <1>6, <1>8 DEF GoodTrade, TradeOf, Opposite, Crosses, Sides
<1> QED BY <1>6, <1>7, <1>8 DEF Sides

\* Ending a submit moves its trades to the bounded tape.
LEMMA TapeExtended ==
    ASSUME TypeOK, TapesGood
    PROVE  GoodTape(Newest(recent \o call.trades))
<1>1. recent \in Seq(Trade) /\ call.trades \in Seq(Trade)
  BY DEF TypeOK, Call
<1> DEFINE all == recent \o call.trades
<1>2. /\ all \in Seq(Trade) /\ Len(all) = Len(recent) + Len(call.trades)
      /\ \A j \in 1 .. Len(all) : all[j] = IF j <= Len(recent) THEN recent[j]
                                           ELSE call.trades[j - Len(recent)]
  BY <1>1
<1>3. \A j \in 1 .. Len(all) : GoodTrade(all[j])
  <2> TAKE j \in 1 .. Len(all)
  <2>1. CASE j <= Len(recent)
    BY <1>1, <1>2, <2>1 DEF TapesGood, GoodTape
  <2>2. CASE j > Len(recent)
    <3>1. j - Len(recent) \in 1 .. Len(call.trades) /\ all[j] = call.trades[j - Len(recent)]
      BY <1>1, <1>2, <2>2
    <3> QED BY <3>1 DEF TapesGood, GoodTape
  <2> QED BY <1>1, <2>1, <2>2
<1> HIDE DEF all
<1>4. \A i \in 1 .. Len(Newest(all)) : \E j \in 1 .. Len(all) : Newest(all)[i] = all[j]
  BY <1>2, NewestIsSuffix
<1>5. GoodTape(Newest(all))
  BY <1>3, <1>4 DEF GoodTape
<1> QED BY <1>5 DEF all

\* Every step keeps both tapes good.
LEMMA TapesNext ==
    ASSUME TypeOK, Accounts, TapesGood, [Next]_vars
    PROVE  TapesGood'
<1>1. \A t : GoodTrade(t) => GoodTrade(t)'
  BY GoodTradeKept
<1>2. call.trades \in Seq(Trade) /\ recent \in Seq(Trade)
  BY DEF TypeOK, Call
<1>3. ASSUME NEW o \in Ids, Match(o) PROVE TapesGood'
  <2> DEFINE t == TradeOf(call.id, order[call.id], o, order[o], Lesser(call.rem, rem[o]))
  <2>1. call'.trades = Append(call.trades, t) /\ recent' = recent
    BY <1>3 DEF Match
  <2>2. GoodTrade(t)
    BY <1>3, MatchIsGood
  <2> HIDE DEF t
  <2>3. \A i \in 1 .. Len(Append(call.trades, t)) :
          Append(call.trades, t)[i] = IF i = Len(call.trades) + 1 THEN t ELSE call.trades[i]
    BY <1>2
  <2>4. \A i \in 1 .. Len(Append(call.trades, t)) : GoodTrade(Append(call.trades, t)[i])
    BY <1>2, <2>2, <2>3 DEF TapesGood, GoodTape
  <2>5. GoodTape(call.trades)'
    BY <1>1, <2>1, <2>4 DEF GoodTape, GoodTrade
  <2>6. GoodTape(recent)'
    BY <1>1, <2>1 DEF TapesGood, GoodTape, GoodTrade
  <2> QED BY <2>5, <2>6 DEF TapesGood
<1>4. CASE recent' = Newest(recent \o call.trades) /\ call' = NoCall
  <2>1. GoodTape(Newest(recent \o call.trades))
    BY TapeExtended
  <2>2. Len(call'.trades) = 0
    BY <1>4 DEF NoCall
  <2>3. GoodTape(recent)'
    BY <1>1, <1>4, <2>1 DEF GoodTape, GoodTrade
  <2>4. GoodTape(call.trades)'
    BY <2>2 DEF GoodTape
  <2> QED BY <2>3, <2>4 DEF TapesGood
<1>5. CASE recent' = recent /\ call'.trades \in {<< >>, call.trades}
  <2>1. GoodTape(recent)'
    BY <1>1, <1>5 DEF TapesGood, GoodTape, GoodTrade
  <2>2. CASE call'.trades = call.trades
    <3>1. GoodTape(call.trades)'
      <4> SUFFICES ASSUME NEW i \in 1 .. Len(call'.trades)
                   PROVE  GoodTrade(call.trades[i])'
        BY DEF GoodTape
      <4>1. PICK t : t = call.trades[i]
        OBVIOUS
      <4>2. GoodTrade(t)
        BY <2>2, <4>1 DEF TapesGood, GoodTape
      <4>3. GoodTrade(t)' /\ t = call'.trades[i]
        BY <1>1, <2>2, <4>1, <4>2
      <4> QED BY <4>3 DEF GoodTrade
    <3> QED BY <2>1, <3>1 DEF TapesGood
  <2>3. CASE call'.trades = << >>
    BY <2>1, <2>3 DEF TapesGood, GoodTape
  <2> QED BY <1>5, <2>2, <2>3
<1>6. \/ \E o \in Ids : Match(o)
      \/ recent' = Newest(recent \o call.trades) /\ call' = NoCall
      \/ recent' = recent /\ call'.trades \in {<< >>, call.trades}
  <2>1. ASSUME NEW op, NEW id, NEW k, Begin(op, id, k) PROVE call'.trades = << >>
    BY <2>1 DEF Begin
  <2>2. NoCall.trades = << >>
    BY DEF NoCall
  <2>3. CASE \/ \E sd \in Sides, p \in Prices, k \in Quantities : SubmitBegin(sd, p, k)
             \/ \E o \in Ids : CancelBegin(o)
             \/ ReadBegin
    BY <2>1, <2>3 DEF SubmitBegin, CancelBegin, ReadBegin
  <2>4. CASE SubmitFilled \/ SubmitRest
    BY <2>4 DEF SubmitFilled, SubmitRest
  <2>5. CASE CancelOpen \/ CancelClosed \/ ReadEnd
    BY <2>2, <2>5 DEF CancelOpen, CancelClosed, ReadEnd
  <2>6. CASE (\E o \in Ids : Expire(o)) \/ Tick \/ UNCHANGED vars
    BY <2>6 DEF Expire, Tick, vars
  <2> QED BY <2>3, <2>4, <2>5, <2>6 DEF Next
<1> QED BY <1>3, <1>4, <1>5, <1>6

\* No execution is outside the limits of the two orders it names, and a buyer
\* always meets a seller.
THEOREM TradesHonourLimits == Spec => []TradesWithinLimits
<1> DEFINE Inv == TypeOK /\ Accounts /\ TapesGood
<1>1. Init => Inv
  BY TypeInit, AccountsInit DEF Init, NoCall, TapesGood, GoodTape
<1>2. Inv /\ [Next]_vars => Inv'
  BY TypeNext, AccountsNext, TapesNext
<1>3. Inv => TradesWithinLimits
  BY DEF TapesGood, GoodTape, GoodTrade, TradesWithinLimits, WithinLimits
<1> QED BY <1>1, <1>2, <1>3, PTL DEF Spec
=============================================================================
