------------------------ MODULE MatcherServiceProofs ------------------------
(***************************************************************************)
(* Proofs about MatcherService, for any number of request threads, symbols *)
(* and orders: its types, that requests never wait for each other in a     *)
(* circle, that the registry's map and the books agree, that a reported    *)
(* cancel is final and that trading days do not mix.                       *)
(***************************************************************************)
EXTENDS MatcherService, FiniteSetTheorems, TLAPS

(***************************************************************************)
(* Types.  TypeOK is not inductive: the gauge step needs to know that the  *)
(* request had an order, the first registry.get that it had a symbol, and  *)
(* so on.  LocalOK says for each position which locals are set.            *)
(***************************************************************************)
LocalOK(p, l) ==
    /\ l \in Locals
    /\ p \in {"get", "enter", "depth", "gauge", "pop"} \cup InBook => l.symbol \in Symbols
    /\ p \in WantsBook \cup InBook => l.book \in Books
    /\ p # "idle" => l.kind # "none"
    /\ l.kind \in {"create", "cancel", "depth"} => l.id \in Orders
    /\ l.kind \in {"create", "read", "depth"} => l.symbol \in Symbols
    /\ p = "closed" => l.closing \in Orders /\ (l.back = "match" => l.kind = "create")
    /\ p \in {"match", "rested", "leave"} => l.kind = "create"
    /\ p \in {"lookup", "cancel", "pop"} => l.kind = "cancel"
    /\ p = "depth" => l.kind \in {"create", "cancel"}
    /\ p \in {"total", "gauge"} => l.kind = "depth"

ThreadsOK ==
    /\ pc \in [Threads -> Labels]
    /\ loc \in [Threads -> Locals]
    /\ \A t \in Threads : LocalOK(pc[t], loc[t])

SharedOK ==
    /\ day \in 1 .. MaxDay /\ phase \in {"before", "in", "after"}
    /\ issued \in 0 .. MaxOrders
    /\ symbolOf \in [Orders -> Symbols \cup {NoSymbol}]
    /\ born \in [Orders -> Days]
    /\ made \in 0 .. MaxBooks
    /\ resting \in [Books -> SUBSET Orders]
    /\ bookLock \in [Books -> Threads \cup {NoThread}]
    /\ books \in [Symbols -> 0 .. MaxBooks]
    /\ orderSymbols \in [Orders -> Symbols \cup {NoSymbol}]
    /\ activeDate \in Days
    /\ regLock \in Threads \cup {NoThread}
    /\ gauge \in [Symbols -> Nat]
    /\ known \subseteq Orders /\ reportedGone \subseteq Orders

TypeInv == SharedOK /\ ThreadsOK

\* The strengthened types contain the stated ones.
LEMMA TypeInvImplies == TypeInv => TypeOK
BY DEF TypeInv, SharedOK, ThreadsOK, LocalOK, TypeOK

\* A thread between two requests needs no locals.
LEMMA NoLocalsOK == NoLocals \in Locals /\ LocalOK("idle", NoLocals)
BY ServiceAssumption DEF NoLocals, LocalOK, Locals, Days, InBook, WantsBook

\* A step of one thread that sets its position and its locals.
LEMMA ThreadStep ==
    ASSUME ThreadsOK, NEW t \in Threads, NEW p \in Labels, NEW l, LocalOK(p, l),
           pc' = [pc EXCEPT ![t] = p], loc' = [loc EXCEPT ![t] = l]
    PROVE  ThreadsOK'
<1>1. pc' \in [Threads -> Labels] /\ loc' \in [Threads -> Locals]
  BY DEF ThreadsOK, LocalOK
<1>2. ASSUME NEW u \in Threads PROVE LocalOK(pc[u], loc[u])'
  <2>1. CASE u = t
    <3>1. pc'[u] = p /\ loc'[u] = l
      BY <2>1 DEF ThreadsOK
    <3> QED BY <3>1 DEF LocalOK, Locals
  <2>2. CASE u # t
    <3>1. pc'[u] = pc[u] /\ loc'[u] = loc[u] /\ LocalOK(pc[u], loc[u])
      BY <2>2 DEF ThreadsOK
    <3> QED BY <3>1 DEF LocalOK, Locals
  <2> QED BY <2>1, <2>2
<1> QED BY <1>1, <1>2 DEF ThreadsOK

\* A step that only moves a thread.
LEMMA MoveStep ==
    ASSUME ThreadsOK, NEW t \in Threads, NEW p \in Labels, LocalOK(p, loc[t]),
           Goto(t, p), loc' = loc
    PROVE  ThreadsOK'
<1>1. loc' = [loc EXCEPT ![t] = loc[t]]
  BY DEF ThreadsOK
<1> QED BY <1>1, ThreadStep DEF Goto

\* A step after which the thread is idle.
LEMMA AnswerStep ==
    ASSUME ThreadsOK, NEW t \in Threads, Answer(t)
    PROVE  ThreadsOK'
<1>1. "idle" \in Labels
  BY DEF Labels
<1> QED BY <1>1, NoLocalsOK, ThreadStep DEF Answer, Goto

\* A step that leaves the threads alone.
LEMMA IdleStep ==
    ASSUME ThreadsOK, UNCHANGED <<pc, loc>>
    PROVE  ThreadsOK'
BY DEF ThreadsOK, LocalOK, Locals

\* An empty matcher has the strengthened types.
LEMMA TypeInit == Init => TypeInv
<1> SUFFICES ASSUME Init PROVE TypeInv
  OBVIOUS
<1>1. SharedOK
  BY ServiceAssumption DEF Init, SharedOK, Orders, Books, Days
<1>2. ThreadsOK
  BY NoLocalsOK DEF Init, ThreadsOK, Labels
<1> QED BY <1>1, <1>2 DEF TypeInv

\* The ways a thread moves on, by position.
LEMMA RequestTypes ==
    ASSUME TypeInv, NEW t \in Threads, Request(t)
    PROVE  TypeInv'
<1>1. ASSUME NEW kind \in {"create", "cancel", "read"}, NEW o \in 0 .. MaxOrders,
             NEW s \in Symbols \cup {NoSymbol}, Begin(t, kind, o, s),
             kind \in {"create", "cancel"} => o \in Orders,
             kind \in {"create", "read"} => s \in Symbols
      PROVE  ThreadsOK'
  <2> DEFINE l == [NoLocals EXCEPT !.kind = kind, !.id = o, !.symbol = s, !.date = SessionDate]
             p == IF MarketMode = "scheduled" /\ SessionDate # 0 THEN "roll"
                  ELSE IF kind = "cancel" THEN "lookup" ELSE "get"
  <2>1. SessionDate \in Days
    BY ServiceAssumption DEF SessionDate, Days, TypeInv, SharedOK
  <2>2. l \in Locals /\ l.kind = kind /\ l.id = o /\ l.symbol = s
    BY <2>1, NoLocalsOK DEF NoLocals, Locals
  <2>3. p \in {"roll", "lookup", "get"} /\ (p = "lookup" => kind = "cancel")
          /\ (p = "get" => kind # "cancel")
    OBVIOUS
  <2>4. pc' = [pc EXCEPT ![t] = p] /\ loc' = [loc EXCEPT ![t] = l]
    BY <1>1 DEF Begin, Goto
  <2> HIDE DEF l, p
  <2>5. LocalOK(p, l) /\ p \in Labels
    BY <1>1, <2>2, <2>3 DEF LocalOK, Labels, WantsReg, WantsBook, InBook
  <2> QED BY <2>4, <2>5, ThreadStep DEF TypeInv
<1>2. ASSUME NEW s \in Symbols, CreateBegin(t, s) PROVE TypeInv'
  <2>1. issued + 1 \in Orders /\ issued' = issued + 1 /\ day \in Days
    BY <1>2, ServiceAssumption DEF CreateBegin, TypeInv, SharedOK, Orders, Days
  <2>2. ThreadsOK'
    BY <1>1, <1>2, <2>1 DEF CreateBegin, Orders
  <2>3. SharedOK'
    BY <1>2, <2>1
       DEF CreateBegin, TypeInv, SharedOK, Orders, clock, bookVars, regVars, clientVars
  <2> QED BY <2>2, <2>3 DEF TypeInv
<1>3. ASSUME NEW s \in Symbols, ReadBegin(t, s) PROVE TypeInv'
  <2>1. ThreadsOK'
    BY <1>1, <1>3, ServiceAssumption DEF ReadBegin
  <2>2. SharedOK'
    BY <1>3 DEF ReadBegin, TypeInv, SharedOK, clock, history, bookVars, regVars, clientVars
  <2> QED BY <2>1, <2>2 DEF TypeInv
<1>4. ASSUME NEW o \in Orders, CancelBegin(t, o) PROVE TypeInv'
  <2>1. ThreadsOK'
    BY <1>1, <1>4 DEF CancelBegin, Orders
  <2>2. SharedOK'
    BY <1>4
       DEF CancelBegin, TypeInv, SharedOK, clock, history, bookVars, regVars, clientVars
  <2> QED BY <2>1, <2>2 DEF TypeInv
<1> QED BY <1>2, <1>3, <1>4 DEF Request

\* Steps inside a request keep the types.
LEMMA StepTypes ==
    ASSUME TypeInv, NEW t \in Threads, Step(t)
    PROVE  TypeInv'
<1> USE DEF TypeInv
<1>0. LocalOK(pc[t], loc[t]) /\ loc[t] \in Locals
  BY DEF ThreadsOK
<1>1. CASE AcquireReg(t)
  <2>8. ThreadsOK'
    BY <1>1, IdleStep DEF AcquireReg
  <2>9. SharedOK'
    BY <1>1 DEF AcquireReg, SharedOK, clock, history, bookVars, regVars, clientVars
  <2> QED BY <2>8, <2>9
<1>2. CASE AcquireBook(t)
  <2>8. ThreadsOK'
    <3>1. Goto(t, "expire") /\ loc' = loc
      BY <1>2 DEF AcquireBook
    <3>2. "expire" \in Labels /\ LocalOK("expire", loc[t])
      BY <1>2, <1>0 DEF AcquireBook, LocalOK, Labels, WantsReg, WantsBook, InBook, InReg
    <3> QED BY <3>1, <3>2, MoveStep
  <2>9. SharedOK'
    BY <1>2, <1>0
       DEF AcquireBook, SharedOK, clock, history, bookVars, regVars, clientVars, LocalOK, WantsBook
  <2> QED BY <2>8, <2>9
<1>3. CASE Rollover(t)
  <2> DEFINE rolls == activeDate # 0 /\ loc[t].date > activeDate
             cleared == IF rolls THEN {s \in Symbols : books[s] # 0} ELSE {}
  <2>8. ThreadsOK'
    <3> DEFINE l == [loc[t] EXCEPT !.cleared = cleared]
    <3>1. pc' = [pc EXCEPT ![t] = "reset"] /\ loc' = [loc EXCEPT ![t] = l]
      BY <1>3 DEF Rollover, Goto
    <3>2. "reset" \in Labels /\ LocalOK("reset", l)
      BY <1>3, <1>0
         DEF Rollover, LocalOK, Labels, WantsReg, WantsBook, InBook, InReg, Locals
    <3> QED BY <3>1, <3>2, ThreadStep
  <2>9. SharedOK'
    BY <1>3, <1>0, ServiceAssumption
       DEF Rollover, SharedOK, clock, history, bookVars, regVars, clientVars, Locals, Days
  <2> QED BY <2>8, <2>9
<1>4. ASSUME NEW s \in Symbols, ResetGauge(t, s) PROVE TypeInv'
  <2>8. ThreadsOK'
    <3> DEFINE l == [loc[t] EXCEPT !.cleared = @ \ {s}]
    <3>1. pc' = [pc EXCEPT ![t] = pc[t]] /\ loc' = [loc EXCEPT ![t] = l]
      BY <1>4 DEF ResetGauge, ThreadsOK
    <3>2. pc[t] \in Labels /\ LocalOK(pc[t], l)
      BY <1>4, <1>0 DEF ResetGauge, LocalOK, Locals, ThreadsOK, InBook, WantsBook
    <3> QED BY <3>1, <3>2, ThreadStep
  <2>9. SharedOK'
    BY <1>4 DEF ResetGauge, SharedOK, clock, history, bookVars, regVars, clientVars
  <2> QED BY <2>8, <2>9
<1>5. CASE ResetDone(t)
  <2> DEFINE p == IF loc[t].kind = "cancel" THEN "lookup" ELSE "get"
  <2>8. ThreadsOK'
    <3>1. Goto(t, p) /\ loc' = loc
      BY <1>5 DEF ResetDone
    <3>2. p \in Labels /\ LocalOK(p, loc[t])
      <4>1. loc[t].kind # "none" /\ pc[t] = "reset" /\ loc[t] \in Locals
        BY <1>5, <1>0 DEF ResetDone, LocalOK
      <4>2. CASE loc[t].kind = "cancel"
        BY <1>0, <4>1, <4>2 DEF LocalOK, Labels, WantsReg, WantsBook, InBook
      <4>3. CASE loc[t].kind # "cancel"
        <5>1. p = "get" /\ loc[t].kind \in {"create", "read", "depth"}
          BY <4>1, <4>3 DEF Locals
        <5>2. loc[t].symbol \in Symbols
          BY <1>0, <4>1, <5>1 DEF LocalOK
        <5> QED BY <1>0, <4>1, <5>1, <5>2 DEF LocalOK, Labels, WantsReg, WantsBook, InBook
      <4> QED BY <4>2, <4>3
    <3> QED BY <3>1, <3>2, MoveStep
  <2>9. SharedOK'
    BY <1>5 DEF ResetDone, SharedOK, clock, history, bookVars, regVars, clientVars
  <2> QED BY <2>8, <2>9
<1>6. CASE LookupFound(t)
  <2>1. loc[t].id \in Orders /\ orderSymbols[loc[t].id] \in Symbols
    BY <1>6, <1>0 DEF LookupFound, LocalOK, InReg, SharedOK
  <2>8. ThreadsOK'
    <3> DEFINE l == [loc[t] EXCEPT !.symbol = orderSymbols[loc[t].id]]
    <3>1. pc' = [pc EXCEPT ![t] = "get"] /\ loc' = [loc EXCEPT ![t] = l]
      BY <1>6 DEF LookupFound, Goto
    <3>2. "get" \in Labels /\ LocalOK("get", l)
      BY <1>6, <1>0, <2>1
         DEF LookupFound, LocalOK, Labels, WantsReg, WantsBook, InBook, InReg, Locals
    <3> QED BY <3>1, <3>2, ThreadStep
  <2>9. SharedOK'
    BY <1>6 DEF LookupFound, SharedOK, clock, history, bookVars, regVars, clientVars
  <2> QED BY <2>8, <2>9
<1>7. CASE LookupMissing(t)
  <2>8. ThreadsOK'
    BY <1>7, AnswerStep DEF LookupMissing
  <2>9. SharedOK'
    BY <1>7, <1>0
       DEF LookupMissing, SharedOK, clock, history, bookVars, regVars, clientVars, LocalOK, InReg
  <2> QED BY <2>8, <2>9
<1>8. CASE Get(t, "get")
  <2> DEFINE s == loc[t].symbol
             b == IF books[s] = 0 THEN made + 1 ELSE books[s]
  <2>1. s \in Symbols /\ made \in 0 .. MaxBooks /\ books[s] \in 0 .. MaxBooks
          /\ (books[s] = 0 => made < MaxBooks)
    BY <1>8, <1>0 DEF Get, LocalOK, InReg, SharedOK
  <2>2. b \in Books
    BY <2>1, ServiceAssumption DEF Books
  <2> HIDE DEF b
  <2>8. ThreadsOK'
    <3> DEFINE l == [loc[t] EXCEPT !.book = b, !.kind = IF "get" = "depth" THEN "depth" ELSE @]
    <3>1. pc' = [pc EXCEPT ![t] = "enter"] /\ loc' = [loc EXCEPT ![t] = l]
      BY <1>8 DEF Get, Goto, b
    <3>2. pc[t] = "get" /\ b \in 0 .. MaxBooks
      BY <1>8, <2>2 DEF Get, InReg, Books
    <3>3. /\ l \in Locals /\ l.book = b /\ l.kind = loc[t].kind
          /\ l.id = loc[t].id /\ l.symbol = loc[t].symbol
      BY <1>0, <3>2 DEF Locals
    <3> HIDE DEF l
    <3>4. "enter" \in Labels /\ LocalOK("enter", l)
      BY <1>0, <2>1, <2>2, <3>2, <3>3 DEF LocalOK, Labels, WantsReg, WantsBook, InBook
    <3> QED BY <3>1, <3>4, ThreadStep
  <2>9. SharedOK'
    <3>1. made' \in 0 .. MaxBooks /\ books' \in [Symbols -> 0 .. MaxBooks]
      BY <1>8, <2>1, ServiceAssumption DEF Get, SharedOK
    <3> QED BY <1>8, <3>1 DEF Get, SharedOK, clock, history, bookVars, regVars, clientVars
  <2> QED BY <2>8, <2>9
<1>9. CASE Get(t, "depth")
  <2> DEFINE s == loc[t].symbol
             b == IF books[s] = 0 THEN made + 1 ELSE books[s]
  <2>1. s \in Symbols /\ made \in 0 .. MaxBooks /\ books[s] \in 0 .. MaxBooks
          /\ (books[s] = 0 => made < MaxBooks)
    BY <1>9, <1>0 DEF Get, LocalOK, InReg, SharedOK
  <2>2. b \in Books
    BY <2>1, ServiceAssumption DEF Books
  <2> HIDE DEF b
  <2>8. ThreadsOK'
    <3> DEFINE l == [loc[t] EXCEPT !.book = b, !.kind = IF "depth" = "depth" THEN "depth" ELSE @]
    <3>1. pc' = [pc EXCEPT ![t] = "enter"] /\ loc' = [loc EXCEPT ![t] = l]
      BY <1>9 DEF Get, Goto, b
    <3>2. pc[t] = "depth" /\ b \in 0 .. MaxBooks
      BY <1>9, <2>2 DEF Get, InReg, Books
    <3>3. /\ l \in Locals /\ l.book = b /\ l.kind = "depth"
          /\ l.id = loc[t].id /\ l.symbol = loc[t].symbol
      BY <1>0, <3>2 DEF Locals
    <3> HIDE DEF l
    <3>4. "enter" \in Labels /\ LocalOK("enter", l)
      BY <1>0, <2>1, <2>2, <3>2, <3>3 DEF LocalOK, Labels, WantsReg, WantsBook, InBook
    <3> QED BY <3>1, <3>4, ThreadStep
  <2>9. SharedOK'
    <3>1. made' \in 0 .. MaxBooks /\ books' \in [Symbols -> 0 .. MaxBooks]
      BY <1>9, <2>1, ServiceAssumption DEF Get, SharedOK
    <3> QED BY <1>9, <3>1 DEF Get, SharedOK, clock, history, bookVars, regVars, clientVars
  <2> QED BY <2>8, <2>9
<1>10. ASSUME NEW o \in Orders, ExpireOrder(t, o) PROVE TypeInv'
  <2>1. LeaveBook(t, o) /\ pc[t] = "expire"
    BY <1>10 DEF ExpireOrder
  <2>8. ThreadsOK'
    <3> DEFINE l == [loc[t] EXCEPT !.back = pc[t], !.closing = o]
    <3>1. pc' = [pc EXCEPT ![t] = "closed"] /\ loc' = [loc EXCEPT ![t] = l]
      BY <2>1 DEF LeaveBook, Goto
    <3>2. /\ l \in Locals /\ l.closing = o /\ l.back = "expire" /\ l.kind = loc[t].kind
          /\ l.id = loc[t].id /\ l.symbol = loc[t].symbol /\ l.book = loc[t].book
      <4>1. o \in 0 .. MaxOrders /\ pc[t] \in {"expire", "match"}
        BY <2>1 DEF Orders
      <4>2. l \in Locals
        BY <1>0, <4>1 DEF Locals
      <4> QED BY <1>0, <2>1, <4>2 DEF Locals
    <3> HIDE DEF l
    <3>3. "closed" \in Labels /\ LocalOK("closed", l)
      BY <1>0, <2>1, <3>2 DEF LocalOK, Labels, WantsReg, WantsBook, InBook
    <3> QED BY <3>1, <3>3, ThreadStep
  <2>9. SharedOK'
    BY <2>1, <1>0
       DEF LeaveBook, LocalOK, InBook, SharedOK, clock, history, bookVars, regVars, clientVars
  <2> QED BY <2>8, <2>9
<1>11. ASSUME NEW o \in Orders, FillOrder(t, o) PROVE TypeInv'
  <2>1. LeaveBook(t, o) /\ pc[t] = "match"
    BY <1>11 DEF FillOrder
  <2>8. ThreadsOK'
    <3> DEFINE l == [loc[t] EXCEPT !.back = pc[t], !.closing = o]
    <3>1. pc' = [pc EXCEPT ![t] = "closed"] /\ loc' = [loc EXCEPT ![t] = l]
      BY <2>1 DEF LeaveBook, Goto
    <3>2. /\ l \in Locals /\ l.closing = o /\ l.back = "match" /\ l.kind = loc[t].kind
          /\ l.id = loc[t].id /\ l.symbol = loc[t].symbol /\ l.book = loc[t].book
      <4>1. o \in 0 .. MaxOrders /\ pc[t] \in {"expire", "match"}
        BY <2>1 DEF Orders
      <4>2. l \in Locals
        BY <1>0, <4>1 DEF Locals
      <4> QED BY <1>0, <2>1, <4>2 DEF Locals
    <3> HIDE DEF l
    <3>3. "closed" \in Labels /\ LocalOK("closed", l)
      BY <1>0, <2>1, <3>2 DEF LocalOK, Labels, WantsReg, WantsBook, InBook
    <3> QED BY <3>1, <3>3, ThreadStep
  <2>9. SharedOK'
    BY <2>1, <1>0
       DEF LeaveBook, LocalOK, InBook, SharedOK, clock, history, bookVars, regVars, clientVars
  <2> QED BY <2>8, <2>9
<1>12. CASE OrderClosed(t)
  <2>8. ThreadsOK'
    <3>1. Goto(t, loc[t].back) /\ loc' = loc
      BY <1>12 DEF OrderClosed
    <3>2. loc[t].back \in Labels /\ LocalOK(loc[t].back, loc[t])
      BY <1>12, <1>0
         DEF OrderClosed, LocalOK, Labels, WantsReg, WantsBook, InBook, InReg, Locals
    <3> QED BY <3>1, <3>2, MoveStep
  <2>9. SharedOK'
    BY <1>12, <1>0
       DEF OrderClosed, SharedOK, clock, history, bookVars, regVars, clientVars, LocalOK, InReg
  <2> QED BY <2>8, <2>9
<1>13. CASE ExpireDone(t)
  <2> DEFINE p == CASE loc[t].kind = "create" -> "match"
                    [] loc[t].kind = "cancel" -> "cancel"
                    [] loc[t].kind = "read" -> "read"
                    [] loc[t].kind = "depth" -> "total"
  <2>8. ThreadsOK'
    <3>1. Goto(t, p) /\ loc' = loc
      BY <1>13 DEF ExpireDone
    <3>2. p \in Labels /\ LocalOK(p, loc[t])
      <4>1. loc[t].kind \in {"create", "cancel", "read", "depth"} /\ pc[t] = "expire"
        BY <1>13, <1>0 DEF ExpireDone, LocalOK, Locals
      <4> QED BY <1>0, <4>1 DEF LocalOK, Labels, WantsReg, WantsBook, InBook
    <3> QED BY <3>1, <3>2, MoveStep
  <2>9. SharedOK'
    BY <1>13 DEF ExpireDone, SharedOK, clock, history, bookVars, regVars, clientVars
  <2> QED BY <2>8, <2>9
<1>14. CASE RestOrder(t)
  <2>8. ThreadsOK'
    <3>1. Goto(t, "rested") /\ loc' = loc
      BY <1>14 DEF RestOrder
    <3>2. "rested" \in Labels /\ LocalOK("rested", loc[t])
      BY <1>14, <1>0 DEF RestOrder, LocalOK, Labels, WantsReg, WantsBook, InBook, InReg
    <3> QED BY <3>1, <3>2, MoveStep
  <2>9. SharedOK'
    BY <1>14, <1>0
       DEF RestOrder, SharedOK, clock, history, bookVars, regVars, clientVars, LocalOK, InBook
  <2> QED BY <2>8, <2>9
<1>15. CASE OrderRested(t)
  <2>8. ThreadsOK'
    <3>1. Goto(t, "leave") /\ loc' = loc
      BY <1>15 DEF OrderRested
    <3>2. "leave" \in Labels /\ LocalOK("leave", loc[t])
      BY <1>15, <1>0 DEF OrderRested, LocalOK, Labels, WantsReg, WantsBook, InBook, InReg
    <3> QED BY <3>1, <3>2, MoveStep
  <2>9. SharedOK'
    BY <1>15, <1>0
       DEF OrderRested, SharedOK, clock, history, bookVars, regVars, clientVars, LocalOK, InReg, InBook
  <2> QED BY <2>8, <2>9
<1>16. CASE FilledWhole(t)
  <2>8. ThreadsOK'
    <3>1. Goto(t, "leave") /\ loc' = loc
      BY <1>16 DEF FilledWhole
    <3>2. "leave" \in Labels /\ LocalOK("leave", loc[t])
      BY <1>16, <1>0 DEF FilledWhole, LocalOK, Labels, WantsReg, WantsBook, InBook, InReg
    <3> QED BY <3>1, <3>2, MoveStep
  <2>9. SharedOK'
    BY <1>16 DEF FilledWhole, SharedOK, clock, history, bookVars, regVars, clientVars
  <2> QED BY <2>8, <2>9
<1>17. CASE SubmitReturns(t)
  <2>8. ThreadsOK'
    <3>1. Goto(t, "depth") /\ loc' = loc
      BY <1>17 DEF SubmitReturns
    <3>2. "depth" \in Labels /\ LocalOK("depth", loc[t])
      BY <1>17, <1>0 DEF SubmitReturns, LocalOK, Labels, WantsReg, WantsBook, InBook, InReg
    <3> QED BY <3>1, <3>2, MoveStep
  <2>9. SharedOK'
    BY <1>17, <1>0
       DEF SubmitReturns, SharedOK, clock, history, bookVars, regVars, clientVars, ReleaseBook
  <2> QED BY <2>8, <2>9
<1>18. CASE CancelInBook(t)
  <2>8. ThreadsOK'
    <3> DEFINE l == [loc[t] EXCEPT !.canceled = loc[t].id \in resting[loc[t].book]]
    <3>1. pc' = [pc EXCEPT ![t] = "pop"] /\ loc' = [loc EXCEPT ![t] = l]
      BY <1>18 DEF CancelInBook, Goto
    <3>2. (loc[t].id \in resting[loc[t].book]) \in BOOLEAN /\ pc[t] = "cancel"
      BY <1>18 DEF CancelInBook
    <3>3. l \in Locals
      BY <1>0, <3>2 DEF Locals
    <3>4. l.kind = loc[t].kind /\ l.id = loc[t].id /\ l.symbol = loc[t].symbol
      BY <1>0 DEF Locals
    <3> HIDE DEF l
    <3>5. "pop" \in Labels /\ LocalOK("pop", l)
      BY <1>0, <3>2, <3>3, <3>4 DEF LocalOK, Labels, WantsReg, WantsBook, InBook
    <3> QED BY <3>1, <3>5, ThreadStep
  <2>9. SharedOK'
    BY <1>18, <1>0
       DEF CancelInBook, SharedOK, clock, history, bookVars, regVars, clientVars, ReleaseBook
  <2> QED BY <2>8, <2>9
<1>19. CASE Pop(t)
  <2>8. ThreadsOK'
    <3>1. CASE loc[t].canceled
      <4>1. Goto(t, "depth") /\ loc' = loc
        BY <1>19, <3>1 DEF Pop
      <4>2. "depth" \in Labels /\ LocalOK("depth", loc[t])
        BY <1>19, <1>0 DEF Pop, LocalOK, Labels, WantsReg, WantsBook, InBook, InReg
      <4> QED BY <4>1, <4>2, MoveStep
    <3>2. CASE ~loc[t].canceled
      BY <1>19, <3>2, AnswerStep DEF Pop
    <3> QED BY <3>1, <3>2
  <2>9. SharedOK'
    BY <1>19, <1>0
       DEF Pop, SharedOK, clock, history, bookVars, regVars, clientVars, LocalOK, InReg
  <2> QED BY <2>8, <2>9
<1>20. CASE ReadReturns(t)
  <2>8. ThreadsOK'
    BY <1>20, AnswerStep DEF ReadReturns
  <2>9. SharedOK'
    BY <1>20, <1>0
       DEF ReadReturns, SharedOK, clock, history, bookVars, regVars, clientVars, ReleaseBook
  <2> QED BY <2>8, <2>9
<1>21. CASE ReadTotal(t)
  <2>1. Cardinality(resting[loc[t].book]) \in Nat
    <3>1. resting[loc[t].book] \subseteq Orders
      BY <1>21, <1>0 DEF ReadTotal, LocalOK, InBook, SharedOK
    <3>2. IsFiniteSet(Orders)
      BY FS_Interval, ServiceAssumption DEF Orders
    <3> QED BY <3>1, <3>2, FS_Subset, FS_CardinalityType
  <2>8. ThreadsOK'
    <3> DEFINE l == [loc[t] EXCEPT !.total = Cardinality(resting[loc[t].book])]
    <3>1. pc' = [pc EXCEPT ![t] = "gauge"] /\ loc' = [loc EXCEPT ![t] = l]
      BY <1>21 DEF ReadTotal, Goto
    <3>2. "gauge" \in Labels /\ LocalOK("gauge", l)
      BY <1>21, <1>0, <2>1
         DEF ReadTotal, LocalOK, Labels, WantsReg, WantsBook, InBook, InReg, Locals
    <3> QED BY <3>1, <3>2, ThreadStep
  <2>9. SharedOK'
    BY <1>21, <1>0
       DEF ReadTotal, SharedOK, clock, history, bookVars, regVars, clientVars, ReleaseBook
  <2> QED BY <2>8, <2>9
<1>22. CASE SetGauge(t)
  <2>8. ThreadsOK'
    BY <1>22, AnswerStep DEF SetGauge
  <2>9. SharedOK'
    BY <1>22, <1>0
       DEF SetGauge, SharedOK, clock, history, bookVars, regVars, clientVars, LocalOK, Locals
  <2> QED BY <2>8, <2>9
<1> QED BY <1>1, <1>2, <1>3, <1>4, <1>5, <1>6, <1>7, <1>8, <1>9, <1>10, <1>11, <1>12, <1>13, <1>14, <1>15, <1>16, <1>17, <1>18, <1>19, <1>20, <1>21, <1>22 DEF Step

\* Every step of a request, a rollover and the clock keeps the strengthened types.
LEMMA TypeNext == TypeInv /\ [Next]_vars => TypeInv'
<1> SUFFICES ASSUME TypeInv, [Next]_vars PROVE TypeInv'
  OBVIOUS
<1>1. CASE PassHours
  <2>1. ThreadsOK'
    BY <1>1, IdleStep DEF PassHours, TypeInv
  <2> QED BY <1>1, <2>1 DEF PassHours, TypeInv, SharedOK, history, bookVars, regVars, clientVars
<1>2. CASE PassMidnight
  <2>1. ThreadsOK'
    BY <1>2, IdleStep DEF PassMidnight, TypeInv
  <2> QED BY <1>2, <2>1, ServiceAssumption
          DEF PassMidnight, TypeInv, SharedOK, history, bookVars, regVars, clientVars
<1>3. ASSUME NEW t \in Threads, Request(t) \/ Step(t) PROVE TypeInv'
  BY <1>3, RequestTypes, StepTypes
<1>4. CASE UNCHANGED vars
  <2>1. ThreadsOK'
    BY <1>4, IdleStep DEF vars, TypeInv
  <2> QED BY <1>4, <2>1
          DEF vars, TypeInv, SharedOK, clock, history, bookVars, regVars, clientVars
<1> QED BY <1>1, <1>2, <1>3, <1>4 DEF Next

\* The matcher keeps its types, and a thread has the locals its position needs.
THEOREM TypeCorrect == Spec => []TypeOK
<1>1. TypeInv /\ [Next]_vars => TypeInv'
  BY TypeNext
<1> QED BY <1>1, TypeInit, TypeInvImplies, PTL DEF Spec

-----------------------------------------------------------------------------
(***************************************************************************)
(* Locks.  The owner of a book's lock is at a position inside that book;   *)
(* the owner of the registry's lock is at a position where it needs no     *)
(* other lock.  Books come before the registry in the lock order.          *)
(***************************************************************************)
BookLockInv ==
    \A b \in Books, t \in Threads :
        bookLock[b] = t => pc[t] \in InBook /\ loc[t].book = b

RegLockInv == \A t \in Threads : regLock = t => pc[t] \in WantsReg

LockInv == BookLockInv /\ RegLockInv

\* No lock is held at the start.
LEMMA LockInit == Init => LockInv
BY ServiceAssumption DEF Init, LockInv, BookLockInv, RegLockInv

\* What a step of thread t may do to the locks.
LEMMA LockStep ==
    ASSUME TypeInv, LockInv, NEW t \in Threads,
           \A u \in Threads \ {t} : pc'[u] = pc[u] /\ loc'[u] = loc[u],
           \/ bookLock' = bookLock /\ (pc[t] \in InBook => pc'[t] \in InBook
                                                        /\ loc'[t].book = loc[t].book)
           \/ bookLock' = [bookLock EXCEPT ![loc[t].book] = NoThread]
           \/ bookLock' = [bookLock EXCEPT ![loc[t].book] = t]
                /\ pc[t] = "enter" /\ pc'[t] = "expire" /\ loc' = loc,
           \/ regLock' = regLock /\ (regLock = t => pc'[t] \in WantsReg)
           \/ regLock' = NoThread
           \/ regLock' = t /\ pc'[t] \in WantsReg
    PROVE  LockInv'
<1>1. bookLock \in [Books -> Threads \cup {NoThread}]
  BY DEF TypeInv, SharedOK
<1>2. BookLockInv'
  <2> SUFFICES ASSUME NEW b \in Books, NEW u \in Threads, bookLock'[b] = u
               PROVE  pc'[u] \in InBook /\ loc'[u].book = b
    BY DEF BookLockInv
  <2>1. CASE bookLock' = bookLock /\ (pc[t] \in InBook => pc'[t] \in InBook
                                                       /\ loc'[t].book = loc[t].book)
    BY <2>1 DEF LockInv, BookLockInv
  <2>2. CASE bookLock' = [bookLock EXCEPT ![loc[t].book] = NoThread]
    <3>1. b # loc[t].book /\ bookLock[b] = u
      BY <1>1, <2>2, ServiceAssumption
    <3>2. pc[u] \in InBook /\ loc[u].book = b
      BY <3>1 DEF LockInv, BookLockInv
    <3> QED BY <3>1, <3>2
  <2>3. CASE /\ bookLock' = [bookLock EXCEPT ![loc[t].book] = t]
             /\ pc[t] = "enter" /\ pc'[t] = "expire" /\ loc' = loc
    <3>1. CASE b = loc[t].book
      BY <1>1, <2>3, <3>1 DEF InBook
    <3>2. CASE b # loc[t].book
      <4>1. bookLock[b] = u
        BY <1>1, <2>3, <3>2
      <4>2. pc[u] \in InBook /\ loc[u].book = b
        BY <4>1 DEF LockInv, BookLockInv
      <4>3. u # t
        BY <2>3, <4>2 DEF InBook
      <4> QED BY <4>2, <4>3
    <3> QED BY <3>1, <3>2
  <2> QED BY <2>1, <2>2, <2>3
<1>3. RegLockInv'
  BY ServiceAssumption DEF LockInv, RegLockInv
<1> QED BY <1>2, <1>3 DEF LockInv

\* A step of a request keeps the lock order.
LEMMA LockRequest ==
    ASSUME TypeInv, LockInv, NEW t \in Threads, Request(t)
    PROVE  LockInv'
<1>1. pc \in [Threads -> Labels] /\ loc \in [Threads -> Locals]
  BY DEF TypeInv, ThreadsOK
<1>2. pc[t] = "idle" /\ UNCHANGED <<bookLock, regLock>>
        /\ \A u \in Threads \ {t} : pc'[u] = pc[u] /\ loc'[u] = loc[u]
  BY <1>1 DEF Request, CreateBegin, ReadBegin, CancelBegin, Begin, Goto, bookVars, regVars
<1>3. pc[t] \notin InBook /\ regLock # t
  BY <1>2 DEF LockInv, RegLockInv, InBook, WantsReg
<1> QED BY <1>2, <1>3, LockStep

\* Every step of a request respects the lock order.
LEMMA LockRequestStep ==
    ASSUME TypeInv, LockInv, NEW t \in Threads, Step(t)
    PROVE  LockInv'
<1>0. /\ pc \in [Threads -> Labels] /\ loc \in [Threads -> Locals]
      /\ LocalOK(pc[t], loc[t]) /\ loc[t] \in Locals
      /\ regLock = t => pc[t] \in WantsReg
  BY DEF TypeInv, ThreadsOK, LockInv, RegLockInv
<1>1. CASE AcquireReg(t)
  BY <1>1, <1>0, LockStep
     DEF AcquireReg, bookVars, Goto, InBook, WantsReg
<1>2. CASE AcquireBook(t)
  BY <1>2, <1>0, LockStep
     DEF AcquireBook, regVars, Goto, InBook, WantsReg
<1>3. CASE Rollover(t)
  BY <1>3, <1>0, LockStep
     DEF Rollover, InReg, bookVars, Goto, InBook, WantsReg
<1>4. ASSUME NEW s \in Symbols, ResetGauge(t, s) PROVE LockInv'
  BY <1>4, <1>0, LockStep
     DEF ResetGauge, bookVars, regVars, Goto, InBook, WantsReg
<1>5. CASE ResetDone(t)
  BY <1>5, <1>0, LockStep
     DEF ResetDone, bookVars, regVars, Goto, InBook, WantsReg
<1>6. CASE LookupFound(t)
  BY <1>6, <1>0, LockStep
     DEF LookupFound, InReg, bookVars, Goto, InBook, WantsReg
<1>7. CASE LookupMissing(t)
  BY <1>7, <1>0, LockStep
     DEF LookupMissing, InReg, Answer, bookVars, Goto, InBook, WantsReg
<1>8. CASE Get(t, "get")
  BY <1>8, <1>0, LockStep
     DEF Get, InReg, Goto, InBook, WantsReg
<1>9. CASE Get(t, "depth")
  BY <1>9, <1>0, LockStep
     DEF Get, InReg, Goto, InBook, WantsReg
<1>10. ASSUME NEW o \in Orders, ExpireOrder(t, o) PROVE LockInv'
  BY <1>10, <1>0, LockStep
     DEF ExpireOrder, LeaveBook, regVars, Goto, InBook, WantsReg
<1>11. ASSUME NEW o \in Orders, FillOrder(t, o) PROVE LockInv'
  BY <1>11, <1>0, LockStep
     DEF FillOrder, LeaveBook, regVars, Goto, InBook, WantsReg
<1>12. CASE OrderClosed(t)
  BY <1>12, <1>0, LockStep
     DEF OrderClosed, InReg, bookVars, LocalOK, Locals, Goto, InBook, WantsReg
<1>13. CASE ExpireDone(t)
  BY <1>13, <1>0, LockStep
     DEF ExpireDone, bookVars, regVars, LocalOK, Locals, Goto, InBook, WantsReg
<1>14. CASE RestOrder(t)
  BY <1>14, <1>0, LockStep
     DEF RestOrder, regVars, Goto, InBook, WantsReg
<1>15. CASE OrderRested(t)
  BY <1>15, <1>0, LockStep
     DEF OrderRested, InReg, bookVars, Goto, InBook, WantsReg
<1>16. CASE FilledWhole(t)
  BY <1>16, <1>0, LockStep
     DEF FilledWhole, bookVars, regVars, Goto, InBook, WantsReg
<1>17. CASE SubmitReturns(t)
  BY <1>17, <1>0, LockStep
     DEF SubmitReturns, ReleaseBook, regVars, Goto, InBook, WantsReg
<1>18. CASE CancelInBook(t)
  BY <1>18, <1>0, LockStep
     DEF CancelInBook, ReleaseBook, regVars, Goto, InBook, WantsReg
<1>19. CASE Pop(t)
  BY <1>19, <1>0, LockStep
     DEF Pop, InReg, Answer, bookVars, Goto, InBook, WantsReg
<1>20. CASE ReadReturns(t)
  BY <1>20, <1>0, LockStep
     DEF ReadReturns, ReleaseBook, Answer, regVars, Goto, InBook, WantsReg
<1>21. CASE ReadTotal(t)
  BY <1>21, <1>0, LockStep
     DEF ReadTotal, ReleaseBook, regVars, Goto, InBook, WantsReg
<1>22. CASE SetGauge(t)
  BY <1>22, <1>0, LockStep
     DEF SetGauge, Answer, bookVars, regVars, Goto, InBook, WantsReg
<1> QED BY <1>1, <1>2, <1>3, <1>4, <1>5, <1>6, <1>7, <1>8, <1>9, <1>10, <1>11, <1>12, <1>13, <1>14, <1>15, <1>16, <1>17, <1>18, <1>19, <1>20, <1>21, <1>22 DEF Step

\* Every step keeps the lock order.
LEMMA LockNext == TypeInv /\ LockInv /\ [Next]_vars => LockInv'
<1> SUFFICES ASSUME TypeInv, LockInv, [Next]_vars PROVE LockInv'
  OBVIOUS
<1>1. CASE UNCHANGED <<bookLock, regLock, pc, loc>>
  BY <1>1 DEF LockInv, BookLockInv, RegLockInv
<1>2. ASSUME NEW t \in Threads, Request(t) \/ Step(t) PROVE LockInv'
  BY <1>2, LockRequest, LockRequestStep
<1> QED BY <1>1, <1>2 DEF Next, PassHours, PassMidnight, vars, bookVars, regVars

\* Under the lock order some thread that holds or wants a lock can go on.
LEMMA LockOrderRuns == TypeInv /\ LockInv => SomeoneRuns
<1> SUFFICES ASSUME TypeInv, LockInv, NEW t \in Threads, pc[t] # "idle"
             PROVE  \E u \in Threads : pc[u] # "idle" /\ ~Blocked(u)
  BY DEF SomeoneRuns
<1>1. CASE regLock # NoThread
  <2>1. regLock \in Threads /\ pc[regLock] \in WantsReg
    BY <1>1 DEF TypeInv, SharedOK, LockInv, RegLockInv
  <2>2. pc[regLock] # "idle" /\ ~Blocked(regLock)
    BY <2>1 DEF Blocked, WantsReg, WantsBook
  <2> QED BY <2>1, <2>2
<1>2. CASE regLock = NoThread
  <2>1. CASE ~Blocked(t)
    BY <2>1
  <2>2. CASE Blocked(t)
    <3> DEFINE u == bookLock[loc[t].book]
    <3>1. pc[t] = "enter" /\ u # NoThread
      BY <1>2, <2>2 DEF Blocked, WantsBook
    <3>2. loc[t].book \in Books
      BY <3>1 DEF TypeInv, ThreadsOK, LocalOK, WantsBook
    <3>3. u \in Threads
      BY <3>1, <3>2 DEF TypeInv, SharedOK
    <3>4. pc[u] \in InBook
      BY <3>2, <3>3 DEF LockInv, BookLockInv
    <3>5. pc[u] # "idle" /\ ~Blocked(u)
      BY <1>2, <3>4 DEF Blocked, InBook, WantsBook
    <3> QED BY <3>3, <3>5
  <2> QED BY <2>1, <2>2
<1> QED BY <1>1, <1>2

\* Whatever the number of threads, symbols and orders, requests never wait for
\* each other in a circle.
THEOREM NoLockCircle == Spec => []SomeoneRuns
<1>1. Init => TypeInv /\ LockInv
  BY TypeInit, LockInit
<1>2. TypeInv /\ LockInv /\ [Next]_vars => (TypeInv /\ LockInv)'
  BY TypeNext, LockNext
<1>3. TypeInv /\ LockInv => SomeoneRuns
  BY LockOrderRuns
<1> QED BY <1>1, <1>2, <1>3, PTL DEF Spec

-----------------------------------------------------------------------------
(***************************************************************************)
(* The map, the books and the sessions.  None of MapExact, GoneStaysGone   *)
(* and SessionsApart is inductive: each says something of the moments      *)
(* between requests only, and holds because of what the requests in        *)
(* progress know.  The parts below say that, in the order of the argument: *)
(* who holds a book, on which day a create runs, that its book stays the   *)
(* current one, that its order is unknown to everybody else, where an      *)
(* order may rest, and only then what the map says.                        *)
(***************************************************************************)
Serves(t, kind) == loc[t].kind = kind
AtBook(t) == pc[t] \in WantsBook \cup InBook
RestsIn(o, s) == books[s] # 0 /\ o \in resting[books[s]]

\* A thread inside a book holds its lock.
HoldsLock == \A t \in Threads : pc[t] \in InBook => bookLock[loc[t].book] = t

\* A create runs within one trading day, which is the registry's active date
\* once it has looked for a new session.
DatesInv ==
    /\ MarketMode = "always_open" => \A t \in Threads : pc[t] \notin {"roll", "reset"}
    /\ MarketMode = "scheduled" =>
         /\ activeDate <= day
         /\ \A t \in Threads : loc[t].date <= day
         /\ \A t \in Threads : Serves(t, "create") =>
              /\ loc[t].date = day /\ born[loc[t].id] = day
              /\ pc[t] # "roll" => activeDate = day

\* Each symbol has its own book, and the book of a create stays current.
BooksInv ==
    /\ \A s \in Symbols : books[s] <= made
    /\ \A s, r \in Symbols : books[s] # 0 /\ books[s] = books[r] => s = r
    /\ \A t \in Threads : AtBook(t) => loc[t].book <= made
    /\ \A b \in Books : b > made => resting[b] = {}
    /\ \A t \in Threads : Serves(t, "create") /\ AtBook(t) => books[loc[t].symbol] = loc[t].book

\* An order nobody but its own create has met yet.
Untouched(o) ==
    /\ o \notin known /\ orderSymbols[o] = NoSymbol
    /\ \A b \in Books : o \notin resting[b]
    /\ \A t \in Threads : pc[t] = "closed" => loc[t].closing # o

Unrested(t) ==
    Serves(t, "create") /\ pc[t] \in {"roll", "reset", "get", "enter", "expire", "match", "closed"}

\* No client knows an order whose create is in progress, so no cancel is for it.
IdsInv ==
    /\ \A o \in Orders : o > issued => Untouched(o)
    /\ \A t \in Threads : loc[t].id <= issued
    /\ \A t \in Threads : Serves(t, "create") => loc[t].id \notin known
    /\ \A t \in Threads : Unrested(t) => Untouched(loc[t].id)
    /\ \A t, u \in Threads : t # u /\ Serves(t, "create") /\ loc[u].kind \in {"create", "depth"}
                               => loc[t].id # loc[u].id
    /\ \A t \in Threads : Serves(t, "cancel") => loc[t].id \in known
    /\ reportedGone \subseteq known

\* An order rests in one book; who takes it out knows where it was.
PlacesInv ==
    /\ \A o \in Orders, b, c \in Books : o \in resting[b] /\ o \in resting[c] => b = c
    /\ \A t \in Threads : pc[t] = "rested" => loc[t].id \in resting[loc[t].book]
    /\ \A t \in Threads : pc[t] = "closed" => \A b \in Books : loc[t].closing \notin resting[b]
    /\ \A t \in Threads, s \in Symbols :
         Serves(t, "cancel") /\ AtBook(t) /\ RestsIn(loc[t].id, s) => loc[t].book = books[s]
    /\ \A t \in Threads, s \in Symbols : pc[t] = "pop" => ~RestsIn(loc[t].id, s)

\* An order rests under its own symbol only, and is looked for under it.
SymbolsInv ==
    /\ \A o \in Orders : orderSymbols[o] \in {NoSymbol, symbolOf[o]}
    /\ \A o \in Orders, s \in Symbols : RestsIn(o, s) => symbolOf[o] = s
    /\ \A t \in Threads : Serves(t, "create") => loc[t].symbol = symbolOf[loc[t].id]
    /\ \A t \in Threads : Serves(t, "cancel") => loc[t].symbol \in {NoSymbol, symbolOf[loc[t].id]}

\* The map and the books agree but for the orders a callback or a cancel in
\* progress is about.
MapInv ==
    /\ \A o \in Orders, s \in Symbols : RestsIn(o, s) =>
         \/ orderSymbols[o] = s
         \/ \E t \in Threads : pc[t] = "rested" /\ loc[t].book = books[s] /\ loc[t].id = o
    /\ \A o \in Orders : orderSymbols[o] # NoSymbol =>
         \/ RestsIn(o, orderSymbols[o])
         \/ \E t \in Threads : \/ pc[t] = "closed" /\ loc[t].closing = o
                               \/ pc[t] = "pop" /\ loc[t].id = o

\* What rests in a current book was accepted on the active date.
SessionInv ==
    MarketMode = "scheduled" =>
        \A o \in Orders, s \in Symbols : RestsIn(o, s) => activeDate # 0 /\ born[o] = activeDate

DataInv ==
    /\ DatesInv /\ BooksInv /\ IdsInv /\ PlacesInv
    /\ SymbolsInv /\ MapInv /\ SessionInv /\ GoneStaysGone

ServiceInv == HoldsLock /\ DataInv

\* Everything the proofs below know of a state.
Inv == TypeInv /\ LockInv /\ ServiceInv

\* What a step of thread t may do to the locks so that who is inside a book
\* still holds it.
LEMMA HoldStep ==
    ASSUME Inv, NEW t \in Threads,
           \A u \in Threads \ {t} : pc'[u] = pc[u] /\ loc'[u] = loc[u],
           \/ bookLock' = bookLock /\ (pc'[t] \in InBook => pc[t] \in InBook
                                                         /\ loc'[t].book = loc[t].book)
           \/ bookLock' = [bookLock EXCEPT ![loc[t].book] = NoThread]
                /\ pc[t] \in InBook /\ pc'[t] \notin InBook
           \/ bookLock' = [bookLock EXCEPT ![loc[t].book] = t]
                /\ bookLock[loc[t].book] = NoThread /\ pc[t] = "enter" /\ loc' = loc
    PROVE  HoldsLock'
<1>1. bookLock \in [Books -> Threads \cup {NoThread}]
        /\ \A u \in Threads : pc[u] \in InBook \cup {"enter"} => loc[u].book \in Books
  BY DEF Inv, TypeInv, SharedOK, ThreadsOK, LocalOK, WantsBook
<1>2. \A u \in Threads : pc[u] \in InBook => bookLock[loc[u].book] = u
  BY DEF Inv, ServiceInv, HoldsLock
<1> SUFFICES ASSUME NEW u \in Threads, pc'[u] \in InBook PROVE bookLock'[loc'[u].book] = u
  BY DEF HoldsLock
<1>3. CASE bookLock' = bookLock /\ (pc'[t] \in InBook => pc[t] \in InBook
                                                      /\ loc'[t].book = loc[t].book)
  BY <1>2, <1>3
<1>4. CASE /\ bookLock' = [bookLock EXCEPT ![loc[t].book] = NoThread]
           /\ pc[t] \in InBook /\ pc'[t] \notin InBook
  <2>1. u # t /\ pc[u] \in InBook /\ loc'[u] = loc[u]
    BY <1>4
  <2>2. loc[u].book # loc[t].book
    BY <1>2, <1>4, <2>1
  <2> QED BY <1>1, <1>2, <1>4, <2>1, <2>2
<1>5. CASE /\ bookLock' = [bookLock EXCEPT ![loc[t].book] = t]
           /\ bookLock[loc[t].book] = NoThread /\ pc[t] = "enter" /\ loc' = loc
  <2>1. CASE u = t
    BY <1>1, <1>5, <2>1
  <2>2. CASE u # t
    <3>1. pc[u] \in InBook /\ loc'[u].book = loc[u].book /\ bookLock[loc[u].book] = u
      BY <1>2, <1>5, <2>2
    <3>2. loc[u].book # loc[t].book
      BY <1>5, <3>1, ServiceAssumption
    <3> QED BY <1>1, <1>5, <3>1, <3>2
  <2> QED BY <2>1, <2>2
<1> QED BY <1>3, <1>4, <1>5

\* A step that changes nothing of the map, the books and the orders, and moves
\* thread t on with the order and the book it had, or with none any more; it may
\* tell a client of the order, or that it is gone if it rests nowhere.
LEMMA QuietStep ==
    ASSUME Inv, NEW t \in Threads,
           UNCHANGED <<day, issued, symbolOf, born, made, resting, books, orderSymbols,
                       activeDate>>,
           known \subseteq known' /\ reportedGone' \subseteq known',
           \A o \in known' \ known : o = loc[t].id /\ loc[t].kind = "depth",
           \A o \in reportedGone' \ reportedGone, s \in Symbols : ~RestsIn(o, s),
           \A u \in Threads \ {t} : pc'[u] = pc[u] /\ loc'[u] = loc[u],
           {pc[t], pc'[t]} \cap {"rested", "closed", "pop"} = {},
           pc'[t] \in {"roll", "reset"} => pc[t] \in {"roll", "reset"},
           pc'[t] = "roll" <=> pc[t] = "roll",
           \/ /\ loc'[t].kind = loc[t].kind /\ loc'[t].id = loc[t].id /\ loc'[t].date = loc[t].date
              /\ \/ loc'[t].symbol = loc[t].symbol
                 \/ loc[t].kind = "cancel" /\ loc'[t].symbol = orderSymbols[loc[t].id]
              /\ AtBook(t)' => AtBook(t) /\ loc'[t].book = loc[t].book
              /\ Unrested(t)' => Unrested(t)
           \/ pc'[t] = "idle" /\ loc'[t] = NoLocals
    PROVE  DataInv'
<1>0. /\ loc \in [Threads -> Locals] /\ issued \in Nat /\ day \in Nat
      /\ \A u \in Threads : loc[u].kind \in {"create", "cancel", "depth"} => loc[u].id \in Orders
  BY ServiceAssumption DEF Inv, TypeInv, SharedOK, ThreadsOK, LocalOK
<1>a. /\ DatesInv /\ BooksInv /\ IdsInv /\ PlacesInv
      /\ SymbolsInv /\ MapInv /\ SessionInv /\ GoneStaysGone
  BY DEF Inv, ServiceInv, DataInv
<1>b. \A o \in Orders, s \in Symbols : RestsIn(o, s)' <=> RestsIn(o, s)
  BY DEF RestsIn
<1>c. \A u \in Threads : /\ Serves(u, "create")' => Serves(u, "create") /\ loc'[u].id = loc[u].id /\ loc'[u].symbol = loc[u].symbol
                         /\ Serves(u, "cancel")' => Serves(u, "cancel") /\ loc'[u].id = loc[u].id
                         /\ loc'[u].kind = "depth" => loc[u].kind = "depth" /\ loc'[u].id = loc[u].id
                         /\ Unrested(u)' => Unrested(u)
                         /\ AtBook(u)' => AtBook(u) /\ loc'[u].book = loc[u].book
  BY DEF Serves, Unrested, AtBook, NoLocals, WantsBook, InBook
<1>d. \A u \in Threads : /\ pc'[u] = "rested" <=> pc[u] = "rested"
                         /\ pc'[u] = "closed" <=> pc[u] = "closed"
                         /\ pc'[u] = "pop" <=> pc[u] = "pop"
                         /\ pc[u] \in {"rested", "closed", "pop"} => loc'[u] = loc[u]
  OBVIOUS
<1>1. DatesInv'
  <2>1. \A u \in Threads : /\ Serves(u, "create")' => loc'[u].date = loc[u].date
                           /\ loc'[u].date \in {loc[u].date, 0}
    BY DEF Serves, NoLocals
  <2> QED BY <1>0, <1>a, <1>c, <2>1 DEF DatesInv
<1>2. BooksInv'
  BY <1>a, <1>c DEF BooksInv
<1>3. IdsInv'
  <2>1. ASSUME NEW o \in Orders, Untouched(o), o # loc[t].id \/ loc[t].kind # "depth"
        PROVE  Untouched(o)'
    BY <1>d, <2>1 DEF Untouched
  <2>2. \A u \in Threads : loc'[u].id \in {loc[u].id, 0}
    BY DEF NoLocals
  <2>3. \A u \in Threads : Unrested(u)' => Untouched(loc[u].id)'
    <3> SUFFICES ASSUME NEW u \in Threads, Unrested(u)' PROVE Untouched(loc[u].id)'
      OBVIOUS
    <3>1. Unrested(u) /\ loc'[u].id = loc[u].id /\ loc[u].id \in Orders /\ Untouched(loc[u].id)
      BY <1>0, <1>a, <1>c DEF IdsInv, Unrested, Serves
    <3>2. loc[u].id # loc[t].id \/ loc[t].kind # "depth"
      BY <1>a, <3>1 DEF IdsInv, Unrested, Serves
    <3> QED BY <1>d, <3>1, <3>2 DEF Untouched
  <2>4. \A o \in Orders : o > issued' => Untouched(o)'
    <3>1. loc[t].id \in Nat /\ loc[t].id <= issued
      BY <1>0, <1>a DEF IdsInv, Locals
    <3> QED BY <1>0, <1>a, <2>1, <3>1 DEF IdsInv, Orders
  <2>5. /\ \A u \in Threads : loc'[u].id <= issued'
        /\ \A u \in Threads : Serves(u, "create")' => loc'[u].id \notin known'
        /\ \A u \in Threads : Serves(u, "cancel")' => loc'[u].id \in known'
    BY <1>0, <1>a, <1>c, <2>2 DEF IdsInv, Serves
  <2>6. \A u, v \in Threads : u # v /\ Serves(u, "create")' /\ loc'[v].kind \in {"create", "depth"}
                                => loc'[u].id # loc'[v].id
    BY <1>a, <1>c DEF IdsInv, Serves
  <2> QED BY <2>3, <2>4, <2>5, <2>6 DEF IdsInv
<1>4. PlacesInv'
  <2>1. \A u \in Threads, s \in Symbols :
          Serves(u, "cancel")' /\ AtBook(u)' /\ RestsIn(loc[u].id, s)' => loc'[u].book = books'[s]
    BY <1>a, <1>c DEF PlacesInv, RestsIn
  <2>2. \A u \in Threads, s \in Symbols : pc'[u] = "pop" => ~RestsIn(loc[u].id, s)'
    BY <1>a, <1>d DEF PlacesInv, RestsIn
  <2>3. \A u \in Threads : pc'[u] = "closed" => \A b \in Books : loc'[u].closing \notin resting[b]
    BY <1>a, <1>d DEF PlacesInv
  <2>4. \A u \in Threads : pc'[u] = "rested" => loc'[u].id \in resting[loc'[u].book]
    BY <1>a, <1>d DEF PlacesInv
  <2> QED BY <1>a, <2>1, <2>2, <2>3, <2>4 DEF PlacesInv
<1>5. SymbolsInv'
  <2>1. \A u \in Threads : Serves(u, "cancel")' => loc'[u].symbol \in {loc[u].symbol, orderSymbols[loc[u].id]}
    BY DEF Serves, NoLocals
  <2> QED BY <1>0, <1>a, <1>b, <1>c, <2>1 DEF SymbolsInv, Serves
<1>6. MapInv'
  <2>1. ASSUME NEW o \in Orders, NEW s \in Symbols, RestsIn(o, s)'
        PROVE  \/ orderSymbols[o] = s
               \/ \E u \in Threads : pc'[u] = "rested" /\ loc'[u].book = books[s] /\ loc'[u].id = o
    BY <1>a, <1>b, <1>d, <2>1 DEF MapInv
  <2>2. ASSUME NEW o \in Orders, orderSymbols[o] # NoSymbol
        PROVE  \/ RestsIn(o, orderSymbols[o])'
               \/ \E u \in Threads : \/ pc'[u] = "closed" /\ loc'[u].closing = o
                                     \/ pc'[u] = "pop" /\ loc'[u].id = o
    <3>1. CASE RestsIn(o, orderSymbols[o])
      BY <3>1 DEF RestsIn
    <3>2. CASE ~RestsIn(o, orderSymbols[o])
      <4>1. PICK u \in Threads : \/ pc[u] = "closed" /\ loc[u].closing = o
                                 \/ pc[u] = "pop" /\ loc[u].id = o
        BY <1>a, <2>2, <3>2 DEF MapInv
      <4> QED BY <1>d, <4>1
    <3> QED BY <3>1, <3>2
  <2> QED BY <2>1, <2>2 DEF MapInv
<1>7. SessionInv'
  BY <1>a, <1>b DEF SessionInv
<1>8. GoneStaysGone'
  BY <1>a DEF GoneStaysGone, RestsIn
<1> QED BY <1>1, <1>2, <1>3, <1>4, <1>5, <1>6, <1>7, <1>8 DEF DataInv

\* Every step of a request keeps the locks of the books with those inside.
LEMMA HoldRequestStep ==
    ASSUME Inv, NEW t \in Threads, Step(t)
    PROVE  HoldsLock'
<1>0. pc \in [Threads -> Labels] /\ loc \in [Threads -> Locals]
  BY DEF Inv, TypeInv, ThreadsOK
<1>1. CASE AcquireReg(t)
  BY <1>1, <1>0, HoldStep DEF AcquireReg, bookVars, Goto, InBook, WantsReg
<1>2. CASE AcquireBook(t)
  BY <1>2, <1>0, HoldStep DEF AcquireBook, Goto, InBook, WantsReg
<1>3. CASE Rollover(t)
  BY <1>3, <1>0, HoldStep DEF Rollover, InReg, bookVars, Goto, InBook, WantsReg
<1>4. ASSUME NEW s \in Symbols, ResetGauge(t, s) PROVE HoldsLock'
  BY <1>4, <1>0, HoldStep DEF ResetGauge, bookVars, Goto, InBook, WantsReg
<1>5. CASE ResetDone(t)
  BY <1>5, <1>0, HoldStep DEF ResetDone, bookVars, Goto, InBook, WantsReg
<1>6. CASE LookupFound(t)
  BY <1>6, <1>0, HoldStep DEF LookupFound, InReg, bookVars, Goto, InBook, WantsReg
<1>7. CASE LookupMissing(t)
  BY <1>7, <1>0, HoldStep DEF LookupMissing, InReg, Answer, bookVars, Goto, InBook, WantsReg
<1>8. CASE Get(t, "get")
  BY <1>8, <1>0, HoldStep DEF Get, InReg, Goto, InBook, WantsReg
<1>9. CASE Get(t, "depth")
  BY <1>9, <1>0, HoldStep DEF Get, InReg, Goto, InBook, WantsReg
<1>10. ASSUME NEW o \in Orders, ExpireOrder(t, o) PROVE HoldsLock'
  BY <1>10, <1>0, HoldStep DEF ExpireOrder, LeaveBook, Goto, InBook, WantsReg
<1>11. ASSUME NEW o \in Orders, FillOrder(t, o) PROVE HoldsLock'
  BY <1>11, <1>0, HoldStep DEF FillOrder, LeaveBook, Goto, InBook, WantsReg
<1>12. CASE OrderClosed(t)
  BY <1>12, <1>0, HoldStep DEF OrderClosed, InReg, bookVars, Goto, InBook, WantsReg
<1>13. CASE ExpireDone(t)
  BY <1>13, <1>0, HoldStep DEF ExpireDone, bookVars, Goto, InBook, WantsReg
<1>14. CASE RestOrder(t)
  BY <1>14, <1>0, HoldStep DEF RestOrder, Goto, InBook, WantsReg
<1>15. CASE OrderRested(t)
  BY <1>15, <1>0, HoldStep DEF OrderRested, InReg, bookVars, Goto, InBook, WantsReg
<1>16. CASE FilledWhole(t)
  BY <1>16, <1>0, HoldStep DEF FilledWhole, bookVars, Goto, InBook, WantsReg
<1>17. CASE SubmitReturns(t)
  BY <1>17, <1>0, HoldStep DEF SubmitReturns, ReleaseBook, Goto, InBook, WantsReg
<1>18. CASE CancelInBook(t)
  BY <1>18, <1>0, HoldStep DEF CancelInBook, ReleaseBook, Goto, InBook, WantsReg
<1>19. CASE Pop(t)
  BY <1>19, <1>0, HoldStep DEF Pop, InReg, Answer, bookVars, Goto, InBook, WantsReg
<1>20. CASE ReadReturns(t)
  BY <1>20, <1>0, HoldStep DEF ReadReturns, ReleaseBook, Answer, Goto, InBook, WantsReg
<1>21. CASE ReadTotal(t)
  BY <1>21, <1>0, HoldStep DEF ReadTotal, ReleaseBook, Goto, InBook, WantsReg
<1>22. CASE SetGauge(t)
  BY <1>22, <1>0, HoldStep DEF SetGauge, Answer, bookVars, Goto, InBook, WantsReg
<1> QED BY <1>1, <1>2, <1>3, <1>4, <1>5, <1>6, <1>7, <1>8, <1>9, <1>10, <1>11, <1>12, <1>13, <1>14, <1>15, <1>16, <1>17, <1>18, <1>19, <1>20, <1>21, <1>22 DEF Step

\* The steps that only move a thread, or answer it.  An order that the map does
\* not hold rests in no current book, unless its create is about to say so.
LEMMA DataQuietStep ==
    ASSUME Inv, NEW t \in Threads,
           \/ AcquireBook(t) \/ (\E s \in Symbols : ResetGauge(t, s)) \/ ResetDone(t)
           \/ LookupFound(t) \/ ExpireDone(t) \/ FilledWhole(t) \/ SubmitReturns(t)
           \/ ReadReturns(t) \/ ReadTotal(t) \/ LookupMissing(t) \/ SetGauge(t)
    PROVE  DataInv'
<1>0. pc \in [Threads -> Labels] /\ loc \in [Threads -> Locals] /\ LocalOK(pc[t], loc[t])
  BY DEF Inv, TypeInv, ThreadsOK
<1>a. reportedGone \subseteq known
  BY DEF Inv, ServiceInv, DataInv, IdsInv
<1> USE DEF clock, history, bookVars, regVars, clientVars, Goto, AtBook, Unrested, Serves
<1>1. CASE AcquireBook(t)
  BY <1>0, <1>1, <1>a, QuietStep DEF AcquireBook, WantsBook, InBook
<1>2. ASSUME NEW s \in Symbols, ResetGauge(t, s) PROVE DataInv'
  BY <1>0, <1>2, <1>a, QuietStep DEF ResetGauge, WantsBook, InBook
<1>3. CASE ResetDone(t)
  BY <1>0, <1>3, <1>a, QuietStep DEF ResetDone, WantsBook, InBook
<1>4. CASE LookupFound(t)
  BY <1>0, <1>4, <1>a, QuietStep DEF LookupFound, InReg, LocalOK, WantsBook, InBook
<1>5. CASE ExpireDone(t)
  <2>1. loc[t].kind \in {"create", "cancel", "read", "depth"} /\ pc[t] = "expire"
    BY <1>0, <1>5 DEF ExpireDone, LocalOK, Locals
  <2> QED BY <1>0, <1>5, <2>1, <1>a, QuietStep DEF ExpireDone, WantsBook, InBook
<1>6. CASE FilledWhole(t)
  BY <1>0, <1>6, <1>a, QuietStep DEF FilledWhole, WantsBook, InBook
<1>7. CASE SubmitReturns(t)
  BY <1>0, <1>7, <1>a, QuietStep DEF SubmitReturns, WantsBook, InBook
<1>8. CASE ReadReturns(t)
  BY <1>0, <1>8, <1>a, QuietStep DEF ReadReturns, Answer, WantsBook, InBook
<1>9. CASE ReadTotal(t)
  BY <1>0, <1>9, <1>a, QuietStep DEF ReadTotal, WantsBook, InBook
<1>10. CASE LookupMissing(t)
  <2>1. loc[t].id \in known /\ loc[t].kind = "cancel" /\ orderSymbols[loc[t].id] = NoSymbol
    BY <1>0, <1>10 DEF LookupMissing, InReg, LocalOK, WantsBook, InBook, Inv, ServiceInv, DataInv, IdsInv
  <2>2. \A s \in Symbols : ~RestsIn(loc[t].id, s)
    <3> SUFFICES ASSUME NEW s \in Symbols, RestsIn(loc[t].id, s) PROVE FALSE
      OBVIOUS
    <3>1. PICK u \in Threads : pc[u] = "rested" /\ loc[u].id = loc[t].id
      BY <1>0, <2>1, ServiceAssumption DEF Inv, ServiceInv, DataInv, MapInv, LocalOK
    <3>2. loc[u].kind = "create"
      BY <3>1 DEF Inv, TypeInv, ThreadsOK, LocalOK
    <3> QED BY <2>1, <3>1, <3>2 DEF Inv, ServiceInv, DataInv, IdsInv
  <2> QED BY <1>0, <1>10, <1>a, <2>1, <2>2, QuietStep DEF LookupMissing, InReg, Answer, WantsBook, InBook
<1>11. CASE SetGauge(t)
  <2>1. loc[t].kind = "depth"
    BY <1>0, <1>11 DEF SetGauge, LocalOK
  <2> QED BY <1>0, <1>11, <1>a, <2>1, QuietStep DEF SetGauge, Answer, WantsBook, InBook
<1> QED BY <1>1, <1>2, <1>3, <1>4, <1>5, <1>6, <1>7, <1>8, <1>9, <1>10, <1>11

\* The clock, and a step that changes neither a thread nor the map, the books
\* and the orders.
LEMMA DataStill ==
    ASSUME Inv,
           UNCHANGED <<issued, symbolOf, born, made, resting, books, orderSymbols,
                       activeDate, known, reportedGone, pc, loc>>,
           day' = day \/ PassMidnight
    PROVE  DataInv'
<1>1. DatesInv'
  <2>1. CASE day' = day
    BY <2>1 DEF Inv, ServiceInv, DataInv, DatesInv, Serves
  <2>2. CASE PassMidnight
    <3>1. day \in Nat /\ activeDate \in Nat /\ \A t \in Threads : loc[t].date \in Nat
      BY DEF Inv, TypeInv, SharedOK, ThreadsOK, Locals, Days
    <3> QED BY <2>2, <3>1 DEF PassMidnight, Inv, ServiceInv, DataInv, DatesInv, Serves
  <2> QED BY <2>1, <2>2
<1>2. BooksInv' /\ IdsInv' /\ PlacesInv'
  BY DEF Inv, ServiceInv, DataInv, BooksInv, IdsInv, PlacesInv, Serves, AtBook, Unrested, Untouched, RestsIn
<1>3. SymbolsInv' /\ MapInv' /\ SessionInv' /\ GoneStaysGone'
  BY DEF Inv, ServiceInv, DataInv, SymbolsInv, MapInv, SessionInv, GoneStaysGone, Serves, RestsIn
<1> QED BY <1>1, <1>2, <1>3 DEF DataInv

\* A create begins: its order is new, and its day is the trading day.
LEMMA DataCreate ==
    ASSUME Inv, NEW t \in Threads, NEW s \in Symbols, CreateBegin(t, s)
    PROVE  DataInv'
<1> DEFINE o == issued + 1
<1> USE DEF Inv, ServiceInv, DataInv, TypeInv
<1>0. /\ pc \in [Threads -> Labels] /\ loc \in [Threads -> Locals]
      /\ issued \in Nat /\ issued' = issued + 1 /\ o \in Orders /\ day \in Nat \ {0}
      /\ symbolOf \in [Orders -> Symbols \cup {NoSymbol}] /\ born \in [Orders -> Days]
      /\ orderSymbols \in [Orders -> Symbols \cup {NoSymbol}]
  BY ServiceAssumption DEF CreateBegin, SharedOK, ThreadsOK, Orders
<1>1. /\ UNCHANGED <<day, made, resting, books, orderSymbols, activeDate, known, reportedGone>>
      /\ symbolOf'[o] = s /\ born'[o] = day
      /\ \A x \in Orders : x # o => symbolOf'[x] = symbolOf[x] /\ born'[x] = born[x]
  BY <1>0 DEF CreateBegin, clock, bookVars, regVars, clientVars
<1>2. /\ pc[t] = "idle"
      /\ pc'[t] = IF MarketMode = "scheduled" /\ SessionDate # 0 THEN "roll" ELSE "get"
      /\ loc'[t].kind = "create" /\ loc'[t].id = o /\ loc'[t].symbol = s /\ loc'[t].date = SessionDate
      /\ \A u \in Threads : u # t => pc'[u] = pc[u] /\ loc'[u] = loc[u]
  BY <1>0 DEF CreateBegin, Begin, Goto, NoLocals
<1>3. \A u \in Threads : u # t => loc[u].id <= issued
  BY DEF IdsInv
<1>4. Untouched(o)
  BY <1>0 DEF IdsInv
<1>5. \A u \in Threads : u # t => /\ Serves(u, "create")' <=> Serves(u, "create")
                                  /\ Serves(u, "cancel")' <=> Serves(u, "cancel")
                                  /\ AtBook(u)' <=> AtBook(u)
                                  /\ Unrested(u)' <=> Unrested(u)
  BY <1>2 DEF Serves, AtBook, Unrested
<1>6. Serves(t, "create")' /\ ~Serves(t, "cancel")' /\ ~AtBook(t)' /\ Unrested(t)'
  BY <1>2 DEF Serves, AtBook, Unrested, WantsBook, InBook
<1>7. \A x \in Orders, r \in Symbols : RestsIn(x, r)' <=> RestsIn(x, r)
  BY <1>1 DEF RestsIn
<1>8. \A u \in Threads : pc'[u] \in {"rested", "closed", "pop"} => u # t
  BY <1>2
<1>9. \A u \in Threads : loc[u].kind \in {"create", "cancel", "depth"} => loc[u].id \in Orders
  BY DEF ThreadsOK, LocalOK
<1>11. DatesInv'
  <2>1. MarketMode = "scheduled" => SessionDate = day /\ pc'[t] = "roll"
    BY <1>0, <1>2 DEF CreateBegin, IsOpen, SessionDate
  <2>2. ASSUME MarketMode = "scheduled", NEW u \in Threads, Serves(u, "create")', u # t
        PROVE  /\ loc'[u].date = day /\ born'[loc'[u].id] = day /\ (pc'[u] # "roll" => activeDate = day)
    BY <1>0, <1>1, <1>2, <1>3, <1>5, <1>9, <2>2 DEF DatesInv, Serves
  <2> QED BY <1>0, <1>1, <1>2, <1>6, <2>1, <2>2 DEF DatesInv
<1>12. BooksInv'
  BY <1>1, <1>2, <1>5, <1>6 DEF BooksInv
<1>13. IdsInv'
  <2>1. \A x \in Orders : Untouched(x)' <=> Untouched(x)
    BY <1>1, <1>2, <1>8 DEF Untouched
  <2>2. \A u, v \in Threads : u # v /\ Serves(u, "create")' /\ loc'[v].kind \in {"create", "depth"}
                                => loc'[u].id # loc'[v].id
    BY <1>0, <1>2, <1>3, <1>5 DEF IdsInv
  <2>3. \A x \in Orders : x > issued + 1 => Untouched(x)'
    BY <1>0, <2>1 DEF IdsInv, Orders
  <2>4. \A u \in Threads : Unrested(u)' => Untouched(loc[u].id)'
    <3> SUFFICES ASSUME NEW u \in Threads, Unrested(u)' PROVE Untouched(loc[u].id)'
      OBVIOUS
    <3>1. loc'[u].id \in Orders /\ Untouched(loc'[u].id)
      <4>1. CASE u = t
        BY <1>0, <1>2, <1>4, <4>1
      <4>2. CASE u # t
        BY <1>2, <1>5, <1>9, <4>2 DEF IdsInv, Unrested, Serves
      <4> QED BY <4>1, <4>2
    <3> QED BY <1>1, <1>2, <1>8, <3>1 DEF Untouched
  <2>5. o \notin known
    BY <1>4 DEF Untouched
  <2>6. /\ \A u \in Threads : loc'[u].id <= issued'
        /\ \A u \in Threads : Serves(u, "create")' => loc'[u].id \notin known
        /\ \A u \in Threads : Serves(u, "cancel")' => loc'[u].id \in known
        /\ reportedGone \subseteq known
    <3>1. \A u \in Threads : loc[u].id \in Nat
      BY <1>0 DEF Locals
    <3> QED BY <1>0, <1>2, <1>3, <1>5, <1>6, <2>5, <3>1 DEF IdsInv
  <2> QED BY <1>0, <1>1, <2>2, <2>3, <2>4, <2>6 DEF IdsInv
<1>14. PlacesInv'
  <2>1. \A u \in Threads, r \in Symbols :
          Serves(u, "cancel")' /\ AtBook(u)' /\ RestsIn(loc[u].id, r)' => loc'[u].book = books'[r]
    BY <1>1, <1>2, <1>5, <1>6 DEF PlacesInv, RestsIn
  <2>2. \A u \in Threads, r \in Symbols : pc'[u] = "pop" => ~RestsIn(loc[u].id, r)'
    BY <1>1, <1>2, <1>8 DEF PlacesInv, RestsIn
  <2>3. \A u \in Threads : pc'[u] = "closed" => \A b \in Books : loc'[u].closing \notin resting[b]
    BY <1>2, <1>8 DEF PlacesInv
  <2>4. \A u \in Threads : pc'[u] = "rested" => loc'[u].id \in resting[loc'[u].book]
    BY <1>2, <1>8 DEF PlacesInv
  <2> QED BY <1>1, <2>1, <2>2, <2>3, <2>4 DEF PlacesInv
<1>15. SymbolsInv'
  <2>1. \A r \in Symbols : ~RestsIn(o, r)
    BY <1>0, <1>4 DEF RestsIn, Untouched, SharedOK, Books
  <2>2. orderSymbols[o] = NoSymbol
    BY <1>4 DEF Untouched
  <2>3. \A u \in Threads : u # t => loc[u].id # o
    BY <1>0, <1>3
  <2>4. \A u \in Threads : Serves(u, "create")' => loc'[u].symbol = symbolOf'[loc'[u].id]
    BY <1>1, <1>2, <1>5, <1>9, <2>3 DEF SymbolsInv, Serves
  <2>5. \A u \in Threads : Serves(u, "cancel")' => loc'[u].symbol \in {NoSymbol, symbolOf'[loc'[u].id]}
    BY <1>1, <1>2, <1>5, <1>6, <1>9, <2>3 DEF SymbolsInv, Serves
  <2>6. \A x \in Orders : orderSymbols'[x] \in {NoSymbol, symbolOf'[x]}
    BY <1>1, <2>2 DEF SymbolsInv
  <2>7. \A x \in Orders, r \in Symbols : RestsIn(x, r)' => symbolOf'[x] = r
    BY <1>1, <1>7, <2>1 DEF SymbolsInv
  <2> QED BY <2>4, <2>5, <2>6, <2>7 DEF SymbolsInv
<1>16. MapInv'
  <2>1. ASSUME NEW x \in Orders, NEW r \in Symbols, RestsIn(x, r)
        PROVE  \/ orderSymbols[x] = r
               \/ \E u \in Threads : pc'[u] = "rested" /\ loc'[u].book = books[r] /\ loc'[u].id = x
    BY <1>2, <2>1 DEF MapInv
  <2>2. ASSUME NEW x \in Orders, orderSymbols[x] # NoSymbol, ~RestsIn(x, orderSymbols[x])
        PROVE  \E u \in Threads : \/ pc'[u] = "closed" /\ loc'[u].closing = x
                                  \/ pc'[u] = "pop" /\ loc'[u].id = x
    BY <1>2, <2>2 DEF MapInv
  <2> QED BY <1>0, <1>1, <1>7, <2>1, <2>2 DEF MapInv
<1>17. SessionInv'
  <2>1. \A r \in Symbols : ~RestsIn(o, r)
    BY <1>0, <1>4 DEF RestsIn, Untouched, SharedOK, Books
  <2> QED BY <1>1, <1>7, <2>1 DEF SessionInv
<1>18. GoneStaysGone'
  BY <1>1 DEF GoneStaysGone
<1> QED BY <1>11, <1>12, <1>13, <1>14, <1>15, <1>16, <1>17, <1>18

\* A cancel or a read begins: a cancel is of an order some client knows.
LEMMA DataAsk ==
    ASSUME Inv, NEW t \in Threads,
           \/ \E o \in Orders : CancelBegin(t, o)
           \/ \E s \in Symbols : ReadBegin(t, s)
    PROVE  DataInv'
<1> USE DEF Inv, ServiceInv, DataInv, TypeInv
<1>0. /\ pc \in [Threads -> Labels] /\ loc \in [Threads -> Locals]
      /\ issued \in Nat /\ day \in Nat \ {0} /\ known \subseteq Orders
      /\ SessionDate \in {0, day}
  BY ServiceAssumption DEF SharedOK, ThreadsOK, SessionDate
<1>1. UNCHANGED <<day, issued, symbolOf, born, made, resting, books, orderSymbols,
                  activeDate, known, reportedGone>>
  BY DEF CancelBegin, ReadBegin, clock, history, bookVars, regVars, clientVars
<1>2. /\ pc[t] = "idle"
      /\ pc'[t] \in {"roll", "lookup", "get"} /\ (MarketMode = "always_open" => pc'[t] # "roll")
      /\ \/ loc'[t].kind = "cancel" /\ loc'[t].id \in known /\ loc'[t].symbol = NoSymbol
         \/ loc'[t].kind = "read" /\ loc'[t].id = 0
      /\ loc'[t].date = SessionDate
      /\ \A u \in Threads : u # t => pc'[u] = pc[u] /\ loc'[u] = loc[u]
  <2>1. PICK kind \in {"cancel", "read"}, o \in 0 .. MaxOrders, s \in Symbols \cup {NoSymbol} :
          /\ Begin(t, kind, o, s)
          /\ kind = "cancel" => o \in known /\ s = NoSymbol
          /\ kind = "read" => o = 0
    BY ServiceAssumption DEF CancelBegin, ReadBegin, Orders
  <2>2. /\ pc[t] = "idle"
        /\ pc' = [pc EXCEPT ![t] = IF MarketMode = "scheduled" /\ SessionDate # 0 THEN "roll"
                                   ELSE IF kind = "cancel" THEN "lookup" ELSE "get"]
        /\ loc' = [loc EXCEPT ![t] = [NoLocals EXCEPT !.kind = kind, !.id = o, !.symbol = s,
                                                      !.date = SessionDate]]
    BY <2>1 DEF Begin, Goto
  <2>3. loc'[t].kind = kind /\ loc'[t].id = o /\ loc'[t].symbol = s /\ loc'[t].date = SessionDate
    BY <1>0, <2>2 DEF NoLocals
  <2> QED BY <1>0, <2>1, <2>2, <2>3
<1>3. \A o \in known : o <= issued
  BY <1>0 DEF IdsInv, Untouched, Orders
<1>4. \A u \in Threads : /\ Serves(u, "create")' <=> u # t /\ Serves(u, "create")
                         /\ AtBook(u)' <=> u # t /\ AtBook(u)
                         /\ Unrested(u)' <=> u # t /\ Unrested(u)
  BY <1>2 DEF Serves, AtBook, Unrested, WantsBook, InBook
<1>5. \A u \in Threads : Serves(u, "cancel")' => IF u = t THEN loc'[t].kind = "cancel" ELSE Serves(u, "cancel")
  BY <1>2 DEF Serves
<1>6. \A x \in Orders, r \in Symbols : RestsIn(x, r)' <=> RestsIn(x, r)
  BY <1>1 DEF RestsIn
<1>7. \A u \in Threads : pc'[u] \in {"rested", "closed", "pop"} => u # t
  BY <1>2
<1>11. DatesInv'
  BY <1>0, <1>1, <1>2, <1>4 DEF DatesInv, Serves
<1>12. BooksInv'
  BY <1>1, <1>2, <1>4 DEF BooksInv
<1>13. IdsInv'
  <2>1. \A x \in Orders : Untouched(x)' <=> Untouched(x)
    BY <1>1, <1>2, <1>7 DEF Untouched
  <2>2. \A u \in Threads : Unrested(u)' => Untouched(loc[u].id)'
    <3> SUFFICES ASSUME NEW u \in Threads, Unrested(u)' PROVE Untouched(loc[u].id)'
      OBVIOUS
    <3>1. u # t /\ loc'[u].id = loc[u].id /\ Untouched(loc[u].id)
      BY <1>2, <1>4 DEF IdsInv
    <3> QED BY <1>1, <1>2, <1>7, <3>1 DEF Untouched
  <2>3. /\ \A u \in Threads : loc'[u].id <= issued
        /\ \A u \in Threads : Serves(u, "cancel")' => loc'[u].id \in known
    BY <1>0, <1>2, <1>3, <1>5 DEF IdsInv
  <2>4. \A u, v \in Threads : u # v /\ Serves(u, "create")' /\ loc'[v].kind \in {"create", "depth"}
                                => loc'[u].id # loc'[v].id
    BY <1>2, <1>4 DEF IdsInv
  <2> QED BY <1>1, <1>2, <1>4, <2>1, <2>2, <2>3, <2>4 DEF IdsInv
<1>14. PlacesInv'
  <2>1. \A u \in Threads, r \in Symbols :
          Serves(u, "cancel")' /\ AtBook(u)' /\ RestsIn(loc[u].id, r)' => loc'[u].book = books'[r]
    BY <1>1, <1>2, <1>4, <1>5 DEF PlacesInv, RestsIn
  <2>2. \A u \in Threads, r \in Symbols : pc'[u] = "pop" => ~RestsIn(loc[u].id, r)'
    BY <1>1, <1>2, <1>7 DEF PlacesInv, RestsIn
  <2>3. \A u \in Threads : pc'[u] = "closed" => \A b \in Books : loc'[u].closing \notin resting[b]
    BY <1>2, <1>7 DEF PlacesInv
  <2>4. \A u \in Threads : pc'[u] = "rested" => loc'[u].id \in resting[loc'[u].book]
    BY <1>2, <1>7 DEF PlacesInv
  <2> QED BY <1>1, <2>1, <2>2, <2>3, <2>4 DEF PlacesInv
<1>15. SymbolsInv'
  <2>1. \A u \in Threads : Serves(u, "cancel")' => loc'[u].symbol \in {NoSymbol, symbolOf[loc'[u].id]}
    BY <1>2, <1>5 DEF SymbolsInv
  <2>2. \A u \in Threads : Serves(u, "create")' => loc'[u].symbol = symbolOf[loc'[u].id]
    BY <1>2, <1>4 DEF SymbolsInv
  <2> QED BY <1>1, <1>6, <2>1, <2>2 DEF SymbolsInv
<1>16. MapInv'
  <2>1. ASSUME NEW x \in Orders, NEW r \in Symbols, RestsIn(x, r)
        PROVE  \/ orderSymbols[x] = r
               \/ \E u \in Threads : pc'[u] = "rested" /\ loc'[u].book = books[r] /\ loc'[u].id = x
    BY <1>2, <2>1 DEF MapInv
  <2>2. ASSUME NEW x \in Orders, orderSymbols[x] # NoSymbol, ~RestsIn(x, orderSymbols[x])
        PROVE  \E u \in Threads : \/ pc'[u] = "closed" /\ loc'[u].closing = x
                                  \/ pc'[u] = "pop" /\ loc'[u].id = x
    BY <1>2, <2>2 DEF MapInv
  <2>3. \A x \in Orders : RestsIn(x, orderSymbols[x])' <=> RestsIn(x, orderSymbols[x])
    BY <1>1 DEF RestsIn
  <2> QED BY <1>1, <1>6, <2>1, <2>2, <2>3 DEF MapInv
<1>17. SessionInv' /\ GoneStaysGone'
  BY <1>1, <1>6 DEF SessionInv, GoneStaysGone
<1> QED BY <1>11, <1>12, <1>13, <1>14, <1>15, <1>16, <1>17

\* A request looks for a new session.  Nobody creates an order while the books
\* are dropped: a create keeps the active date at its own day.
LEMMA DataRollover ==
    ASSUME Inv, NEW t \in Threads, Rollover(t)
    PROVE  DataInv'
<1> DEFINE rolls == activeDate # 0 /\ loc[t].date > activeDate
<1> USE DEF Inv, ServiceInv, DataInv, TypeInv
<1>0. /\ pc \in [Threads -> Labels] /\ loc \in [Threads -> Locals]
      /\ day \in Nat \ {0} /\ activeDate \in Nat /\ made \in Nat
      /\ \A u \in Threads : loc[u].date \in Nat
      /\ orderSymbols \in [Orders -> Symbols \cup {NoSymbol}] /\ NoSymbol \notin Symbols
  BY ServiceAssumption DEF SharedOK, ThreadsOK, Locals, Days
<1>1. /\ UNCHANGED <<day, issued, symbolOf, born, made, resting, known, reportedGone>>
      /\ activeDate' = IF activeDate = 0 \/ rolls THEN loc[t].date ELSE activeDate
      /\ rolls => /\ \A s \in Symbols : books'[s] = 0
                  /\ \A o \in Orders : orderSymbols'[o] = NoSymbol
      /\ ~rolls => books' = books /\ orderSymbols' = orderSymbols
  BY DEF Rollover, clock, history, bookVars, clientVars
<1>2. /\ pc[t] = "roll" /\ pc'[t] = "reset"
      /\ loc'[t].kind = loc[t].kind /\ loc'[t].id = loc[t].id /\ loc'[t].date = loc[t].date
      /\ loc'[t].symbol = loc[t].symbol
      /\ \A u \in Threads : u # t => pc'[u] = pc[u] /\ loc'[u] = loc[u]
  BY <1>0 DEF Rollover, InReg, Goto
<1>3. MarketMode = "scheduled"
  BY <1>2, ServiceAssumption DEF DatesInv
<1>4. \A u \in Threads : /\ Serves(u, "create")' <=> Serves(u, "create")
                         /\ Serves(u, "cancel")' <=> Serves(u, "cancel")
                         /\ AtBook(u)' <=> AtBook(u)
                         /\ Unrested(u)' <=> Unrested(u)
                         /\ AtBook(u) => u # t
  BY <1>2 DEF Serves, AtBook, Unrested, WantsBook, InBook
<1>5. \A u \in Threads : /\ loc'[u].id = loc[u].id /\ loc'[u].date = loc[u].date
                         /\ loc'[u].symbol = loc[u].symbol /\ loc'[u].kind = loc[u].kind
                         /\ AtBook(u) => loc'[u].book = loc[u].book
                         /\ pc'[u] \in {"rested", "closed", "pop"} => pc[u] = pc'[u] /\ loc'[u] = loc[u]
                         /\ pc[u] \in {"rested", "closed", "pop"} => pc[u] = pc'[u] /\ loc'[u] = loc[u]
  BY <1>2, <1>4
<1>6. \A x \in Orders, s \in Symbols : RestsIn(x, s)' <=> ~rolls /\ RestsIn(x, s)
  BY <1>1 DEF RestsIn
<1>11. DatesInv'
  BY <1>0, <1>1, <1>2, <1>3, <1>4, <1>5 DEF DatesInv, Serves
<1>12. BooksInv'
  <2>1. \A u \in Threads : Serves(u, "create") /\ AtBook(u) => ~rolls
    BY <1>0, <1>2, <1>3, <1>4 DEF DatesInv, AtBook, WantsBook, InBook
  <2>2. \A u \in Threads : Serves(u, "create")' /\ AtBook(u)' => books'[loc'[u].symbol] = loc'[u].book
    BY <1>1, <1>4, <1>5, <2>1 DEF BooksInv
  <2> QED BY <1>0, <1>1, <1>4, <1>5, <2>2 DEF BooksInv
<1>13. IdsInv'
  <2>1. \A x : x \in Orders /\ Untouched(x) => Untouched(x)'
    BY <1>1, <1>5 DEF Untouched
  <2>2. \A u \in Threads : Unrested(u)' => Untouched(loc[u].id)'
    <3> SUFFICES ASSUME NEW u \in Threads, Unrested(u)' PROVE Untouched(loc[u].id)'
      OBVIOUS
    <3>1. loc'[u].id = loc[u].id /\ Untouched(loc[u].id) /\ loc[u].id \in Orders
      BY <1>4, <1>5 DEF IdsInv, Unrested, Serves, ThreadsOK, LocalOK
    <3> QED BY <1>1, <1>5, <3>1 DEF Untouched
  <2> QED BY <1>1, <1>4, <1>5, <2>1, <2>2 DEF IdsInv
<1>14. PlacesInv'
  <2>1. \A u \in Threads, s \in Symbols :
          Serves(u, "cancel")' /\ AtBook(u)' /\ RestsIn(loc[u].id, s)' => loc'[u].book = books'[s]
    BY <1>1, <1>4, <1>5 DEF PlacesInv, RestsIn
  <2>2. \A u \in Threads, s \in Symbols : pc'[u] = "pop" => ~RestsIn(loc[u].id, s)'
    BY <1>1, <1>5 DEF PlacesInv, RestsIn
  <2>3. \A u \in Threads : pc'[u] = "closed" => \A b \in Books : loc'[u].closing \notin resting[b]
    BY <1>5 DEF PlacesInv
  <2>4. \A u \in Threads : pc'[u] = "rested" => loc'[u].id \in resting[loc'[u].book]
    BY <1>5 DEF PlacesInv
  <2> QED BY <1>1, <2>1, <2>2, <2>3, <2>4 DEF PlacesInv
<1>15. SymbolsInv'
  BY <1>1, <1>4, <1>5, <1>6 DEF SymbolsInv
<1>16. MapInv'
  <2>1. ASSUME NEW x \in Orders, NEW s \in Symbols, RestsIn(x, s)'
        PROVE  \/ orderSymbols'[x] = s
               \/ \E u \in Threads : pc'[u] = "rested" /\ loc'[u].book = books'[s] /\ loc'[u].id = x
    BY <1>1, <1>5, <1>6, <2>1 DEF MapInv
  <2>2. ASSUME NEW x \in Orders, orderSymbols'[x] # NoSymbol
        PROVE  \/ RestsIn(x, orderSymbols[x])'
               \/ \E u \in Threads : \/ pc'[u] = "closed" /\ loc'[u].closing = x
                                     \/ pc'[u] = "pop" /\ loc'[u].id = x
    <3>1. ~rolls /\ orderSymbols' = orderSymbols /\ books' = books
      BY <1>1, <2>2
    <3>2. CASE RestsIn(x, orderSymbols[x])
      BY <1>1, <3>1, <3>2 DEF RestsIn
    <3>3. CASE ~RestsIn(x, orderSymbols[x])
      BY <1>5, <2>2, <3>1, <3>3 DEF MapInv
    <3> QED BY <3>2, <3>3
  <2> QED BY <2>1, <2>2 DEF MapInv
<1>17. SessionInv' /\ GoneStaysGone'
  BY <1>0, <1>1, <1>6 DEF SessionInv, GoneStaysGone
<1> QED BY <1>11, <1>12, <1>13, <1>14, <1>15, <1>16, <1>17

\* registry.get gives a thread the current book of its symbol, a new and empty
\* one if there is none.
LEMMA DataGet ==
    ASSUME Inv, NEW t \in Threads, NEW label \in {"get", "depth"}, Get(t, label)
    PROVE  DataInv'
<1> DEFINE s == loc[t].symbol
           b == loc'[t].book
<1> USE DEF Inv, ServiceInv, DataInv, TypeInv
<1>0. /\ pc \in [Threads -> Labels] /\ loc \in [Threads -> Locals] /\ s \in Symbols
      /\ made \in Nat /\ MaxBooks \in Nat /\ books \in [Symbols -> 0 .. MaxBooks]
      /\ label = "depth" => loc[t].kind \in {"create", "cancel"}
      /\ \A u \in Threads : AtBook(u) => loc[u].book \in Books
      /\ pc[t] = label
  <2>1. LocalOK(pc[t], loc[t]) /\ pc[t] = label
    BY DEF Get, InReg, ThreadsOK
  <2>2. \A u \in Threads : AtBook(u) => loc[u].book \in Books
    BY DEF ThreadsOK, LocalOK, AtBook
  <2>3. s \in Symbols /\ (label = "depth" => loc[t].kind \in {"create", "cancel"})
    BY <2>1 DEF LocalOK
  <2> QED BY <2>1, <2>2, <2>3, ServiceAssumption DEF SharedOK, ThreadsOK
<1>1. UNCHANGED <<day, issued, symbolOf, born, resting, orderSymbols, activeDate, known, reportedGone>>
  BY DEF Get, clock, history, clientVars
<1>2. /\ loc'[t].kind = IF label = "depth" THEN "depth" ELSE loc[t].kind
      /\ loc'[t].id = loc[t].id /\ loc'[t].symbol = s /\ loc'[t].date = loc[t].date
      /\ pc'[t] = "enter"
      /\ \A u \in Threads : u # t => pc'[u] = pc[u] /\ loc'[u] = loc[u]
  BY <1>0 DEF Get, Goto
<1>3. /\ books'[s] = b /\ b \in Books /\ b <= made' /\ made' \in Nat /\ made <= made'
      /\ \A r \in Symbols : r # s => books'[r] = books[r]
      /\ \/ books[s] # 0 /\ books' = books /\ made' = made
         \/ books[s] = 0 /\ b = made + 1 /\ made' = made + 1 /\ resting[b] = {}
  <2>1. CASE books[s] = 0
    <3>1. made < MaxBooks /\ made' = made + 1 /\ books' = [books EXCEPT ![s] = made + 1] /\ b = made + 1
      BY <1>0, <2>1 DEF Get
    <3> QED BY <1>0, <2>1, <3>1 DEF BooksInv, Books
  <2>2. CASE books[s] # 0
    <3>1. made' = made /\ books' = books /\ b = books[s]
      BY <1>0, <2>2 DEF Get
    <3> QED BY <1>0, <2>2, <3>1 DEF BooksInv, Books
  <2> QED BY <2>1, <2>2
<1>4. \A r \in Symbols : books[r] # 0 => books'[r] = books[r]
  BY <1>3
<1>5. \A x \in Orders, r \in Symbols : RestsIn(x, r)' <=> RestsIn(x, r)
  BY <1>1, <1>3 DEF RestsIn
<1>6. \A u \in Threads : /\ loc'[u].id = loc[u].id /\ loc'[u].symbol = loc[u].symbol
                         /\ loc'[u].date = loc[u].date
                         /\ Serves(u, "create")' => Serves(u, "create")
                         /\ Serves(u, "cancel")' => Serves(u, "cancel")
                         /\ Unrested(u)' => Unrested(u)
                         /\ u # t => AtBook(u)' = AtBook(u) /\ loc'[u].book = loc[u].book
                         /\ pc'[u] \in {"rested", "closed", "pop"} => u # t
                         /\ pc[u] \in {"rested", "closed", "pop"} => u # t
  BY <1>0, <1>2 DEF Serves, Unrested, AtBook
<1>11. DatesInv'
  <2>1. \A u \in Threads : Serves(u, "create") => (pc'[u] = "roll" <=> pc[u] = "roll")
    BY <1>0, <1>2
  <2>2. \A u \in Threads : pc'[u] \notin {"roll", "reset"} \/ pc'[u] = pc[u]
    BY <1>2
  <2> QED BY <1>1, <1>6, <2>1, <2>2 DEF DatesInv
<1>12. BooksInv'
  <2>1. \A r \in Symbols : books'[r] <= made'
    BY <1>0, <1>3 DEF BooksInv
  <2>2. \A p, r \in Symbols : books'[p] # 0 /\ books'[p] = books'[r] => p = r
    BY <1>0, <1>3 DEF BooksInv
  <2>3. \A u \in Threads : AtBook(u)' => loc'[u].book <= made'
    <3> SUFFICES ASSUME NEW u \in Threads, AtBook(u)', u # t PROVE loc'[u].book <= made'
      BY <1>3
    <3>1. loc'[u].book = loc[u].book /\ loc[u].book \in Nat /\ loc[u].book <= made
      BY <1>0, <1>6 DEF BooksInv, Books
    <3> QED BY <1>0, <1>3, <3>1
  <2>4. \A c \in Books : c > made' => resting'[c] = {}
    BY <1>0, <1>1, <1>3 DEF BooksInv, Books
  <2>5. ASSUME NEW u \in Threads, Serves(u, "create")', AtBook(u)'
        PROVE  books'[loc'[u].symbol] = loc'[u].book
    <3>1. CASE u = t
      BY <1>2, <1>3, <3>1
    <3>2. CASE u # t
      <4>1. /\ Serves(u, "create") /\ AtBook(u) /\ loc'[u] = loc[u]
            /\ loc[u].symbol \in Symbols
        BY <1>2, <1>6, <2>5, <3>2 DEF ThreadsOK, LocalOK, Serves
      <4>2. books[loc[u].symbol] = loc[u].book /\ loc[u].book # 0
        BY <1>0, <4>1 DEF BooksInv, Books
      <4> QED BY <1>4, <4>1, <4>2
    <3> QED BY <3>1, <3>2
  <2> QED BY <2>1, <2>2, <2>3, <2>4, <2>5 DEF BooksInv
<1>13. IdsInv'
  <2>1. \A x \in Orders : Untouched(x)' <=> Untouched(x)
    BY <1>1, <1>2, <1>6 DEF Untouched
  <2>2. \A u \in Threads : Unrested(u)' => Untouched(loc[u].id)'
    <3> SUFFICES ASSUME NEW u \in Threads, Unrested(u)' PROVE Untouched(loc[u].id)'
      OBVIOUS
    <3>1. loc'[u].id = loc[u].id /\ Untouched(loc[u].id)
      BY <1>6 DEF IdsInv
    <3> QED BY <1>1, <1>2, <1>6, <3>1 DEF Untouched
  <2>3. ASSUME NEW u \in Threads, NEW v \in Threads, u # v, Serves(u, "create")',
               loc'[v].kind \in {"create", "depth"}
        PROVE  loc'[u].id # loc'[v].id
    <3>1. loc[v].kind \in {"create", "cancel", "depth"}
      BY <1>0, <1>2, <2>3
    <3>2. CASE loc[v].kind = "cancel"
      BY <1>6, <2>3, <3>2 DEF IdsInv, Serves
    <3>3. CASE loc[v].kind # "cancel"
      BY <1>6, <2>3, <3>1, <3>3 DEF IdsInv
    <3> QED BY <3>2, <3>3
  <2> QED BY <1>1, <1>6, <2>1, <2>2, <2>3 DEF IdsInv
<1>14. PlacesInv'
  <2>1. ASSUME NEW u \in Threads, NEW r \in Symbols, Serves(u, "cancel")', AtBook(u)',
               RestsIn(loc[u].id, r)'
        PROVE  loc'[u].book = books'[r]
    <3>1. Serves(u, "cancel") /\ loc'[u].id = loc[u].id /\ loc[u].id \in Orders
      BY <1>6, <2>1 DEF ThreadsOK, LocalOK, Serves
    <3>2. RestsIn(loc[u].id, r) /\ books'[r] = books[r]
      BY <1>1, <1>3, <2>1, <3>1 DEF RestsIn
    <3>3. CASE u = t
      BY <1>0, <1>3, <3>1, <3>2, <3>3, ServiceAssumption DEF SymbolsInv
    <3>4. CASE u # t
      BY <1>6, <2>1, <3>1, <3>2, <3>4 DEF PlacesInv
    <3> QED BY <3>3, <3>4
  <2>2. \A u \in Threads, r \in Symbols : pc'[u] = "pop" => ~RestsIn(loc[u].id, r)'
    <3> SUFFICES ASSUME NEW u \in Threads, NEW r \in Symbols, pc'[u] = "pop", RestsIn(loc[u].id, r)'
                 PROVE  FALSE
      OBVIOUS
    <3>1. pc[u] = "pop" /\ loc'[u] = loc[u]
      BY <1>2, <1>6
    <3> QED BY <1>1, <1>3, <3>1 DEF PlacesInv, RestsIn
  <2>3. \A u \in Threads : pc'[u] = "closed" => \A c \in Books : loc'[u].closing \notin resting[c]
    BY <1>2, <1>6 DEF PlacesInv
  <2>4. \A u \in Threads : pc'[u] = "rested" => loc'[u].id \in resting[loc'[u].book]
    BY <1>2, <1>6 DEF PlacesInv
  <2> QED BY <1>1, <2>1, <2>2, <2>3, <2>4 DEF PlacesInv
<1>15. SymbolsInv'
  BY <1>1, <1>5, <1>6 DEF SymbolsInv
<1>16. MapInv'
  <2>1. ASSUME NEW x \in Orders, NEW r \in Symbols, RestsIn(x, r)
        PROVE  \/ orderSymbols[x] = r
               \/ \E u \in Threads : pc'[u] = "rested" /\ loc'[u].book = books'[r] /\ loc'[u].id = x
    <3>1. books'[r] = books[r]
      BY <1>4, <2>1 DEF RestsIn
    <3> QED BY <1>2, <1>6, <2>1, <3>1 DEF MapInv
  <2>2. ASSUME NEW x \in Orders, orderSymbols[x] # NoSymbol
        PROVE  \/ RestsIn(x, orderSymbols[x])'
               \/ \E u \in Threads : \/ pc'[u] = "closed" /\ loc'[u].closing = x
                                     \/ pc'[u] = "pop" /\ loc'[u].id = x
    <3>1. CASE RestsIn(x, orderSymbols[x])
      <4>1. orderSymbols[x] \in Symbols
        BY <2>2 DEF SharedOK
      <4> QED BY <1>1, <1>4, <3>1, <4>1 DEF RestsIn
    <3>2. CASE ~RestsIn(x, orderSymbols[x])
      BY <1>2, <1>6, <2>2, <3>2 DEF MapInv
    <3> QED BY <3>1, <3>2
  <2> QED BY <1>1, <1>5, <2>1, <2>2 DEF MapInv
<1>17. SessionInv' /\ GoneStaysGone'
  BY <1>1, <1>3, <1>5 DEF SessionInv, GoneStaysGone
<1> QED BY <1>11, <1>12, <1>13, <1>14, <1>15, <1>16, <1>17

\* An order expires or is filled: it leaves the one book it rested in, and the
\* map loses it next.  No other thread is in that book.
LEMMA DataLeave ==
    ASSUME Inv, NEW t \in Threads, NEW o \in Orders, ExpireOrder(t, o) \/ FillOrder(t, o)
    PROVE  DataInv'
<1> DEFINE B == loc[t].book
<1> USE DEF Inv, ServiceInv, DataInv, TypeInv
<1>0. /\ pc \in [Threads -> Labels] /\ loc \in [Threads -> Locals] /\ B \in Books
      /\ resting \in [Books -> SUBSET Orders]
      /\ \A u \in Threads : loc[u].kind \in {"create", "cancel", "depth"} => loc[u].id \in Orders
      /\ \A u \in Threads : pc[u] = "rested" => loc[u].book \in Books /\ loc[u].id \in Orders
      /\ pc[t] \in {"expire", "match"} /\ LeaveBook(t, o)
  <2>1. pc[t] \in {"expire", "match"} /\ LeaveBook(t, o)
    BY DEF ExpireOrder, FillOrder
  <2>2. \A u \in Threads : pc[u] \in InBook => loc[u].book \in Books
    BY DEF ThreadsOK, LocalOK
  <2>3. \A u \in Threads : /\ loc[u].kind \in {"create", "cancel", "depth"} => loc[u].id \in Orders
                           /\ pc[u] = "rested" => loc[u].kind = "create"
    BY DEF ThreadsOK, LocalOK
  <2> QED BY <2>1, <2>2, <2>3 DEF SharedOK, ThreadsOK, InBook
<1>1. UNCHANGED <<day, issued, symbolOf, born, made, books, orderSymbols, activeDate, known, reportedGone>>
  BY <1>0 DEF LeaveBook, clock, history, regVars, clientVars
<1>2. /\ pc'[t] = "closed" /\ loc'[t].closing = o
      /\ loc'[t].kind = loc[t].kind /\ loc'[t].id = loc[t].id /\ loc'[t].symbol = loc[t].symbol
      /\ loc'[t].date = loc[t].date /\ loc'[t].book = B
      /\ \A u \in Threads : u # t => pc'[u] = pc[u] /\ loc'[u] = loc[u]
  BY <1>0 DEF LeaveBook, Goto, Locals
<1>3. /\ o \in resting[B] /\ \A c \in Books : o \notin resting'[c]
      /\ \A c \in Books : \A x : x # o => (x \in resting'[c] <=> x \in resting[c])
  BY <1>0 DEF LeaveBook, PlacesInv
<1>4. \A u \in Threads : u # t /\ pc[u] \in InBook => loc[u].book # B
  BY <1>0 DEF HoldsLock, InBook
<1>5. \A x \in Orders, r \in Symbols : RestsIn(x, r)' <=> RestsIn(x, r) /\ x # o
  BY <1>1, <1>3 DEF RestsIn, SharedOK, Books
<1>6. \A u \in Threads : /\ loc'[u].id = loc[u].id /\ loc'[u].symbol = loc[u].symbol
                         /\ loc'[u].date = loc[u].date /\ loc'[u].book = loc[u].book
                         /\ loc'[u].kind = loc[u].kind
                         /\ Serves(u, "create")' <=> Serves(u, "create")
                         /\ Serves(u, "cancel")' <=> Serves(u, "cancel")
                         /\ Unrested(u)' => Unrested(u)
                         /\ AtBook(u)' <=> AtBook(u)
                         /\ pc'[u] \in {"rested", "pop"} <=> u # t /\ pc[u] \in {"rested", "pop"}
                         /\ pc[u] = "closed" => u # t
  BY <1>0, <1>2 DEF Serves, Unrested, AtBook, WantsBook, InBook
<1>11. DatesInv'
  <2>1. \A u \in Threads : /\ pc'[u] = "roll" <=> pc[u] = "roll"
                           /\ pc'[u] = "reset" <=> pc[u] = "reset"
    BY <1>0, <1>2
  <2> QED BY <1>1, <1>6, <2>1 DEF DatesInv
<1>12. BooksInv'
  <2>1. \A c \in Books : resting[c] = {} => resting'[c] = {}
    BY <1>0, <1>3
  <2> QED BY <1>1, <1>6, <2>1 DEF BooksInv
<1>13. IdsInv'
  <2>1. \A x \in Orders : Untouched(x) => x # o
    BY <1>0, <1>3 DEF Untouched
  <2>2. \A x \in Orders : Untouched(x) => Untouched(x)'
    BY <1>1, <1>2, <1>3, <2>1 DEF Untouched
  <2>3. \A u \in Threads : Unrested(u)' => Untouched(loc[u].id)'
    <3> SUFFICES ASSUME NEW u \in Threads, Unrested(u)' PROVE Untouched(loc[u].id)'
      OBVIOUS
    <3>1. loc'[u].id = loc[u].id /\ Untouched(loc[u].id) /\ loc[u].id \in Orders
      BY <1>0, <1>6 DEF IdsInv, Unrested, Serves
    <3> QED BY <1>1, <1>2, <1>3, <2>1, <3>1 DEF Untouched
  <2> QED BY <1>1, <1>6, <2>2, <2>3 DEF IdsInv
<1>14. PlacesInv'
  <2>1. \A u \in Threads, r \in Symbols :
          Serves(u, "cancel")' /\ AtBook(u)' /\ RestsIn(loc[u].id, r)' => loc'[u].book = books'[r]
    <3> SUFFICES ASSUME NEW u \in Threads, NEW r \in Symbols, Serves(u, "cancel")', AtBook(u)',
                        RestsIn(loc[u].id, r)'
                 PROVE  loc'[u].book = books'[r]
      OBVIOUS
    <3>1. Serves(u, "cancel") /\ AtBook(u) /\ loc[u].id \in Orders /\ loc'[u].id = loc[u].id
      BY <1>0, <1>6 DEF Serves
    <3>2. RestsIn(loc[u].id, r)
      BY <1>1, <1>3, <3>1 DEF RestsIn, SharedOK, Books
    <3> QED BY <1>1, <1>6, <3>1, <3>2 DEF PlacesInv
  <2>2. \A u \in Threads, r \in Symbols : pc'[u] = "pop" => ~RestsIn(loc[u].id, r)'
    <3> SUFFICES ASSUME NEW u \in Threads, NEW r \in Symbols, pc'[u] = "pop", RestsIn(loc[u].id, r)'
                 PROVE  FALSE
      OBVIOUS
    <3>1. pc[u] = "pop" /\ loc'[u] = loc[u]
      BY <1>2, <1>6
    <3>2. books[r] \in Books /\ books[r] # 0 /\ loc[u].id \in resting'[books[r]]
      BY <1>1, <3>1 DEF RestsIn, SharedOK, Books
    <3>3. loc[u].id \in resting[books[r]]
      BY <1>3, <3>2
    <3> QED BY <3>1, <3>2, <3>3 DEF PlacesInv, RestsIn
  <2>3. \A u \in Threads : pc'[u] = "closed" => \A c \in Books : loc'[u].closing \notin resting'[c]
    <3> SUFFICES ASSUME NEW u \in Threads, pc'[u] = "closed", NEW c \in Books
                 PROVE  loc'[u].closing \notin resting'[c]
      OBVIOUS
    <3>1. CASE u = t
      BY <1>2, <1>3, <3>1
    <3>2. CASE u # t
      BY <1>2, <1>3, <3>2 DEF PlacesInv
    <3> QED BY <3>1, <3>2
  <2>4. \A u \in Threads : pc'[u] = "rested" => loc'[u].id \in resting'[loc'[u].book]
    <3> SUFFICES ASSUME NEW u \in Threads, pc'[u] = "rested"
                 PROVE  loc'[u].id \in resting'[loc'[u].book]
      OBVIOUS
    <3>1. u # t /\ pc[u] = "rested" /\ loc'[u] = loc[u] /\ loc[u].book # B
      BY <1>2, <1>4, <1>6 DEF InBook
    <3>2. loc[u].id \in resting[loc[u].book] /\ loc[u].book \in Books
      BY <1>0, <3>1 DEF PlacesInv
    <3> QED BY <1>0, <1>3, <3>1, <3>2 DEF PlacesInv
  <2>5. \A x \in Orders, c, d \in Books : x \in resting'[c] /\ x \in resting'[d] => c = d
    BY <1>0, <1>3 DEF PlacesInv
  <2> QED BY <2>1, <2>2, <2>3, <2>4, <2>5 DEF PlacesInv
<1>15. SymbolsInv'
  BY <1>1, <1>5, <1>6 DEF SymbolsInv
<1>16. MapInv'
  <2>1. ASSUME NEW x \in Orders, NEW r \in Symbols, RestsIn(x, r)
        PROVE  \/ orderSymbols[x] = r
               \/ \E u \in Threads : pc'[u] = "rested" /\ loc'[u].book = books[r] /\ loc'[u].id = x
    BY <1>0, <1>2, <2>1 DEF MapInv
  <2>2. ASSUME NEW x \in Orders, orderSymbols[x] # NoSymbol
        PROVE  \/ RestsIn(x, orderSymbols[x])'
               \/ \E u \in Threads : \/ pc'[u] = "closed" /\ loc'[u].closing = x
                                     \/ pc'[u] = "pop" /\ loc'[u].id = x
    <3>1. CASE x = o
      BY <1>2, <3>1
    <3>2. CASE x # o /\ RestsIn(x, orderSymbols[x])
      <4>1. orderSymbols[x] \in Symbols
        BY <2>2 DEF SharedOK
      <4> QED BY <1>1, <1>3, <3>2, <4>1 DEF RestsIn, SharedOK, Books
    <3>3. CASE ~RestsIn(x, orderSymbols[x])
      BY <1>0, <1>2, <2>2, <3>3 DEF MapInv
    <3> QED BY <3>1, <3>2, <3>3
  <2> QED BY <1>1, <1>5, <2>1, <2>2 DEF MapInv
<1>17. SessionInv'
  BY <1>1, <1>5 DEF SessionInv
<1>18. GoneStaysGone'
  <2>1. \A x \in reportedGone, r \in Symbols : ~RestsIn(x, r)'
    BY <1>5 DEF GoneStaysGone, RestsIn, SharedOK
  <2> QED BY <1>1, <2>1 DEF GoneStaysGone, RestsIn
<1> QED BY <1>11, <1>12, <1>13, <1>14, <1>15, <1>16, <1>17, <1>18

\* The map loses an order that rests in no current book, and the thread that
\* held it back for that moves on: the three ways are a callback of a book, a
\* cancel of an order that was there, and one of an order that was not.
LEMMA ForgetStep ==
    ASSUME Inv, NEW t \in Threads, NEW o \in Orders,
           UNCHANGED <<day, issued, symbolOf, born, made, resting, books, activeDate, known>>,
           orderSymbols' = [orderSymbols EXCEPT ![o] = NoSymbol],
           reportedGone' \in {reportedGone, reportedGone \cup {o}},
           reportedGone' \subseteq known,
           \A s \in Symbols : ~RestsIn(o, s),
           \/ pc[t] = "closed" /\ o = loc[t].closing
           \/ pc[t] = "pop" /\ o = loc[t].id,
           \A u \in Threads \ {t} : pc'[u] = pc[u] /\ loc'[u] = loc[u],
           pc'[t] \notin {"rested", "closed", "pop", "roll", "reset"},
           \/ /\ loc'[t] = loc[t]
              /\ AtBook(t)' => AtBook(t)
              /\ Unrested(t)' => Unrested(t)
           \/ pc'[t] = "idle" /\ loc'[t] = NoLocals
    PROVE  DataInv'
<1> USE DEF Inv, ServiceInv, DataInv, TypeInv
<1>0. /\ loc \in [Threads -> Locals] /\ issued \in Nat /\ day \in Nat
      /\ orderSymbols \in [Orders -> Symbols \cup {NoSymbol}]
      /\ \A u \in Threads : loc[u].kind \in {"create", "cancel", "depth"} => loc[u].id \in Orders
  BY ServiceAssumption DEF SharedOK, ThreadsOK, LocalOK
<1>1. /\ orderSymbols'[o] = NoSymbol
      /\ \A x \in Orders : x # o => orderSymbols'[x] = orderSymbols[x]
  BY <1>0
<1>2. \A x \in Orders, s \in Symbols : RestsIn(x, s)' <=> RestsIn(x, s)
  BY DEF RestsIn
<1>3. \A u \in Threads : /\ Serves(u, "create")' => Serves(u, "create") /\ loc'[u] = loc[u]
                         /\ Serves(u, "cancel")' => Serves(u, "cancel") /\ loc'[u] = loc[u]
                         /\ loc'[u].kind = "depth" => loc[u].kind = "depth" /\ loc'[u].id = loc[u].id
                         /\ Unrested(u)' => Unrested(u)
                         /\ AtBook(u)' => AtBook(u) /\ loc'[u] = loc[u]
                         /\ loc'[u].id \in {loc[u].id, 0} /\ loc'[u].date \in {loc[u].date, 0}
  BY DEF Serves, Unrested, AtBook, NoLocals, WantsBook, InBook
<1>4. \A u \in Threads : /\ pc'[u] \in {"rested", "closed", "pop", "roll", "reset"}
                              => pc'[u] = pc[u] /\ loc'[u] = loc[u]
                         /\ pc[u] \in {"closed", "pop"} => u = t \/ (pc'[u] = pc[u] /\ loc'[u] = loc[u])
                         /\ pc[u] = "rested" => pc'[u] = pc[u] /\ loc'[u] = loc[u]
  OBVIOUS
<1>11. DatesInv'
  <2>1. \A u \in Threads : Serves(u, "create") /\ pc[u] = "roll" => u # t
    OBVIOUS
  <2> QED BY <1>0, <1>3, <1>4, <2>1 DEF DatesInv
<1>12. BooksInv'
  BY <1>3 DEF BooksInv
<1>13. IdsInv'
  <2>1. \A x \in Orders : Untouched(x) => Untouched(x)'
    BY <1>1, <1>4 DEF Untouched
  <2>2. \A u \in Threads : Unrested(u)' => Untouched(loc[u].id)'
    <3> SUFFICES ASSUME NEW u \in Threads, Unrested(u)' PROVE Untouched(loc[u].id)'
      OBVIOUS
    <3>1. loc'[u].id = loc[u].id /\ Untouched(loc[u].id) /\ loc[u].id \in Orders
      BY <1>0, <1>3 DEF IdsInv, Unrested, Serves
    <3> QED BY <1>1, <1>4, <3>1 DEF Untouched
  <2>3. \A u \in Threads : loc'[u].id <= issued
    BY <1>0, <1>3 DEF IdsInv
  <2>4. \A u, v \in Threads : u # v /\ Serves(u, "create")' /\ loc'[v].kind \in {"create", "depth"}
                                => loc'[u].id # loc'[v].id
    BY <1>3 DEF IdsInv, Serves
  <2> QED BY <1>3, <2>1, <2>2, <2>3, <2>4 DEF IdsInv
<1>14. PlacesInv'
  <2>1. \A u \in Threads, s \in Symbols :
          Serves(u, "cancel")' /\ AtBook(u)' /\ RestsIn(loc[u].id, s)' => loc'[u].book = books'[s]
    BY <1>3 DEF PlacesInv, RestsIn
  <2>2. \A u \in Threads, s \in Symbols : pc'[u] = "pop" => ~RestsIn(loc[u].id, s)'
    BY <1>4 DEF PlacesInv, RestsIn
  <2>3. \A u \in Threads : pc'[u] = "closed" => \A c \in Books : loc'[u].closing \notin resting[c]
    BY <1>4 DEF PlacesInv
  <2>4. \A u \in Threads : pc'[u] = "rested" => loc'[u].id \in resting[loc'[u].book]
    BY <1>4 DEF PlacesInv
  <2> QED BY <2>1, <2>2, <2>3, <2>4 DEF PlacesInv
<1>15. SymbolsInv'
  BY <1>0, <1>1, <1>2, <1>3 DEF SymbolsInv
<1>16. MapInv'
  <2>1. ASSUME NEW x \in Orders, NEW s \in Symbols, RestsIn(x, s)
        PROVE  \/ orderSymbols'[x] = s
               \/ \E u \in Threads : pc'[u] = "rested" /\ loc'[u].book = books[s] /\ loc'[u].id = x
    BY <1>1, <1>4, <2>1 DEF MapInv
  <2>2. ASSUME NEW x \in Orders, orderSymbols'[x] # NoSymbol
        PROVE  \/ RestsIn(x, orderSymbols[x])'
               \/ \E u \in Threads : \/ pc'[u] = "closed" /\ loc'[u].closing = x
                                     \/ pc'[u] = "pop" /\ loc'[u].id = x
    <3>1. x # o /\ orderSymbols'[x] = orderSymbols[x]
      BY <1>1, <2>2
    <3>2. CASE RestsIn(x, orderSymbols[x])
      BY <3>1, <3>2 DEF RestsIn
    <3>3. CASE ~RestsIn(x, orderSymbols[x])
      <4>1. PICK u \in Threads : \/ pc[u] = "closed" /\ loc[u].closing = x
                                 \/ pc[u] = "pop" /\ loc[u].id = x
        BY <2>2, <3>1, <3>3 DEF MapInv
      <4> QED BY <1>4, <3>1, <4>1
    <3> QED BY <3>2, <3>3
  <2> QED BY <1>2, <2>1, <2>2 DEF MapInv
<1>17. SessionInv'
  BY <1>2 DEF SessionInv
<1>18. GoneStaysGone'
  BY DEF GoneStaysGone, RestsIn
<1> QED BY <1>11, <1>12, <1>13, <1>14, <1>15, <1>16, <1>17, <1>18

\* _order_closed and the second half of a cancel.
LEMMA DataForget ==
    ASSUME Inv, NEW t \in Threads, OrderClosed(t) \/ Pop(t)
    PROVE  DataInv'
<1>0. /\ pc \in [Threads -> Labels] /\ loc \in [Threads -> Locals] /\ LocalOK(pc[t], loc[t])
  BY DEF Inv, TypeInv, ThreadsOK
<1>1. reportedGone \subseteq known /\ (Serves(t, "cancel") => loc[t].id \in known)
  BY DEF Inv, ServiceInv, DataInv, IdsInv
<1>2. /\ pc[t] = "pop" => \A s \in Symbols : ~RestsIn(loc[t].id, s)
      /\ pc[t] = "closed" => \A s \in Symbols : ~RestsIn(loc[t].closing, s)
  <2>1. \A s \in Symbols : books[s] # 0 => books[s] \in Books
    BY DEF Inv, TypeInv, SharedOK, Books
  <2> QED BY <2>1 DEF Inv, ServiceInv, DataInv, PlacesInv, RestsIn
<1>3. CASE OrderClosed(t)
  <2>1. /\ pc[t] = "closed" /\ loc[t].closing \in Orders /\ loc[t].back \in {"expire", "match"}
        /\ loc[t].back = "match" => loc[t].kind = "create"
    BY <1>0, <1>3 DEF OrderClosed, InReg, LocalOK, Locals
  <2>2. pc'[t] = loc[t].back /\ loc' = loc /\ \A u \in Threads \ {t} : pc'[u] = pc[u]
    BY <1>0, <1>3 DEF OrderClosed, Goto
  <2>3. (AtBook(t)' => AtBook(t)) /\ (Unrested(t)' => Unrested(t))
    BY <2>1, <2>2 DEF AtBook, Unrested, Serves, InBook
  <2> QED BY <1>0, <1>1, <1>2, <1>3, <2>1, <2>2, <2>3, ForgetStep
          DEF OrderClosed, clock, history, bookVars, clientVars
<1>4. CASE Pop(t)
  <2>1. pc[t] = "pop" /\ loc[t].kind = "cancel" /\ loc[t].id \in Orders
    BY <1>0, <1>4 DEF Pop, InReg, LocalOK
  <2>2. loc[t].id \in known
    BY <1>1, <2>1 DEF Serves
  <2>3. /\ \/ pc'[t] = "depth" /\ loc' = loc
           \/ pc'[t] = "idle" /\ loc'[t] = NoLocals
        /\ \A u \in Threads \ {t} : pc'[u] = pc[u] /\ loc'[u] = loc[u]
    BY <1>0, <1>4 DEF Pop, Answer, Goto
  <2>4. pc'[t] = "depth" => ~AtBook(t)' /\ (loc' = loc => ~Unrested(t)')
    BY <2>1 DEF AtBook, Unrested, Serves, InBook, WantsBook
  <2>5. /\ UNCHANGED <<day, issued, symbolOf, born, made, resting, books, activeDate, known>>
        /\ orderSymbols' = [orderSymbols EXCEPT ![loc[t].id] = NoSymbol]
        /\ reportedGone' = reportedGone \cup {loc[t].id}
    BY <1>4 DEF Pop, clock, history, bookVars
  <2> QED BY <1>1, <1>2, <2>1, <2>2, <2>3, <2>4, <2>5, ForgetStep
<1> QED BY <1>3, <1>4

\* What is left of a new order rests in the book it was submitted to, which is
\* still the current one; nobody else has met it.
LEMMA DataRest ==
    ASSUME Inv, NEW t \in Threads, RestOrder(t)
    PROVE  DataInv'
<1> DEFINE o == loc[t].id
           s == loc[t].symbol
           B == loc[t].book
<1> USE DEF Inv, ServiceInv, DataInv, TypeInv
<1>0. /\ pc \in [Threads -> Labels] /\ loc \in [Threads -> Locals] /\ B \in Books /\ B # 0
      /\ o \in Orders /\ s \in Symbols /\ loc[t].kind = "create" /\ pc[t] = "match"
      /\ resting \in [Books -> SUBSET Orders] /\ day \in Nat \ {0}
  <2>1. pc[t] = "match" /\ LocalOK(pc[t], loc[t])
    BY DEF RestOrder, ThreadsOK
  <2>2. B \in Books /\ B # 0 /\ o \in Orders /\ s \in Symbols /\ loc[t].kind = "create"
    BY <2>1 DEF LocalOK, InBook, Books
  <2> QED BY <2>1, <2>2 DEF SharedOK, ThreadsOK
<1>a. \A u \in Threads : /\ pc[u] = "pop" => loc[u].kind = "cancel"
                         /\ loc[u].kind \in {"create", "cancel"} => loc[u].id \in Orders
  BY DEF ThreadsOK, LocalOK
<1>1. UNCHANGED <<day, issued, symbolOf, born, made, books, orderSymbols, activeDate, known, reportedGone, loc>>
  BY DEF RestOrder, clock, history, regVars, clientVars
<1>2. pc'[t] = "rested" /\ \A u \in Threads : u # t => pc'[u] = pc[u]
  BY <1>0 DEF RestOrder, Goto
<1>3. \A c \in Books : \A x : x \in resting'[c] <=> x \in resting[c] \/ (c = B /\ x = o)
  BY <1>0 DEF RestOrder
<1>4. Serves(t, "create") /\ AtBook(t) /\ Unrested(t)
  BY <1>0 DEF Serves, AtBook, Unrested, InBook
<1>5. /\ Untouched(o) /\ books[s] = B /\ o \notin known /\ o <= issued /\ s = symbolOf[o]
      /\ \A r \in Symbols : books[r] = B => r = s
  BY <1>0, <1>4 DEF IdsInv, BooksInv, SymbolsInv
<1>6. \A u \in Threads : /\ pc'[u] \in {"closed", "pop"} <=> pc[u] \in {"closed", "pop"}
                         /\ pc'[u] \in {"closed", "pop"} => pc'[u] = pc[u]
                         /\ pc[u] = "rested" => pc'[u] = "rested"
                         /\ pc'[u] = "rested" => u = t \/ pc[u] = "rested"
                         /\ AtBook(u)' <=> AtBook(u)
                         /\ Serves(u, "create")' <=> Serves(u, "create")
                         /\ Serves(u, "cancel")' <=> Serves(u, "cancel")
                         /\ Unrested(u)' => Unrested(u) /\ u # t
  BY <1>0, <1>1, <1>2 DEF AtBook, Serves, Unrested, InBook
<1>7. \A r \in Symbols : books[r] # 0 => books[r] \in Books
  BY DEF SharedOK, Books
<1>8. \A x \in Orders, r \in Symbols : RestsIn(x, r)' <=> RestsIn(x, r) \/ (x = o /\ r = s)
  BY <1>0, <1>1, <1>3, <1>5, <1>7 DEF RestsIn
<1>9. \A u \in Threads : Serves(u, "cancel") => loc[u].id # o /\ loc[u].id \in Orders
  BY <1>5, <1>a DEF IdsInv, Serves
<1>11. DatesInv'
  <2>1. \A u \in Threads : /\ pc'[u] = "roll" <=> pc[u] = "roll"
                           /\ pc'[u] = "reset" <=> pc[u] = "reset"
    BY <1>0, <1>2
  <2> QED BY <1>1, <1>6, <2>1 DEF DatesInv
<1>12. BooksInv'
  <2>1. \A c \in Books : c > made => resting'[c] = {}
    <3>1. B <= made /\ made \in Nat
      BY <1>0, <1>4, ServiceAssumption DEF BooksInv, SharedOK
    <3> QED BY <1>0, <1>3, <3>1 DEF BooksInv, Books
  <2> QED BY <1>1, <1>6, <2>1 DEF BooksInv
<1>13. IdsInv'
  <2>1. \A x \in Orders : x # o /\ Untouched(x) => Untouched(x)'
    BY <1>1, <1>3, <1>6 DEF Untouched
  <2>2. \A x \in Orders : x > issued => Untouched(x)'
    BY <1>5, <2>1, ServiceAssumption DEF IdsInv, Orders, SharedOK
  <2>3. \A u \in Threads : Unrested(u)' => Untouched(loc[u].id)'
    <3> SUFFICES ASSUME NEW u \in Threads, Unrested(u)' PROVE Untouched(loc[u].id)'
      OBVIOUS
    <3>1. u # t /\ Unrested(u) /\ Serves(u, "create") /\ loc[u].kind = "create"
      BY <1>6 DEF Unrested, Serves
    <3>2. loc[u].id # o /\ loc[u].id \in Orders /\ Untouched(loc[u].id)
      BY <1>0, <1>4, <1>a, <3>1 DEF IdsInv
    <3> QED BY <1>1, <1>3, <1>6, <3>2 DEF Untouched
  <2> QED BY <1>1, <1>6, <2>2, <2>3 DEF IdsInv
<1>14. PlacesInv'
  <2>1. \A u \in Threads, r \in Symbols :
          Serves(u, "cancel")' /\ AtBook(u)' /\ RestsIn(loc[u].id, r)' => loc'[u].book = books'[r]
    <3> SUFFICES ASSUME NEW u \in Threads, NEW r \in Symbols, Serves(u, "cancel")', AtBook(u)',
                        RestsIn(loc[u].id, r)'
                 PROVE  loc'[u].book = books'[r]
      OBVIOUS
    <3>1. Serves(u, "cancel") /\ AtBook(u) /\ loc[u].id \in Orders /\ loc[u].id # o
      BY <1>6, <1>9
    <3>2. RestsIn(loc[u].id, r)
      BY <1>1, <1>3, <1>7, <3>1 DEF RestsIn
    <3> QED BY <1>1, <3>1, <3>2 DEF PlacesInv
  <2>2. \A u \in Threads, r \in Symbols : pc'[u] = "pop" => ~RestsIn(loc[u].id, r)'
    <3> SUFFICES ASSUME NEW u \in Threads, NEW r \in Symbols, pc'[u] = "pop", RestsIn(loc[u].id, r)'
                 PROVE  FALSE
      OBVIOUS
    <3>1. pc[u] = "pop" /\ loc[u].id # o
      BY <1>6, <1>9, <1>a DEF Serves
    <3>2. books[r] \in Books /\ books[r] # 0 /\ loc[u].id \in resting'[books[r]]
      BY <1>1, <1>7 DEF RestsIn
    <3>3. loc[u].id \in resting[books[r]]
      BY <1>3, <3>1, <3>2
    <3> QED BY <3>1, <3>2, <3>3 DEF PlacesInv, RestsIn
  <2>3. \A u \in Threads : pc'[u] = "closed" => \A c \in Books : loc'[u].closing \notin resting'[c]
    <3> SUFFICES ASSUME NEW u \in Threads, pc'[u] = "closed", NEW c \in Books
                 PROVE  loc'[u].closing \notin resting'[c]
      OBVIOUS
    <3>1. pc[u] = "closed" /\ loc[u].closing # o
      BY <1>5, <1>6 DEF Untouched
    <3> QED BY <1>1, <1>3, <3>1 DEF PlacesInv
  <2>4. \A u \in Threads : pc'[u] = "rested" => loc'[u].id \in resting'[loc'[u].book]
    <3> SUFFICES ASSUME NEW u \in Threads, pc'[u] = "rested"
                 PROVE  loc'[u].id \in resting'[loc'[u].book]
      OBVIOUS
    <3>1. CASE u = t
      BY <1>0, <1>1, <1>3, <3>1
    <3>2. CASE u # t
      <4>1. pc[u] = "rested" /\ loc[u].id \in resting[loc[u].book]
        BY <1>6, <3>2 DEF PlacesInv
      <4>2. loc[u].book \in Books
        BY <4>1 DEF ThreadsOK, LocalOK, InBook
      <4> QED BY <1>1, <1>3, <4>1, <4>2
    <3> QED BY <3>1, <3>2
  <2>5. \A x \in Orders, c, d \in Books : x \in resting'[c] /\ x \in resting'[d] => c = d
    BY <1>3, <1>5 DEF PlacesInv, Untouched
  <2> QED BY <2>1, <2>2, <2>3, <2>4, <2>5 DEF PlacesInv
<1>15. SymbolsInv'
  BY <1>1, <1>5, <1>6, <1>8 DEF SymbolsInv
<1>16. MapInv'
  <2>1. ASSUME NEW x \in Orders, NEW r \in Symbols, RestsIn(x, r) \/ (x = o /\ r = s)
        PROVE  \/ orderSymbols[x] = r
               \/ \E u \in Threads : pc'[u] = "rested" /\ loc[u].book = books[r] /\ loc[u].id = x
    <3>1. CASE x = o /\ r = s
      BY <1>2, <1>5, <3>1
    <3>2. CASE RestsIn(x, r)
      BY <1>6, <3>2 DEF MapInv
    <3> QED BY <2>1, <3>1, <3>2
  <2>2. ASSUME NEW x \in Orders, orderSymbols[x] # NoSymbol
        PROVE  \/ RestsIn(x, orderSymbols[x])'
               \/ \E u \in Threads : \/ pc'[u] = "closed" /\ loc[u].closing = x
                                     \/ pc'[u] = "pop" /\ loc[u].id = x
    <3>1. CASE RestsIn(x, orderSymbols[x])
      <4>1. orderSymbols[x] \in Symbols
        BY <2>2 DEF SharedOK
      <4> QED BY <1>1, <1>3, <1>7, <3>1, <4>1 DEF RestsIn
    <3>2. CASE ~RestsIn(x, orderSymbols[x])
      <4>1. PICK u \in Threads : \/ pc[u] = "closed" /\ loc[u].closing = x
                                 \/ pc[u] = "pop" /\ loc[u].id = x
        BY <2>2, <3>2 DEF MapInv
      <4> QED BY <1>6, <4>1, <1>0, <1>2
    <3> QED BY <3>1, <3>2
  <2> QED BY <1>1, <1>8, <2>1, <2>2 DEF MapInv
<1>17. SessionInv'
  <2>1. MarketMode = "scheduled" => born[o] = activeDate /\ activeDate # 0
    BY <1>0, <1>4 DEF DatesInv
  <2> QED BY <1>1, <1>8, <2>1 DEF SessionInv
<1>18. GoneStaysGone'
  <2>1. \A x \in reportedGone, r \in Symbols : ~RestsIn(x, r)'
    BY <1>5, <1>8 DEF GoneStaysGone, RestsIn, SharedOK, IdsInv
  <2> QED BY <1>1, <2>1 DEF GoneStaysGone, RestsIn
<1> QED BY <1>11, <1>12, <1>13, <1>14, <1>15, <1>16, <1>17, <1>18

\* _order_rested: the map learns of an order that rests in the current book of
\* the symbol it is entered under.
LEMMA DataRested ==
    ASSUME Inv, NEW t \in Threads, OrderRested(t)
    PROVE  DataInv'
<1> DEFINE o == loc[t].id
           s == loc[t].symbol
<1> USE DEF Inv, ServiceInv, DataInv, TypeInv
<1>0. /\ pc \in [Threads -> Labels] /\ loc \in [Threads -> Locals]
      /\ o \in Orders /\ s \in Symbols /\ loc[t].kind = "create" /\ pc[t] = "rested"
      /\ orderSymbols \in [Orders -> Symbols \cup {NoSymbol}]
      /\ loc[t].book \in Books /\ loc[t].book # 0
  <2>1. pc[t] = "rested" /\ LocalOK(pc[t], loc[t])
    BY DEF OrderRested, InReg, ThreadsOK
  <2>2. o \in Orders /\ s \in Symbols /\ loc[t].kind = "create" /\ loc[t].book \in Books
    BY <2>1 DEF LocalOK, InBook
  <2> QED BY <2>1, <2>2 DEF SharedOK, ThreadsOK, Books
<1>1. /\ UNCHANGED <<day, issued, symbolOf, born, made, resting, books, activeDate, known, reportedGone, loc>>
      /\ orderSymbols'[o] = s /\ \A x \in Orders : x # o => orderSymbols'[x] = orderSymbols[x]
  BY <1>0 DEF OrderRested, clock, history, bookVars, clientVars
<1>2. pc'[t] = "leave" /\ \A u \in Threads : u # t => pc'[u] = pc[u]
  BY <1>0 DEF OrderRested, Goto
<1>3. Serves(t, "create") /\ AtBook(t)
  BY <1>0 DEF Serves, AtBook, InBook
<1>4. RestsIn(o, s) /\ symbolOf[o] = s /\ o \in resting[loc[t].book]
  BY <1>0, <1>3 DEF RestsIn, BooksInv, PlacesInv, SymbolsInv
<1>5. \A u \in Threads : /\ Serves(u, "create")' <=> Serves(u, "create")
                         /\ Serves(u, "cancel")' <=> Serves(u, "cancel")
                         /\ Unrested(u)' => Unrested(u)
                         /\ AtBook(u)' <=> AtBook(u)
                         /\ pc[u] \in {"closed", "pop", "roll", "reset"} <=> pc'[u] \in {"closed", "pop", "roll", "reset"}
                         /\ pc[u] \in {"closed", "pop", "roll", "reset"} => pc'[u] = pc[u]
                         /\ pc'[u] = "rested" => pc[u] = "rested"
                         /\ pc[u] = "rested" => u = t \/ pc'[u] = "rested"
  BY <1>0, <1>1, <1>2 DEF Serves, Unrested, AtBook, InBook, WantsBook
<1>6. \A x \in Orders, r \in Symbols : RestsIn(x, r)' <=> RestsIn(x, r)
  BY <1>1 DEF RestsIn
<1>11. DatesInv'
  BY <1>1, <1>5 DEF DatesInv
<1>12. BooksInv'
  BY <1>1, <1>5 DEF BooksInv
<1>13. IdsInv'
  <2>1. \A x \in Orders : Untouched(x) => x # o
    BY <1>0, <1>4 DEF Untouched
  <2>2. \A x \in Orders : Untouched(x) => Untouched(x)'
    BY <1>1, <1>5, <2>1 DEF Untouched
  <2>3. \A u \in Threads : Unrested(u)' => Untouched(loc[u].id)'
    <3> SUFFICES ASSUME NEW u \in Threads, Unrested(u)' PROVE Untouched(loc[u].id)'
      OBVIOUS
    <3>1. Untouched(loc[u].id) /\ loc[u].id \in Orders
      BY <1>5 DEF IdsInv, Unrested, Serves, ThreadsOK, LocalOK
    <3> QED BY <1>1, <1>5, <2>1, <3>1 DEF Untouched
  <2> QED BY <1>1, <1>5, <2>2, <2>3 DEF IdsInv
<1>14. PlacesInv'
  <2>1. \A u \in Threads, r \in Symbols :
          Serves(u, "cancel")' /\ AtBook(u)' /\ RestsIn(loc[u].id, r)' => loc'[u].book = books'[r]
    BY <1>1, <1>5 DEF PlacesInv, RestsIn
  <2>2. \A u \in Threads, r \in Symbols : pc'[u] = "pop" => ~RestsIn(loc[u].id, r)'
    BY <1>1, <1>5 DEF PlacesInv, RestsIn
  <2>3. \A u \in Threads : pc'[u] = "closed" => \A b \in Books : loc'[u].closing \notin resting[b]
    BY <1>1, <1>5 DEF PlacesInv
  <2>4. \A u \in Threads : pc'[u] = "rested" => loc'[u].id \in resting[loc'[u].book]
    BY <1>1, <1>5 DEF PlacesInv
  <2> QED BY <1>1, <2>1, <2>2, <2>3, <2>4 DEF PlacesInv
<1>15. SymbolsInv'
  BY <1>0, <1>1, <1>4, <1>5, <1>6 DEF SymbolsInv
<1>16. MapInv'
  <2>1. ASSUME NEW x \in Orders, NEW r \in Symbols, RestsIn(x, r)
        PROVE  \/ orderSymbols'[x] = r
               \/ \E u \in Threads : pc'[u] = "rested" /\ loc[u].book = books[r] /\ loc[u].id = x
    <3>1. CASE x = o
      BY <1>1, <1>4, <2>1, <3>1 DEF SymbolsInv
    <3>2. CASE x # o
      BY <1>1, <1>5, <2>1, <3>2 DEF MapInv
    <3> QED BY <3>1, <3>2
  <2>2. ASSUME NEW x \in Orders, orderSymbols'[x] # NoSymbol
        PROVE  \/ RestsIn(x, orderSymbols'[x])
               \/ \E u \in Threads : \/ pc'[u] = "closed" /\ loc[u].closing = x
                                     \/ pc'[u] = "pop" /\ loc[u].id = x
    <3>1. CASE x = o
      BY <1>1, <1>4, <3>1
    <3>2. CASE x # o
      <4>1. orderSymbols'[x] = orderSymbols[x]
        BY <1>1, <3>2
      <4>2. CASE RestsIn(x, orderSymbols[x])
        BY <4>1, <4>2
      <4>3. CASE ~RestsIn(x, orderSymbols[x])
        <5>1. PICK u \in Threads : \/ pc[u] = "closed" /\ loc[u].closing = x
                                   \/ pc[u] = "pop" /\ loc[u].id = x
          BY <2>2, <4>1, <4>3 DEF MapInv
        <5> QED BY <1>5, <5>1
      <4> QED BY <4>2, <4>3
    <3> QED BY <3>1, <3>2
  <2>3. \A x \in Orders : RestsIn(x, orderSymbols'[x]) => RestsIn(x, orderSymbols[x])'
    BY <1>1 DEF RestsIn
  <2> QED BY <1>1, <1>6, <2>1, <2>2, <2>3 DEF MapInv
<1>17. SessionInv' /\ GoneStaysGone'
  BY <1>1, <1>6 DEF SessionInv, GoneStaysGone
<1> QED BY <1>11, <1>12, <1>13, <1>14, <1>15, <1>16, <1>17

\* A cancel takes its order out of the book, which is the one it rests in if it
\* rests in a current one.
LEMMA DataCancel ==
    ASSUME Inv, NEW t \in Threads, CancelInBook(t)
    PROVE  DataInv'
<1> DEFINE o == loc[t].id
           B == loc[t].book
<1> USE DEF Inv, ServiceInv, DataInv, TypeInv
<1>0. /\ pc \in [Threads -> Labels] /\ loc \in [Threads -> Locals] /\ B \in Books
      /\ o \in Orders /\ loc[t].kind = "cancel" /\ pc[t] = "cancel"
      /\ resting \in [Books -> SUBSET Orders]
  <2>1. pc[t] = "cancel" /\ LocalOK(pc[t], loc[t])
    BY DEF CancelInBook, ThreadsOK
  <2>2. B \in Books /\ o \in Orders /\ loc[t].kind = "cancel"
    BY <2>1 DEF LocalOK, InBook
  <2> QED BY <2>1, <2>2 DEF SharedOK, ThreadsOK
<1>a. \A u \in Threads : /\ loc[u].kind \in {"create", "cancel"} => loc[u].id \in Orders
                         /\ pc[u] \in InBook => loc[u].book \in Books
                         /\ pc[u] = "pop" => loc[u].id \in Orders
  BY DEF ThreadsOK, LocalOK
<1>1. UNCHANGED <<day, issued, symbolOf, born, made, books, orderSymbols, activeDate, known, reportedGone>>
  BY DEF CancelInBook, clock, history, regVars, clientVars
<1>2. /\ pc'[t] = "pop"
      /\ loc'[t].kind = "cancel" /\ loc'[t].id = o /\ loc'[t].symbol = loc[t].symbol
      /\ loc'[t].date = loc[t].date /\ loc'[t].book = B
      /\ \A u \in Threads : u # t => pc'[u] = pc[u] /\ loc'[u] = loc[u]
  BY <1>0 DEF CancelInBook, Goto, Locals
<1>3. /\ o \notin resting'[B]
      /\ \A c \in Books : resting'[c] \subseteq resting[c]
      /\ \A c \in Books : \A x : c # B \/ x # o => (x \in resting'[c] <=> x \in resting[c])
  BY <1>0 DEF CancelInBook
<1>4. \A u \in Threads : u # t /\ pc[u] \in InBook => loc[u].book # B
  BY <1>0 DEF HoldsLock, InBook
<1>5. Serves(t, "cancel") /\ AtBook(t) /\ o \in known
  BY <1>0 DEF Serves, AtBook, InBook, IdsInv
<1>6. \A r \in Symbols : books[r] # 0 => books[r] \in Books
  BY DEF SharedOK, Books
<1>7. \A x \in Orders, r \in Symbols : RestsIn(x, r)' <=> RestsIn(x, r) /\ x # o
  <2> SUFFICES ASSUME NEW x \in Orders, NEW r \in Symbols
               PROVE  RestsIn(x, r)' <=> RestsIn(x, r) /\ x # o
    OBVIOUS
  <2>1. CASE x = o
    BY <1>0, <1>1, <1>3, <1>5, <1>6, <2>1 DEF RestsIn, PlacesInv
  <2>2. CASE x # o
    BY <1>1, <1>3, <1>6, <2>2 DEF RestsIn
  <2> QED BY <2>1, <2>2
<1>8. \A u \in Threads : /\ loc'[u].id = loc[u].id /\ loc'[u].symbol = loc[u].symbol
                         /\ loc'[u].date = loc[u].date /\ loc'[u].book = loc[u].book
                         /\ loc'[u].kind = loc[u].kind
                         /\ Serves(u, "create")' <=> Serves(u, "create")
                         /\ Serves(u, "cancel")' <=> Serves(u, "cancel")
                         /\ Unrested(u)' <=> Unrested(u)
                         /\ AtBook(u)' => AtBook(u)
                         /\ pc'[u] \in {"rested", "closed", "roll", "reset"} <=> pc[u] \in {"rested", "closed", "roll", "reset"}
                         /\ pc[u] \in {"rested", "closed", "roll", "reset", "pop"}
                              => u # t /\ pc'[u] = pc[u] /\ loc'[u] = loc[u]
                         /\ pc'[u] = "pop" => u = t \/ pc[u] = "pop"
  BY <1>0, <1>2 DEF Serves, Unrested, AtBook, WantsBook, InBook
<1>11. DatesInv'
  BY <1>1, <1>8 DEF DatesInv
<1>12. BooksInv'
  <2>1. \A c \in Books : resting[c] = {} => resting'[c] = {}
    BY <1>3
  <2> QED BY <1>1, <1>8, <2>1 DEF BooksInv
<1>13. IdsInv'
  <2>1. \A x \in Orders : Untouched(x) => Untouched(x)'
    BY <1>1, <1>3, <1>8 DEF Untouched
  <2>2. \A u \in Threads : Unrested(u)' => Untouched(loc[u].id)'
    <3> SUFFICES ASSUME NEW u \in Threads, Unrested(u)' PROVE Untouched(loc[u].id)'
      OBVIOUS
    <3>1. loc'[u].id = loc[u].id /\ Untouched(loc[u].id) /\ loc[u].id \in Orders
      BY <1>8, <1>a DEF IdsInv, Unrested, Serves
    <3> QED BY <1>1, <1>3, <1>8, <3>1 DEF Untouched
  <2> QED BY <1>1, <1>8, <2>1, <2>2 DEF IdsInv
<1>14. PlacesInv'
  <2>1. \A u \in Threads, r \in Symbols :
          Serves(u, "cancel")' /\ AtBook(u)' /\ RestsIn(loc[u].id, r)' => loc'[u].book = books'[r]
    <3> SUFFICES ASSUME NEW u \in Threads, NEW r \in Symbols, Serves(u, "cancel")', AtBook(u)',
                        RestsIn(loc[u].id, r)'
                 PROVE  loc'[u].book = books'[r]
      OBVIOUS
    <3>1. Serves(u, "cancel") /\ AtBook(u) /\ loc[u].id \in Orders /\ loc'[u].id = loc[u].id
      BY <1>8, <1>a DEF Serves
    <3>2. RestsIn(loc[u].id, r)
      BY <1>1, <1>3, <1>6, <3>1 DEF RestsIn
    <3> QED BY <1>1, <1>8, <3>1, <3>2 DEF PlacesInv
  <2>2. \A u \in Threads, r \in Symbols : pc'[u] = "pop" => ~RestsIn(loc[u].id, r)'
    <3> SUFFICES ASSUME NEW u \in Threads, NEW r \in Symbols, pc'[u] = "pop", RestsIn(loc[u].id, r)'
                 PROVE  FALSE
      OBVIOUS
    <3>1. books[r] # 0 /\ books[r] \in Books /\ loc[u].id \in resting'[books[r]]
      BY <1>1, <1>6, <1>8 DEF RestsIn
    <3>2. CASE u = t
      BY <1>0, <1>3, <1>5, <3>1, <3>2 DEF RestsIn, PlacesInv
    <3>3. CASE u # t
      BY <1>3, <1>8, <3>1, <3>3 DEF PlacesInv, RestsIn
    <3> QED BY <3>2, <3>3
  <2>3. \A u \in Threads : pc'[u] = "closed" => \A c \in Books : loc'[u].closing \notin resting'[c]
    BY <1>3, <1>8, <1>2 DEF PlacesInv
  <2>4. \A u \in Threads : pc'[u] = "rested" => loc'[u].id \in resting'[loc'[u].book]
    <3> SUFFICES ASSUME NEW u \in Threads, pc'[u] = "rested"
                 PROVE  loc'[u].id \in resting'[loc'[u].book]
      OBVIOUS
    <3>1. u # t /\ pc[u] = "rested" /\ loc'[u] = loc[u] /\ loc[u].book # B
      BY <1>2, <1>4 DEF InBook
    <3>2. loc[u].id \in resting[loc[u].book] /\ loc[u].book \in Books
      BY <1>a, <3>1 DEF PlacesInv, InBook
    <3> QED BY <1>3, <3>1, <3>2
  <2>5. \A x \in Orders, c, d \in Books : x \in resting'[c] /\ x \in resting'[d] => c = d
    BY <1>3 DEF PlacesInv
  <2> QED BY <2>1, <2>2, <2>3, <2>4, <2>5 DEF PlacesInv
<1>15. SymbolsInv'
  BY <1>1, <1>7, <1>8 DEF SymbolsInv
<1>16. MapInv'
  <2>1. ASSUME NEW x \in Orders, NEW r \in Symbols, RestsIn(x, r)
        PROVE  \/ orderSymbols[x] = r
               \/ \E u \in Threads : pc'[u] = "rested" /\ loc'[u].book = books[r] /\ loc'[u].id = x
    BY <1>8, <2>1 DEF MapInv
  <2>2. ASSUME NEW x \in Orders, orderSymbols[x] # NoSymbol
        PROVE  \/ RestsIn(x, orderSymbols[x])'
               \/ \E u \in Threads : \/ pc'[u] = "closed" /\ loc'[u].closing = x
                                     \/ pc'[u] = "pop" /\ loc'[u].id = x
    <3>1. CASE x = o
      BY <1>2, <3>1
    <3>2. CASE x # o /\ RestsIn(x, orderSymbols[x])
      <4>1. orderSymbols[x] \in Symbols
        BY <2>2 DEF SharedOK
      <4> QED BY <1>1, <1>3, <1>6, <3>2, <4>1 DEF RestsIn
    <3>3. CASE ~RestsIn(x, orderSymbols[x])
      BY <1>8, <2>2, <3>3 DEF MapInv
    <3> QED BY <3>1, <3>2, <3>3
  <2> QED BY <1>1, <1>7, <2>1, <2>2 DEF MapInv
<1>17. SessionInv'
  BY <1>1, <1>7 DEF SessionInv
<1>18. GoneStaysGone'
  <2>1. \A x \in reportedGone, r \in Symbols : ~RestsIn(x, r)'
    BY <1>7 DEF GoneStaysGone, RestsIn, SharedOK
  <2> QED BY <1>1, <2>1 DEF GoneStaysGone, RestsIn
<1> QED BY <1>11, <1>12, <1>13, <1>14, <1>15, <1>16, <1>17, <1>18

\* Every step of a request keeps what is known of the map, the books and the
\* sessions.
LEMMA DataRequestStep ==
    ASSUME Inv, NEW t \in Threads, Request(t) \/ Step(t)
    PROVE  DataInv'
<1>1. CASE AcquireReg(t)
  BY <1>1, DataStill DEF AcquireReg, clock, history, bookVars, clientVars
<1>2. CASE Request(t)
  BY <1>2, DataCreate, DataAsk DEF Request
<1>3. CASE Step(t) /\ ~AcquireReg(t)
  BY <1>3, DataQuietStep, DataRollover, DataGet, DataLeave, DataForget, DataRest, DataRested,
     DataCancel DEF Step
<1> QED BY <1>1, <1>2, <1>3

\* A new request is in no book; the clock moves no thread.
LEMMA HoldNext ==
    ASSUME Inv, [Next]_vars
    PROVE  HoldsLock'
<1>1. CASE UNCHANGED <<bookLock, pc, loc>>
  BY <1>1 DEF Inv, ServiceInv, HoldsLock
<1>2. ASSUME NEW t \in Threads, Request(t) PROVE HoldsLock'
  <2>0. pc \in [Threads -> Labels] /\ loc \in [Threads -> Locals]
    BY DEF Inv, TypeInv, ThreadsOK
  <2>1. /\ bookLock' = bookLock
        /\ \E kind \in {"create", "cancel", "read"} : \E o, s : Begin(t, kind, o, s)
    BY <1>2 DEF Request, CreateBegin, CancelBegin, ReadBegin, bookVars
  <2>2. pc[t] = "idle" /\ pc'[t] \in {"roll", "lookup", "get"}
          /\ \A u \in Threads \ {t} : pc'[u] = pc[u] /\ loc'[u] = loc[u]
    BY <2>0, <2>1 DEF Begin, Goto
  <2>3. pc'[t] \notin InBook
    BY <2>2 DEF InBook
  <2> QED BY <2>1, <2>2, <2>3, HoldStep
<1>3. ASSUME NEW t \in Threads, Step(t) PROVE HoldsLock'
  BY <1>3, HoldRequestStep
<1> QED BY <1>1, <1>2, <1>3 DEF Next, PassHours, PassMidnight, vars, bookVars

LEMMA DataNext ==
    ASSUME Inv, [Next]_vars
    PROVE  DataInv'
<1>1. CASE PassHours \/ PassMidnight \/ UNCHANGED vars
  BY <1>1, DataStill
     DEF PassHours, PassMidnight, vars, clock, history, bookVars, regVars, clientVars
<1>2. ASSUME NEW t \in Threads, Request(t) \/ Step(t) PROVE DataInv'
  BY <1>2, DataRequestStep
<1> QED BY <1>1, <1>2 DEF Next

\* The matcher starts with no book, no order and no request.
LEMMA DataInit == Init => ServiceInv
<1> SUFFICES ASSUME Init PROVE ServiceInv
  OBVIOUS
<1>1. \A t \in Threads : /\ pc[t] = "idle" /\ loc[t] = NoLocals
                         /\ ~AtBook(t) /\ ~Unrested(t)
                         /\ ~Serves(t, "create") /\ ~Serves(t, "cancel")
                         /\ loc[t].id = 0 /\ loc[t].date = 0 /\ loc[t].kind = "none"
  BY DEF Init, NoLocals, AtBook, Unrested, Serves, WantsBook, InBook
<1>2. \A o \in Orders : Untouched(o) /\ \A s \in Symbols : ~RestsIn(o, s)
  BY <1>1 DEF Init, Untouched, RestsIn
<1>3. HoldsLock
  BY <1>1 DEF HoldsLock, InBook
<1>4. DatesInv /\ BooksInv
  BY <1>1 DEF Init, DatesInv, BooksInv
<1>5. IdsInv /\ PlacesInv
  BY <1>1, <1>2 DEF Init, IdsInv, PlacesInv
<1>6. SymbolsInv /\ MapInv /\ SessionInv /\ GoneStaysGone
  BY <1>1, <1>2 DEF Init, SymbolsInv, MapInv, SessionInv, GoneStaysGone
<1> QED BY <1>3, <1>4, <1>5, <1>6 DEF ServiceInv, DataInv

\* With no call in a book, or none at all, there is nobody the map waits for.
LEMMA MapInvImplies == Inv => MapExact
<1> SUFFICES ASSUME Inv PROVE CancelFinds /\ MapHoldsRestingOnly
  BY DEF MapExact
<1>1. CancelFinds
  <2> SUFFICES ASSUME NEW s \in Symbols, books[s] # 0, bookLock[books[s]] = NoThread,
                      NEW o \in resting[books[s]], orderSymbols[o] # s
               PROVE  FALSE
    BY DEF CancelFinds
  <2>1. o \in Orders /\ RestsIn(o, s)
    BY DEF Inv, TypeInv, SharedOK, Books, RestsIn
  <2>2. PICK t \in Threads : pc[t] = "rested" /\ loc[t].book = books[s]
    BY <2>1 DEF Inv, ServiceInv, DataInv, MapInv
  <2>3. bookLock[books[s]] = t
    BY <2>2 DEF Inv, ServiceInv, HoldsLock, InBook
  <2> QED BY <2>3, ServiceAssumption
<1>2. MapHoldsRestingOnly
  BY DEF MapHoldsRestingOnly, Inv, ServiceInv, DataInv, MapInv, RestsIn
<1> QED BY <1>1, <1>2

\* A submit matches in the current book of its symbol, where every order is of
\* the active date, on which it runs itself.
LEMMA SessionInvImplies == Inv => SessionsApart
<1> SUFFICES ASSUME Inv, MarketMode = "scheduled", NEW t \in Threads, pc[t] = "match",
                    NEW o \in resting[loc[t].book]
             PROVE  born[o] = born[loc[t].id]
  BY DEF SessionsApart
<1>1. /\ loc[t].kind = "create" /\ loc[t].symbol \in Symbols /\ loc[t].book \in Books
      /\ loc[t].book # 0 /\ o \in Orders
  <2>1. LocalOK(pc[t], loc[t]) /\ resting \in [Books -> SUBSET Orders]
    BY DEF Inv, TypeInv, SharedOK, ThreadsOK
  <2>2. loc[t].kind = "create" /\ loc[t].symbol \in Symbols /\ loc[t].book \in Books
    BY <2>1 DEF LocalOK, InBook
  <2> QED BY <2>1, <2>2 DEF Books
<1>2. Serves(t, "create") /\ AtBook(t)
  BY <1>1 DEF Serves, AtBook, InBook
<1>3. books[loc[t].symbol] = loc[t].book
  BY <1>2 DEF Inv, ServiceInv, DataInv, BooksInv
<1>4. RestsIn(o, loc[t].symbol)
  BY <1>1, <1>3 DEF RestsIn
<1>5. born[o] = activeDate
  BY <1>1, <1>4 DEF Inv, ServiceInv, DataInv, SessionInv
<1>6. born[loc[t].id] = activeDate
  BY <1>2 DEF Inv, ServiceInv, DataInv, DatesInv
<1> QED BY <1>5, <1>6

LEMMA InvNext == Inv /\ [Next]_vars => Inv'
BY TypeNext, LockNext, HoldNext, DataNext DEF Inv, ServiceInv

LEMMA InvInit == Init => Inv
BY TypeInit, LockInit, DataInit DEF Inv

\* Whatever the number of threads, symbols, orders and days: a cancel finds
\* every order that rests in a book nobody is in, and between requests the map
\* holds no other orders (registry.py:16).
THEOREM MapIsExact == Spec => []MapExact
<1>1. Inv => MapExact
  BY MapInvImplies
<1> QED BY <1>1, InvInit, InvNext, PTL DEF Spec

\* No race of fills, expiries, other cancels and rollovers puts an order back
\* into a current book once a cancel was answered CANCELED or ALREADY_CLOSED.
THEOREM GoneForGood == Spec => []GoneStaysGone
<1>1. Inv => GoneStaysGone
  BY DEF Inv, ServiceInv, DataInv
<1> QED BY <1>1, InvInit, InvNext, PTL DEF Spec

\* In a scheduled market no order ever meets one of an earlier trading day.
THEOREM SessionsNeverMix == Spec => []SessionsApart
<1>1. Inv => SessionsApart
  BY SessionInvImplies
<1> QED BY <1>1, InvInit, InvNext, PTL DEF Spec
=============================================================================
