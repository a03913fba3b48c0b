-------------------------- MODULE EventInboxProofs --------------------------
(***************************************************************************)
(* Proofs about the market event inbox, for any number of events, runners  *)
(* and request threads, any limit of a poll, and any number of requests    *)
(* given up and of crashes; and about the import of the reference data,    *)
(* for any tickers, dates, number of importers and of rows.                *)
(***************************************************************************)
EXTENDS EventInbox, ReferenceImport, FiniteSetTheorems, TLAPS

States == {"absent", "pending", "dispatched", "stale"}
Final == {"dispatched", "stale"}
Clients == Runners \cup {Nobody}

PollStates == {"asked", "mark", "listed"}
AckStates == {"ack", "save", "ok", "conflict"}

Polls == [op : PollStates, for : Clients, asked : SUBSET Events, rows : SUBSET Events]
Acks == [op : AckStates, for : Clients, event : Events, rows : SUBSET Events]

\* The requests a runner still waits for.
Awaited(t) == thread[t] # Idle /\ thread[t].for # Nobody

Types ==
    /\ row \in [Events -> States]
    /\ old \subseteq Events /\ open \in BOOLEAN
    /\ wants \in [Runners -> SUBSET Events] /\ planned \in [Runners -> SUBSET Events]
    /\ thread \in [Threads -> {Idle} \cup Polls \cup Acks]
    /\ runner \in [Runners -> [pc : {"rest", "poll", "handle", "ack"}, todo : SUBSET Events]]
    /\ faults \in 0 .. MaxFaults /\ crashes \in 0 .. MaxCrashes
    /\ applied \subseteq Runners \X Events /\ acked \subseteq applied /\ answered \subseteq Events

\* Whatever is delivered, handled or acknowledged has a row.
Known ==
    /\ \A t \in Threads : thread[t] \in Polls => \A e \in thread[t].rows : row[e] # "absent"
    /\ \A t \in Threads : thread[t] \in Acks => row[thread[t].event] # "absent"
    /\ \A r \in Runners : \A e \in runner[r].todo : row[e] # "absent"

\* A runner is only told of events of its own symbols.
Own ==
    /\ \A t \in Threads : thread[t] \in Polls /\ Awaited(t) => thread[t].asked = wants[thread[t].for]
    /\ \A t \in Threads : thread[t] \in Polls /\ thread[t].op = "listed" => thread[t].rows \subseteq thread[t].asked
    /\ \A r \in Runners : runner[r].todo \subseteq wants[r]

\* A runner waits for one request at a time, of the kind its pc says.
OneRequest ==
    /\ \A t \in Threads : Awaited(t) =>
         runner[thread[t].for].pc = IF thread[t] \in Polls THEN "poll" ELSE "ack"
    /\ \A s, t \in Threads : Awaited(s) /\ Awaited(t) /\ thread[s].for = thread[t].for => s = t

\* An acknowledgement is of a planned event that its runner has done with, and
\* is answered only after the row has been decided.
AckSound ==
    \A t \in Threads : thread[t] \in Acks =>
        /\ \E r \in Runners : <<r, thread[t].event>> \in applied
        /\ Awaited(t) => <<thread[t].for, thread[t].event>> \in applied
        /\ Awaited(t) => thread[t].event \notin runner[thread[t].for].todo
        /\ thread[t].op = "ok" => row[thread[t].event] \in Final

\* What a runner knows to be acknowledged is neither handed to it nor on the way.
AckedDone ==
    \A r \in Runners, e \in Events : <<r, e>> \in acked =>
        /\ row[e] \in Final
        /\ e \notin runner[r].todo
        /\ \A t \in Threads : ~(/\ thread[t] \in Polls /\ Awaited(t) /\ thread[t].for = r
                                /\ thread[t].op = "listed" /\ e \in thread[t].rows)

Inv == Types /\ Known /\ Own /\ OneRequest /\ AckSound /\ AckedDone /\ DispatchedWasPlanned

-----------------------------------------------------------------------------

\* The three kinds of request state exclude each other.
LEMMA KindsApart ==
    /\ \A x \in Polls : x # Idle /\ x \notin Acks
    /\ \A x \in Acks : x # Idle /\ x \notin Polls
    /\ Idle \notin Polls /\ Idle \notin Acks
<1>1. \A x \in Polls : x.op \in PollStates
  BY DEF Polls
<1>2. \A x \in Acks : x.op \in AckStates
  BY DEF Acks
<1>3. Idle.op = "idle"
  BY DEF Idle
<1>4. "idle" \notin PollStates /\ "idle" \notin AckStates /\ PollStates \cap AckStates = {}
  BY DEF PollStates, AckStates
<1> QED BY <1>1, <1>2, <1>3, <1>4

\* An empty inbox satisfies the invariant.
LEMMA InitInv == Init => Inv
<1> SUFFICES ASSUME Init PROVE Inv
  OBVIOUS
<1>1. Types
  BY InboxAssumption DEF Init, Types, Resting, States
<1>2. \A t \in Threads : thread[t] = Idle
  BY DEF Init
<1>3. Known /\ Own /\ OneRequest
  BY <1>2, KindsApart DEF Init, Known, Own, OneRequest, Awaited, Resting
<1>4. AckSound /\ AckedDone /\ DispatchedWasPlanned
  BY <1>2, KindsApart DEF Init, AckSound, AckedDone, DispatchedWasPlanned
<1> QED BY <1>1, <1>3, <1>4 DEF Inv

-----------------------------------------------------------------------------
(* The steps *)

\* What is known of a request by its kind.
LEMMA RequestTypes ==
    ASSUME Types, NEW t \in Threads
    PROVE  /\ Awaited(t) => thread[t].for \in Runners
           /\ thread[t] \in Acks => thread[t].event \in Events
           /\ thread[t] = Idle \/ thread[t] \in Polls \/ thread[t] \in Acks
BY DEF Types, Awaited, Polls, Acks, Clients

\* Steps that leave the requests and the runners alone.
LEMMA QuietStep ==
    ASSUME Inv, (\E e \in Events : Ingest(e) \/ Age(e)) \/ TurnSession
    PROVE  Inv'
<1> USE KindsApart DEF Inv
<1>1. UNCHANGED <<wants, thread, runner, planned, applied, acked>>
  BY DEF Ingest, Age, TurnSession, historyVars
<1>2. /\ row' \in [Events -> States]
      /\ \A e \in Events : row'[e] = row[e] \/ (row[e] = "absent" /\ row'[e] = "pending")
  <2>1. CASE \E e \in Events : Ingest(e)
    BY <2>1 DEF Ingest, Types, States
  <2>2. CASE row' = row
    BY <2>2 DEF Types
  <2> QED BY <2>1, <2>2 DEF Ingest, Age, TurnSession
<1>3. UNCHANGED <<faults, crashes, answered>> /\ old' \subseteq Events /\ open' \in BOOLEAN
  BY DEF Ingest, Age, TurnSession, historyVars, Types
<1>4. Known' /\ Own' /\ OneRequest'
  BY SMTT(30), <1>1, <1>2 DEF Types, Known, Own, OneRequest, Awaited, Acks, Polls
<1>5. AckSound' /\ AckedDone' /\ DispatchedWasPlanned'
  BY <1>1, <1>2 DEF Types, AckSound, AckedDone, DispatchedWasPlanned, Awaited, Final, Acks
<1>6. Types'
  BY <1>1, <1>2, <1>3 DEF Types
<1> QED BY <1>4, <1>5, <1>6

\* The view of a poll: it reads, marks rows stale and lists.
LEMMA PollStep ==
    ASSUME Inv, NEW t \in Threads,
           SelectStale(t) \/ List(t) \/ \E e \in Events : MarkStale(t, e)
    PROVE  Inv'
<1> USE KindsApart DEF Inv
<1>0. thread[t] \in Polls
  BY DEF SelectStale, List, MarkStale, Types, Polls, Acks, Idle, PollStates, AckStates
<1>1. UNCHANGED <<old, open, wants, runner, planned, faults, crashes, applied, acked, answered>>
  BY DEF SelectStale, List, MarkStale, historyVars
<1>2. /\ row' \in [Events -> States]
      /\ \A e \in Events : row'[e] = row[e] \/ (row[e] # "absent" /\ row'[e] = "stale")
  <2>1. CASE SelectStale(t) \/ List(t)
    <3>1. row' = row
      BY <2>1 DEF SelectStale, List
    <3> QED BY <3>1 DEF Types
  <2>2. CASE \E e \in Events : MarkStale(t, e)
    <3>1. PICK e \in Events : MarkStale(t, e)
      BY <2>2
    <3>2. row[e] # "absent"
      BY <1>0, <3>1 DEF MarkStale, Known
    <3>3. row' = [row EXCEPT ![e] = "stale"]
      BY <3>1 DEF MarkStale
    <3> QED BY <3>2, <3>3 DEF Types, States
  <2> QED BY <2>1, <2>2
<1>3. /\ thread' = [thread EXCEPT ![t] = thread'[t]]
      /\ thread'[t] \in Polls /\ thread'[t].for = thread[t].for /\ thread'[t].asked = thread[t].asked
      /\ \A e \in thread'[t].rows : row[e] # "absent"
      /\ thread'[t].op = "listed" => thread'[t].rows \subseteq thread[t].asked \cap Pending
  <2>1. CASE SelectStale(t)
    BY <1>0, <2>1 DEF SelectStale, Types, Polls, PollStates, Polling, Cutoff, Pending
  <2>2. CASE List(t)
    BY <1>0, <2>2 DEF List, Types, Polls, PollStates, Polling, Deliverable, First, Pending
  <2>3. CASE \E e \in Events : MarkStale(t, e)
    <3>1. PICK e \in Events : MarkStale(t, e)
      BY <2>3
    <3>2. thread' = [thread EXCEPT ![t].rows = @ \ {e}] /\ thread[t].op = "mark"
      BY <3>1 DEF MarkStale
    <3>3. thread'[t] = [thread[t] EXCEPT !.rows = @ \ {e}]
      BY <3>2 DEF Types
    <3>4. /\ thread'[t] \in Polls /\ thread'[t].op = "mark" /\ thread'[t].rows \subseteq thread[t].rows
          /\ thread'[t].for = thread[t].for /\ thread'[t].asked = thread[t].asked
      BY <1>0, <3>2, <3>3 DEF Polls
    <3>5. thread' = [thread EXCEPT ![t] = thread'[t]]
      BY <3>2, <3>3 DEF Types
    <3> QED BY <1>0, <3>4, <3>5 DEF Known
  <2> QED BY <2>1, <2>2, <2>3
<1>4. /\ \A s \in Threads : s # t => thread'[s] = thread[s]
      /\ \A s \in Threads : thread'[s] \in Acks => thread[s] \in Acks /\ thread'[s] = thread[s]
      /\ \A s \in Threads : thread'[s] \in Polls <=> thread[s] \in Polls
      /\ \A s \in Threads : thread'[s] # Idle => thread'[s].for = thread[s].for /\ thread[s] # Idle
  BY <1>0, <1>3 DEF Types
<1>5. Types'
  BY <1>1, <1>2, <1>3 DEF Types
<1>6. Known' /\ Own' /\ OneRequest'
  <2>1. Known'
    <3>1. \A e \in Events : row[e] # "absent" => row'[e] # "absent"
      BY <1>2
    <3>2. \A s \in Threads : thread'[s] \in Polls => \A e \in thread'[s].rows : row'[e] # "absent"
      <4> SUFFICES ASSUME NEW s \in Threads, thread'[s] \in Polls, NEW e \in thread'[s].rows
                   PROVE  row'[e] # "absent"
        OBVIOUS
      <4>1. e \in Events
        BY DEF Polls
      <4>2. row[e] # "absent"
        BY <1>3, <1>4 DEF Known
      <4> QED BY <3>1, <4>1, <4>2
    <3>3. \A s \in Threads : thread'[s] \in Acks => row'[thread'[s].event] # "absent"
      BY <1>4, <3>1 DEF Known, Acks
    <3>4. \A r \in Runners : \A e \in runner'[r].todo : row'[e] # "absent"
      BY <1>1, <3>1 DEF Types, Known
    <3> QED BY <3>2, <3>3, <3>4 DEF Known
  <2>2. Own'
    BY <1>0, <1>1, <1>3, <1>4 DEF Types, Own, Awaited
  <2>3. OneRequest'
    BY <1>0, <1>1, <1>3, <1>4 DEF Types, OneRequest, Awaited
  <2> QED BY <2>1, <2>2, <2>3
<1>7. AckSound'
  BY <1>1, <1>2, <1>4 DEF Types, AckSound, Awaited, Final, Acks
<1>8. AckedDone'
  BY <1>0, <1>1, <1>2, <1>3, <1>4 DEF Types, AckedDone, Awaited, Final, Pending
<1>9. DispatchedWasPlanned'
  BY <1>1, <1>2 DEF DispatchedWasPlanned
<1> QED BY <1>5, <1>6, <1>7, <1>8, <1>9

\* A runner polls.
LEMMA PollBegins ==
    ASSUME Inv, NEW r \in Runners, NEW t \in Threads, Poll(r, t)
    PROVE  Inv'
<1> USE KindsApart DEF Inv
<1>1. UNCHANGED <<row, old, open, wants, planned, faults, crashes, applied, acked, answered>>
  BY DEF Poll, historyVars
<1>2. /\ thread[t] = Idle /\ runner[r].pc = "rest"
      /\ thread' = [thread EXCEPT ![t] = Polling("asked", r, wants[r], {})]
      /\ runner' = [runner EXCEPT ![r] = [pc |-> "poll", todo |-> {}]]
  BY DEF Poll
<1>3. /\ thread'[t] = Polling("asked", r, wants[r], {}) /\ thread'[t] \in Polls
      /\ thread'[t].for = r /\ thread'[t].asked = wants[r] /\ thread'[t].rows = {} /\ thread'[t].op = "asked"
      /\ \A s \in Threads : s # t => thread'[s] = thread[s]
      /\ runner'[r].pc = "poll" /\ runner'[r].todo = {}
      /\ \A q \in Runners : q # r => runner'[q] = runner[q]
  BY <1>2 DEF Types, Polling, Polls, PollStates, Clients
<1>4. \A s \in Threads : Awaited(s) => thread[s].for # r
  BY <1>2 DEF OneRequest
<1>5. Types'
  BY <1>1, <1>2, <1>3 DEF Types
<1>6. Known'
  BY SMTT(30), <1>1, <1>3 DEF Types, Known
<1>7. Own'
  BY <1>1, <1>3 DEF Types, Own, Awaited
<1>8. OneRequest'
  <2>1. \A s \in Threads \ {t} : Awaited(s)' <=> Awaited(s)
    BY <1>3 DEF Awaited
  <2>2. \A s \in Threads \ {t} : Awaited(s) => runner'[thread[s].for] = runner[thread[s].for]
    BY <1>3, <1>4, RequestTypes
  <2> QED BY <1>3, <1>4, <2>1, <2>2 DEF OneRequest
<1>9. AckSound'
  <2>1. \A s \in Threads : thread'[s] \in Acks => s # t /\ thread'[s] = thread[s] /\ thread[s] \in Acks
    BY <1>3
  <2>2. \A s \in Threads \ {t} : Awaited(s)' <=> Awaited(s)
    BY <1>3 DEF Awaited
  <2>3. \A s \in Threads \ {t} : Awaited(s) => runner'[thread[s].for] = runner[thread[s].for]
    BY <1>3, <1>4, RequestTypes
  <2> QED BY <1>1, <2>1, <2>2, <2>3 DEF AckSound
<1>10. AckedDone'
  <2>1. \A q \in Runners : runner'[q].todo \subseteq runner[q].todo
    BY <1>3
  <2>2. \A s \in Threads \ {t} : thread'[s] = thread[s] /\ (Awaited(s)' => Awaited(s))
    BY <1>3, <1>4 DEF Awaited
  <2>3. thread'[t] \in Polls => thread'[t].op # "listed"
    BY <1>3
  <2> QED BY <1>1, <2>1, <2>2, <2>3 DEF AckedDone
<1>11. DispatchedWasPlanned'
  BY <1>1 DEF DispatchedWasPlanned
<1> QED BY <1>5, <1>6, <1>7, <1>8, <1>9, <1>10, <1>11

\* The poll is answered, to the runner if it still waits.
LEMMA PollEnds ==
    ASSUME Inv, NEW t \in Threads, PollAnswered(t)
    PROVE  Inv'
<1> USE KindsApart DEF Inv
<1>0. thread[t] \in Polls /\ thread[t].op = "listed"
  BY DEF PollAnswered, Types, Polls, Acks, Idle, PollStates, AckStates
<1>1. UNCHANGED <<row, old, open, wants, planned, faults, crashes, applied, acked, answered>>
  BY DEF PollAnswered, historyVars
<1>2. /\ thread' = [thread EXCEPT ![t] = Idle]
      /\ thread'[t] = Idle
      /\ \A s \in Threads : s # t => thread'[s] = thread[s]
      /\ \A s \in Threads : thread'[s] # Idle => s # t /\ thread'[s] = thread[s]
  BY DEF PollAnswered, Types
<1>3. \A s \in Threads : Awaited(s)' <=> Awaited(s) /\ s # t
  BY <1>0, <1>2 DEF Awaited
<1>4. CASE ~Awaited(t)
  <2>1. runner' = runner
    BY <1>0, <1>4 DEF PollAnswered, Awaited
  <2>2. Types'
    BY <1>1, <1>2, <2>1 DEF Types
  <2>3. Known' /\ Own' /\ OneRequest'
    BY <1>1, <1>2, <1>3, <2>1 DEF Known, Own, OneRequest
  <2>4. AckSound' /\ AckedDone' /\ DispatchedWasPlanned'
    BY <1>1, <1>2, <1>3, <2>1 DEF AckSound, AckedDone, DispatchedWasPlanned
  <2> QED BY <2>2, <2>3, <2>4
<1>5. CASE Awaited(t)
  <2> DEFINE r == thread[t].for
  <2>1. r \in Runners
    BY <1>5, RequestTypes
  <2>2. /\ runner' = [runner EXCEPT ![r] = Handling(thread[t].rows)]
        /\ runner'[r].pc = "handle" /\ runner'[r].todo = thread[t].rows
        /\ \A q \in Runners : q # r => runner'[q] = runner[q]
    BY <1>0, <1>5, <2>1 DEF PollAnswered, Awaited, Handling, Types
  <2>3. \A s \in Threads : Awaited(s)' => /\ s # t /\ thread'[s] = thread[s] /\ Awaited(s) /\ thread[s].for # r
                                          /\ runner'[thread[s].for] = runner[thread[s].for]
    BY <1>2, <1>3, <1>5, <2>2, RequestTypes DEF OneRequest
  <2>4. thread[t].rows \subseteq Events /\ thread[t].rows \subseteq wants[r]
    BY <1>0, <1>5 DEF Own, Polls
  <2>5. Types'
    BY <1>1, <1>2, <2>1, <2>2, <2>4 DEF Types, Handling
  <2>6. Known'
    BY <1>0, <1>1, <1>2, <2>2 DEF Known
  <2>7. Own'
    BY <1>1, <1>2, <2>2, <2>3, <2>4 DEF Own
  <2>8. OneRequest'
    BY <2>3 DEF OneRequest
  <2>9. AckSound'
    BY <1>1, <1>2, <2>3 DEF AckSound
  <2>10. AckedDone'
    BY <1>0, <1>1, <1>2, <1>5, <2>2, <2>3 DEF AckedDone
  <2>11. DispatchedWasPlanned'
    BY <1>1 DEF DispatchedWasPlanned
  <2> QED BY <2>5, <2>6, <2>7, <2>8, <2>9, <2>10, <2>11
<1> QED BY <1>4, <1>5

\* A runner plans an event and sends the acknowledgement.
LEMMA ApplyStep ==
    ASSUME Inv, NEW r \in Runners, NEW t \in Threads, Apply(r, t)
    PROVE  Inv'
<1> USE KindsApart DEF Inv
<1>1. UNCHANGED <<row, old, open, wants, faults, crashes, acked, answered>> /\ thread[t] = Idle /\ runner[r].pc = "handle"
  BY DEF Apply
<1>2. PICK e \in runner[r].todo :
         /\ planned' = [planned EXCEPT ![r] = @ \cup {e}]
         /\ applied' = applied \cup {<<r, e>>}
         /\ runner' = [runner EXCEPT ![r] = [pc |-> "ack", todo |-> @.todo \ {e}]]
         /\ thread' = [thread EXCEPT ![t] = [op |-> "ack", for |-> r, event |-> e, rows |-> {}]]
  BY DEF Apply
<1>3. e \in Events /\ row[e] # "absent" /\ runner[r].todo \subseteq Events
  BY DEF Types, Known
<1>4. /\ runner'[r].pc = "ack" /\ runner'[r].todo = runner[r].todo \ {e}
      /\ \A q \in Runners : q # r => runner'[q] = runner[q]
      /\ \A q \in Runners : runner'[q].todo \subseteq runner[q].todo
  BY <1>2 DEF Types
<1>5. /\ thread'[t] \in Acks /\ thread'[t].for = r /\ thread'[t].event = e /\ thread'[t].op = "ack"
      /\ \A s \in Threads : s # t => thread'[s] = thread[s]
  BY <1>2, <1>3 DEF Types, Acks, AckStates, Clients
<1>6. \A s \in Threads : Awaited(s) => thread[s].for # r
  BY <1>1 DEF OneRequest
<1>7. \A s \in Threads \ {t} : /\ Awaited(s)' <=> Awaited(s)
                               /\ Awaited(s) => runner'[thread[s].for] = runner[thread[s].for]
  BY <1>4, <1>5, <1>6, RequestTypes DEF Awaited
<1>8. Types'
  <2>1. thread' \in [Threads -> {Idle} \cup Polls \cup Acks]
    BY <1>2, <1>5 DEF Types
  <2>2. /\ planned' \in [Runners -> SUBSET Events] /\ applied' \subseteq Runners \X Events /\ acked' \subseteq applied'
        /\ runner' \in [Runners -> [pc : {"rest", "poll", "handle", "ack"}, todo : SUBSET Events]]
    BY <1>1, <1>2, <1>3 DEF Types
  <2> QED BY <1>1, <2>1, <2>2 DEF Types
<1>9. Known'
  BY <1>1, <1>3, <1>4, <1>5 DEF Known
<1>10. Own'
  BY <1>1, <1>4, <1>5, <1>7 DEF Own
<1>11. OneRequest'
  BY <1>4, <1>5, <1>6, <1>7 DEF OneRequest
<1>12. AckSound'
  BY <1>1, <1>2, <1>4, <1>5, <1>7 DEF AckSound
<1>13. AckedDone'
  BY <1>1, <1>4, <1>5, <1>7 DEF AckedDone
<1>14. DispatchedWasPlanned'
  BY <1>1, <1>2 DEF DispatchedWasPlanned
<1> QED BY <1>8, <1>9, <1>10, <1>11, <1>12, <1>13, <1>14

\* A runner drops an event it cannot apply, or ends its tick.
LEMMA HandleStep ==
    ASSUME Inv, NEW r \in Runners, ApplyRaises(r) \/ TickEnds(r)
    PROVE  Inv'
<1> USE KindsApart DEF Inv
<1>1. UNCHANGED <<row, old, open, thread, wants, planned, faults, crashes, applied, acked, answered>> /\ runner[r].pc = "handle"
  BY DEF ApplyRaises, TickEnds, serverVars, historyVars
<1>2. /\ runner' \in [Runners -> [pc : {"rest", "poll", "handle", "ack"}, todo : SUBSET Events]]
      /\ \A q \in Runners : runner'[q].todo \subseteq runner[q].todo
      /\ \A q \in Runners : q # r => runner'[q] = runner[q]
  <2>1. CASE ApplyRaises(r)
    BY <2>1 DEF ApplyRaises, Types
  <2>2. CASE TickEnds(r)
    BY <2>2 DEF TickEnds, Types, Resting
  <2> QED BY <2>1, <2>2
<1>3. \A s \in Threads : /\ Awaited(s)' <=> Awaited(s)
                         /\ Awaited(s) => runner'[thread[s].for] = runner[thread[s].for]
  BY <1>1, <1>2, RequestTypes DEF Awaited, OneRequest
<1>4. Types'
  BY <1>1, <1>2 DEF Types
<1>5. Known' /\ Own' /\ OneRequest'
  BY <1>1, <1>2, <1>3 DEF Known, Own, OneRequest
<1>6. AckSound' /\ AckedDone' /\ DispatchedWasPlanned'
  BY <1>1, <1>2, <1>3 DEF AckSound, AckedDone, DispatchedWasPlanned
<1> QED BY <1>4, <1>5, <1>6

\* The view of an acknowledgement reads the row and saves it.
LEMMA AckStep ==
    ASSUME Inv, NEW t \in Threads, AckRead(t) \/ AckSave(t)
    PROVE  Inv'
<1> USE KindsApart DEF Inv
<1>0. thread[t] \in Acks
  BY DEF AckRead, AckSave, Types, Polls, Acks, Idle, PollStates, AckStates
<1> DEFINE e == thread[t].event
<1>1. UNCHANGED <<old, open, wants, runner, planned, faults, crashes, applied, acked, answered>>
  BY DEF AckRead, AckSave, historyVars
<1>2. e \in Events /\ row[e] \in States /\ row[e] # "absent" /\ \E q \in Runners : <<q, e>> \in applied
  BY <1>0, RequestTypes DEF Types, Known, AckSound
<1>3. /\ row' \in [Events -> States]
      /\ \A d \in Events : row'[d] = row[d] \/ (d = e /\ row'[d] = "dispatched")
  <2>1. CASE AckRead(t)
    BY <2>1 DEF AckRead, Types
  <2>2. CASE AckSave(t)
    BY <1>2, <2>2 DEF AckSave, Saved, Types, States
  <2> QED BY <2>1, <2>2
<1>4. /\ thread' = [thread EXCEPT ![t] = thread'[t]]
      /\ thread'[t] \in Acks /\ thread'[t].for = thread[t].for /\ thread'[t].event = e
      /\ thread'[t].op = "ok" => row'[e] \in Final
  <2>1. CASE AckRead(t)
    <3> DEFINE op == CASE row[e] = "pending" -> "save"
                       [] row[e] = "dispatched" -> "ok"
                       [] row[e] = "stale" -> "conflict"
    <3>1. thread' = [thread EXCEPT ![t].op = op] /\ row' = row
      BY <2>1 DEF AckRead
    <3>2. op \in AckStates /\ (op = "ok" => row[e] = "dispatched")
      BY <1>2 DEF States, AckStates
    <3> HIDE DEF op
    <3> QED BY <1>0, <3>1, <3>2 DEF Types, Acks, Final
  <2>2. CASE AckSave(t)
    <3>1. row'[e] = "dispatched"
      BY <1>2, <2>2 DEF AckSave, Saved, Types
    <3>2. thread' = [thread EXCEPT ![t].op = "ok"]
      BY <2>2 DEF AckSave
    <3> QED BY <1>0, <3>1, <3>2 DEF Types, Acks, AckStates, Final
  <2> QED BY <2>1, <2>2
<1>5. /\ \A s \in Threads : s # t => thread'[s] = thread[s]
      /\ \A s \in Threads : Awaited(s)' <=> Awaited(s)
      /\ \A s \in Threads : thread'[s] \in Polls => s # t
      /\ \A s \in Threads : thread'[s] \in Acks => thread[s] \in Acks /\ thread'[s].event = thread[s].event
      /\ \A s \in Threads : Awaited(s) => thread'[s].for = thread[s].for /\ (thread'[s] \in Polls <=> thread[s] \in Polls)
  <2>1. \A s \in Threads : s # t => thread'[s] = thread[s]
    BY <1>4 DEF Types
  <2> QED BY <1>0, <1>4, <2>1 DEF Awaited
<1>6. Types'
  BY <1>1, <1>3, <1>4 DEF Types
<1>7. Known'
  BY <1>1, <1>2, <1>3, <1>4, <1>5, RequestTypes DEF Known, Types, Polls
<1>8. Own' /\ OneRequest'
  BY <1>1, <1>5 DEF Own, OneRequest
<1>9. AckSound'
  <2> SUFFICES ASSUME NEW s \in Threads, thread'[s] \in Acks
               PROVE  /\ \E r \in Runners : <<r, thread[s].event>> \in applied
                      /\ Awaited(s) => <<thread[s].for, thread[s].event>> \in applied
                      /\ Awaited(s) => thread[s].event \notin runner[thread[s].for].todo
                      /\ thread'[s].op = "ok" => row'[thread[s].event] \in Final
    BY <1>1, <1>5 DEF AckSound
  <2>1. thread[s] \in Acks /\ thread[s].event \in Events
    BY <1>5, RequestTypes
  <2>2. thread'[s].op = "ok" => row'[thread[s].event] \in Final
    BY <1>3, <1>4, <1>5, <2>1 DEF AckSound, Final
  <2> QED BY <2>1, <2>2 DEF AckSound
<1>10. AckedDone'
  BY <1>1, <1>3, <1>5 DEF AckedDone, Final
<1>11. DispatchedWasPlanned'
  BY <1>1, <1>2, <1>3 DEF DispatchedWasPlanned
<1> QED BY <1>6, <1>7, <1>8, <1>9, <1>10, <1>11

\* The acknowledgement is answered, to the runner if it still waits.
LEMMA AckEnds ==
    ASSUME Inv, NEW t \in Threads, AckAnswered(t)
    PROVE  Inv'
<1> USE KindsApart DEF Inv
<1>0. thread[t] \in Acks
  BY DEF AckAnswered, Types, Polls, Acks, Idle, PollStates, AckStates
<1> DEFINE r == thread[t].for
           e == thread[t].event
<1>1. UNCHANGED <<row, old, open, wants, planned, faults, crashes, applied>> /\ e \in Events
  BY <1>0, RequestTypes DEF AckAnswered
<1>2. /\ thread' = [thread EXCEPT ![t] = Idle]
      /\ thread'[t] = Idle
      /\ \A s \in Threads : s # t => thread'[s] = thread[s]
      /\ \A s \in Threads : thread'[s] # Idle => s # t /\ thread'[s] = thread[s]
  BY DEF AckAnswered, Types
<1>3. \A s \in Threads : Awaited(s)' <=> Awaited(s) /\ s # t
  BY <1>0, <1>2 DEF Awaited
<1>4. answered' \subseteq Events
  BY <1>1 DEF AckAnswered, Types
<1>5. CASE ~Awaited(t)
  <2>1. runner' = runner /\ acked' = acked
    BY <1>0, <1>5 DEF AckAnswered, Awaited
  <2>2. Types'
    BY <1>1, <1>2, <1>4, <2>1 DEF Types
  <2>3. Known' /\ Own' /\ OneRequest'
    BY <1>1, <1>2, <1>3, <2>1 DEF Known, Own, OneRequest
  <2>4. AckSound' /\ AckedDone' /\ DispatchedWasPlanned'
    BY <1>1, <1>2, <1>3, <2>1 DEF AckSound, AckedDone, DispatchedWasPlanned
  <2> QED BY <2>2, <2>3, <2>4
<1>6. CASE Awaited(t)
  <2>1. r \in Runners /\ r # Nobody
    BY <1>6, RequestTypes DEF Awaited
  <2>2. /\ runner' = [runner EXCEPT ![r] = Handling(@.todo)]
        /\ runner'[r].pc = "handle" /\ runner'[r].todo = runner[r].todo
        /\ \A q \in Runners : q # r => runner'[q] = runner[q]
    BY <2>1 DEF AckAnswered, Handling, Types
  <2>3. acked' = acked \/ (acked' = acked \cup {<<r, e>>} /\ row[e] \in Final)
    BY <1>0, <2>1 DEF AckAnswered, AckSound
  <2>4. \A s \in Threads : Awaited(s)' => /\ s # t /\ thread'[s] = thread[s] /\ Awaited(s) /\ thread[s].for # r
                                          /\ runner'[thread[s].for] = runner[thread[s].for]
    BY <1>2, <1>3, <1>6, <2>2, RequestTypes DEF OneRequest
  <2>5. <<r, e>> \in applied /\ e \notin runner[r].todo
    BY <1>0, <1>6 DEF AckSound
  <2>6. Types'
    <3>1. runner' \in [Runners -> [pc : {"rest", "poll", "handle", "ack"}, todo : SUBSET Events]]
      BY <2>1, <2>2 DEF Types, Handling
    <3>2. acked' \subseteq applied'
      BY <1>1, <2>3, <2>5 DEF Types
    <3> QED BY <1>1, <1>2, <1>4, <3>1, <3>2 DEF Types
  <2>7. Known' /\ Own' /\ OneRequest'
    BY <1>1, <1>2, <2>2, <2>4 DEF Known, Own, OneRequest
  <2>8. AckSound'
    BY <1>1, <1>2, <2>4 DEF AckSound
  <2>9. AckedDone'
    BY <1>1, <1>2, <2>2, <2>3, <2>4, <2>5 DEF AckedDone
  <2>10. DispatchedWasPlanned'
    BY <1>1 DEF DispatchedWasPlanned
  <2> QED BY <2>6, <2>7, <2>8, <2>9, <2>10
<1> QED BY <1>5, <1>6

\* A runner gives up on its request, or dies and starts again: what it had sent
\* is served for nobody.
LEMMA FaultStep ==
    ASSUME Inv, NEW r \in Runners, GiveUp(r) \/ Crash(r)
    PROVE  Inv'
<1> USE KindsApart DEF Inv
<1>1. UNCHANGED <<row, old, open, wants, applied, acked, answered>> /\ thread' = Orphaned(r)
  BY DEF GiveUp, Crash, historyVars
<1>2. /\ runner' \in [Runners -> [pc : {"rest", "poll", "handle", "ack"}, todo : SUBSET Events]]
      /\ \A q \in Runners : q # r => runner'[q] = runner[q]
      /\ \A q \in Runners : runner'[q].todo \subseteq runner[q].todo
  <2>1. CASE GiveUp(r)
    BY <2>1 DEF GiveUp, Types, Handling
  <2>2. CASE Crash(r)
    BY <2>2 DEF Crash, Types, Resting
  <2> QED BY <2>1, <2>2
<1>3. planned' \in [Runners -> SUBSET Events] /\ faults' \in 0 .. MaxFaults /\ crashes' \in 0 .. MaxCrashes
  BY InboxAssumption DEF GiveUp, Crash, Types
<1>4. \A s \in Threads :
         \/ thread'[s] = thread[s] /\ (thread[s] # Idle => thread[s].for # r)
         \/ /\ thread[s] # Idle /\ thread[s].for = r
            /\ thread'[s] = [thread[s] EXCEPT !.for = Nobody]
  BY <1>1 DEF Orphaned
<1>5. \A s \in Threads : thread[s] \in Polls => /\ thread'[s] \in Polls /\ thread'[s].op = thread[s].op
                                                 /\ thread'[s].rows = thread[s].rows /\ thread'[s].asked = thread[s].asked
  BY ZenonT(30), <1>4 DEF Polls, Clients
<1>6. \A s \in Threads : thread[s] \in Acks => /\ thread'[s] \in Acks /\ thread'[s].op = thread[s].op
                                                /\ thread'[s].event = thread[s].event
  BY ZenonT(30), <1>4 DEF Acks, Clients
<1>7. \A s \in Threads : thread[s] = Idle => thread'[s] = Idle
  BY <1>4
<1>8. \A s \in Threads : /\ thread'[s] \in Polls => thread[s] \in Polls
                         /\ thread'[s] \in Acks => thread[s] \in Acks
  BY <1>5, <1>6, <1>7, RequestTypes
<1>9. \A s \in Threads : Awaited(s)' => /\ thread'[s] = thread[s] /\ Awaited(s)
                                        /\ runner'[thread[s].for] = runner[thread[s].for]
  <2> SUFFICES ASSUME NEW s \in Threads, Awaited(s)'
               PROVE  /\ thread'[s] = thread[s] /\ Awaited(s)
                      /\ runner'[thread[s].for] = runner[thread[s].for]
    OBVIOUS
  <2>1. CASE thread'[s] = thread[s] /\ (thread[s] # Idle => thread[s].for # r)
    BY <1>2, <2>1, RequestTypes DEF Awaited
  <2>2. CASE thread[s] # Idle /\ thread'[s] = [thread[s] EXCEPT !.for = Nobody]
    <3>1. thread'[s].for = Nobody
      BY <2>2, RequestTypes DEF Polls, Acks
    <3> QED BY <3>1 DEF Awaited
  <2> QED BY <1>4, <2>1, <2>2
<1>10. Types'
  <2>1. thread' \in [Threads -> {Idle} \cup Polls \cup Acks]
    <3>1. thread' = [s \in Threads |-> thread'[s]]
      BY <1>1 DEF Orphaned
    <3>2. \A s \in Threads : thread'[s] \in {Idle} \cup Polls \cup Acks
      BY <1>5, <1>6, <1>7, RequestTypes
    <3> QED BY <3>1, <3>2
  <2> QED BY <1>1, <1>2, <1>3, <2>1 DEF Types
<1>11. Known' /\ Own'
  BY <1>1, <1>2, <1>5, <1>6, <1>8, <1>9 DEF Known, Own
<1>12. OneRequest'
  BY <1>9 DEF OneRequest
<1>13. AckSound'
  BY ZenonT(30), <1>1, <1>6, <1>8, <1>9 DEF AckSound
<1>14. AckedDone' /\ DispatchedWasPlanned'
  BY SMTT(30), <1>1, <1>2, <1>5, <1>8, <1>9 DEF AckedDone, DispatchedWasPlanned
<1> QED BY <1>10, <1>11, <1>12, <1>13, <1>14

\* Every step keeps the invariant.
LEMMA NextInv == Inv /\ [Next]_vars => Inv'
<1> SUFFICES ASSUME Inv, [Next]_vars PROVE Inv'
  OBVIOUS
<1>1. CASE UNCHANGED vars
  BY <1>1 DEF vars, Inv, Types, Known, Own, OneRequest, AckSound, AckedDone, DispatchedWasPlanned, Awaited
<1>2. CASE Next
  BY <1>2, QuietStep, PollStep, PollBegins, PollEnds, ApplyStep, HandleStep, AckStep, AckEnds, FaultStep
     DEF Next, Serve, Run
<1> QED BY <1>1, <1>2

\* The invariant holds in every reachable state.
LEMMA Invariant == Spec => []Inv
BY InitInv, NextInv, PTL DEF Spec

-----------------------------------------------------------------------------
(* The theorems *)

\* The inbox, the views and the runners keep their types: a runner handles only
\* events of its own symbols, and every acknowledgement a runner got was of an
\* event it had planned.
THEOREM TypeCorrect == Spec => []TypeOK
<1>1. Inv => TypeOK
  <2> SUFFICES ASSUME Inv PROVE TypeOK
    OBVIOUS
  <2> USE KindsApart DEF Inv
  <2>1. \A t \in Threads :
          /\ thread[t].op \in {"idle", "asked", "mark", "listed", "ack", "save", "ok", "conflict"}
          /\ thread[t] # Idle => thread[t].for \in Runners \cup {Nobody} /\ thread[t].rows \subseteq Events
    BY DEF Types, Polls, Acks, Idle, PollStates, AckStates, Clients
  <2>2. \A r \in Runners : runner[r].pc \in {"rest", "poll", "handle", "ack"} /\ runner[r].todo \subseteq wants[r]
    BY DEF Types, Own
  <2> QED BY <2>1, <2>2 DEF Types, TypeOK, States
<1> QED BY <1>1, Invariant, PTL

\* No row says dispatched unless a runner planned the event, whatever requests
\* are given up and whatever runners crash.
THEOREM DispatchedIsPlanned == Spec => []DispatchedWasPlanned
<1>1. Inv => DispatchedWasPlanned
  BY DEF Inv
<1> QED BY <1>1, Invariant, PTL

\* An event that a runner knows to be acknowledged is never planned by it again,
\* not even by a process that was restarted with an empty memory.
THEOREM AckedStaysDone == Spec => AckedNotPlannedAgain
<1> DEFINE Again == \A r \in Runners, e \in Events :
                      <<r, e>> \in acked => ~(e \in planned'[r] /\ e \notin planned[r])
<1>1. Inv /\ [Next]_vars => [Again]_vars
  <2> SUFFICES ASSUME Inv, Next, NEW r \in Runners, NEW e \in Events, <<r, e>> \in acked,
                      e \in planned'[r], e \notin planned[r]
               PROVE  FALSE
    OBVIOUS
  <2>1. PICK q \in Runners, t \in Threads : Apply(q, t)
    <3>1. CASE \E q \in Runners : Crash(q)
      BY <3>1 DEF Crash, Inv, Types
    <3>2. CASE planned' = planned
      BY <3>2
    <3> QED BY <3>1, <3>2 DEF Next, Serve, Run, Ingest, Age, TurnSession, SelectStale, List, PollAnswered, AckRead,
               AckSave, AckAnswered, MarkStale, ApplyRaises, TickEnds, Poll, GiveUp
  <2>2. e \in runner[r].todo
    BY <2>1 DEF Apply, Inv, Types
  <2> QED BY <2>2 DEF Inv, AckedDone
<1> QED BY <1>1, Invariant, PTL DEF Spec, AckedNotPlannedAgain

\* Rows are stale, or about to be saved as stale, only for old events, and an
\* answered acknowledgement found or made a decision.
AgeInv ==
    /\ \A e \in Events : row[e] = "stale" => e \in old
    /\ \A t \in Threads : thread[t].op = "mark" => thread[t].rows \subseteq old
    /\ \A e \in answered : row[e] \in Final

\* Events never grow young again, and no step takes a decision back; only an
\* old event's row becomes stale.
LEMMA RowStep ==
    ASSUME Inv, AgeInv, Next
    PROVE  /\ old \subseteq old'
           /\ \A e \in Events : \/ row'[e] = row[e]
                                \/ row[e] = "absent" /\ row'[e] = "pending"
                                \/ row'[e] = "stale" /\ e \in old
                                \/ row'[e] = "dispatched"
<1> USE DEF Inv
<1>1. CASE \E e \in Events : Ingest(e)
  BY <1>1 DEF Ingest, Types
<1>2. CASE \E e \in Events : Age(e)
  BY <1>2 DEF Age
<1>3. CASE \E t \in Threads, e \in Events : MarkStale(t, e)
  BY <1>3 DEF MarkStale, Types, AgeInv
<1>4. CASE \E t \in Threads : AckSave(t)
  BY <1>4 DEF AckSave, Saved, Types
<1>5. CASE row' = row /\ old' = old
  BY <1>5
<1> QED
  BY <1>1, <1>2, <1>3, <1>4, <1>5
     DEF Next, Serve, Run, TurnSession, SelectStale, List, PollAnswered, AckRead, AckAnswered,
         ApplyRaises, TickEnds, Poll, Apply, GiveUp, Crash, serverVars

\* A thread that marks rows stale has selected old ones.
LEMMA MarkStep ==
    ASSUME Inv, AgeInv, Next, NEW s \in Threads, thread'[s].op = "mark"
    PROVE  thread'[s].rows \subseteq old
<1> USE KindsApart DEF Inv
<1>1. CASE thread'[s] = thread[s]
  BY <1>1 DEF AgeInv
<1>2. CASE \E t \in Threads : SelectStale(t)
  BY <1>2 DEF SelectStale, Polling, Cutoff, Types, AgeInv
<1>3. CASE \E t \in Threads, e \in Events : MarkStale(t, e)
  <2>1. PICK t \in Threads, e \in Events : MarkStale(t, e)
    BY <1>3
  <2>2. thread[t] \in Polls
    BY <2>1 DEF MarkStale, Types, Polls, Acks, Idle, PollStates, AckStates
  <2>3. thread'[t].rows = thread[t].rows \ {e} /\ (s # t => thread'[s] = thread[s])
    BY <2>1, <2>2 DEF MarkStale, Types, Polls
  <2> QED BY <2>1, <2>3 DEF MarkStale, AgeInv
<1>4. CASE \E t \in Threads : List(t) \/ PollAnswered(t)
  BY <1>4 DEF List, PollAnswered, Polling, Idle, Types, AgeInv
<1>5. CASE \E t \in Threads : AckRead(t) \/ AckSave(t) \/ AckAnswered(t)
  <2>1. PICK t \in Threads : AckRead(t) \/ AckSave(t) \/ AckAnswered(t)
    BY <1>5
  <2>2. thread[t] \in Acks /\ thread[t].event \in Events
    BY <2>1, RequestTypes DEF AckRead, AckSave, AckAnswered, Types, Polls, Acks, Idle, PollStates, AckStates
  <2>3. row[thread[t].event] \in {"pending", "dispatched", "stale"}
    BY <2>2 DEF Types, Known, States
  <2>4. s # t => thread'[s] = thread[s]
    BY <2>1 DEF AckRead, AckSave, AckAnswered, Types
  <2>5. thread'[t].op # "mark"
    <3>1. CASE AckAnswered(t)
      BY <3>1 DEF AckAnswered, Types, Idle
    <3>2. CASE AckSave(t)
      BY <2>2, <3>2 DEF AckSave, Types, Acks
    <3>3. CASE AckRead(t)
      <4> DEFINE op == CASE row[thread[t].event] = "pending" -> "save"
                         [] row[thread[t].event] = "dispatched" -> "ok"
                         [] row[thread[t].event] = "stale" -> "conflict"
      <4>1. thread' = [thread EXCEPT ![t].op = op]
        BY <3>3 DEF AckRead
      <4>2. op # "mark"
        BY <2>3
      <4> HIDE DEF op
      <4> QED BY <2>2, <4>1, <4>2 DEF Types, Acks
    <3> QED BY <2>1, <3>1, <3>2, <3>3
  <2> QED BY <1>1, <2>4, <2>5
<1>6. CASE \E r \in Runners, t \in Threads : Poll(r, t) \/ Apply(r, t)
  BY <1>1, <1>6 DEF Poll, Apply, Polling, Types
<1>7. CASE \E r \in Runners : thread' = Orphaned(r)
  <2>1. PICK r \in Runners : thread' = Orphaned(r)
    BY <1>7
  <2>2. thread'[s] = thread[s] \/ (thread[s] # Idle /\ thread'[s] = [thread[s] EXCEPT !.for = Nobody])
    BY <2>1 DEF Orphaned
  <2>3. thread[s] # Idle => /\ [thread[s] EXCEPT !.for = Nobody].op = thread[s].op
                            /\ [thread[s] EXCEPT !.for = Nobody].rows = thread[s].rows
    BY RequestTypes DEF Polls, Acks
  <2> QED BY <1>1, <2>2, <2>3 DEF AgeInv
<1>8. CASE thread' = thread
  BY <1>1, <1>8
<1> QED
  BY <1>2, <1>3, <1>4, <1>5, <1>6, <1>7, <1>8
     DEF Next, Serve, Run, Ingest, Age, TurnSession, ApplyRaises, TickEnds, GiveUp, Crash, serverVars

\* An acknowledgement is answered after the row was decided.
LEMMA AnswerStep ==
    ASSUME Inv, AgeInv, Next, NEW e \in answered'
    PROVE  e \in Events /\ row'[e] \in Final
<1> USE DEF Inv
<1>1. CASE e \in answered
  BY <1>1, RowStep DEF AgeInv, Types, Final
<1>2. CASE e \notin answered
  <2>1. PICK t \in Threads : AckAnswered(t) /\ thread[t].op = "ok" /\ e = thread[t].event
    BY <1>2 DEF Next, Serve, Run, Ingest, Age, TurnSession, SelectStale, List, PollAnswered, AckRead,
               AckSave, AckAnswered, MarkStale, ApplyRaises, TickEnds, Poll, Apply, GiveUp, Crash, historyVars
  <2>2. thread[t] \in Acks
    BY <2>1, KindsApart DEF Types, Polls, Acks, Idle, PollStates, AckStates
  <2> QED BY <2>1, <2>2, RequestTypes DEF AckAnswered, AckSound
<1> QED BY <1>1, <1>2

\* An acknowledgement that was answered lasts until its event is old: nothing
\* but the late save of a poll that selected the row as old takes it back.
THEOREM AckedStaysDispatched == Spec => []AckLastsUntilOld
<1>1. Init => AgeInv
  BY DEF Init, AgeInv, Idle
<1>2. Inv /\ AgeInv /\ [Next]_vars => AgeInv'
  <2> SUFFICES ASSUME Inv, AgeInv, [Next]_vars PROVE AgeInv'
    OBVIOUS
  <2>1. CASE UNCHANGED vars
    BY <2>1 DEF vars, AgeInv
  <2>2. CASE Next
    <3>1. \A e \in Events : row'[e] = "stale" => e \in old'
      BY <2>2, RowStep DEF AgeInv
    <3>2. \A t \in Threads : thread'[t].op = "mark" => thread'[t].rows \subseteq old'
      BY <2>2, RowStep, MarkStep
    <3>3. \A e \in answered' : row'[e] \in Final
      BY <2>2, AnswerStep
    <3> QED BY <3>1, <3>2, <3>3 DEF AgeInv
  <2> QED BY <2>1, <2>2
<1>3. Inv /\ AgeInv => AckLastsUntilOld
  BY DEF Inv, Types, AgeInv, AckLastsUntilOld, Final
<1> QED BY <1>1, <1>2, <1>3, Invariant, PTL DEF Spec

-----------------------------------------------------------------------------
(***************************************************************************)
(* The other transactions of the database: the import of the reference     *)
(* data (ReferenceImport).                                                 *)
(***************************************************************************)

Days == Dates \cup {NoDate}
Writing(p) == imp[p].at = "write"

\* TopCount different tickers.
Lists == {s \in [1 .. TopCount -> Tickers] : \A j, k \in 1 .. TopCount : s[j] = s[k] => j = k}
Listed(s) == {s[k] : k \in 1 .. TopCount}

Importer ==
    [at : {"new", "fetch", "select", "delete", "write", "done", "failed", "dead"},
     requested : Days, date : Days, attempt : 0 .. MaxAttempts, asked : 0 .. Yesterday,
     records : [Tickers -> Nat], selected : Lists \cup {<< >>}, gone : SUBSET Tickers,
     written : 0 .. TopCount]

ImportTypes ==
    /\ holidays \subseteq Dates /\ mixed \subseteq Dates
    /\ doomed \in [Importers -> SUBSET Tickers] /\ missed \subseteq Importers
    /\ imp \in [Importers -> Importer]
    /\ run \in [Importers -> [status : {"none", "running", "success", "failed"}, date : Days]]
    /\ rows \in [Dates -> [Tickers -> 0 .. TopCount]]

\* An import at work has a date and a run that is not ended; it writes only what it
\* has selected, once the DELETE is through, which spares that; and it holds rows only
\* in its transaction.
AtWork(p) ==
    /\ Busy(p) => imp[p].date \in Dates /\ run[p].status = "running"
    /\ imp[p].at \in {"delete", "write"} => imp[p].selected \in Lists
    /\ imp[p].written > 0 \/ imp[p].gone # {} \/ doomed[p] # {} => Writing(p)
    /\ imp[p].written > 0 => doomed[p] = {}
    /\ Writing(p) => Listed(imp[p].selected) \cap (imp[p].gone \cup doomed[p]) = {}

\* The search goes back one day for every holiday, from yesterday on.
Searched(p) ==
    /\ imp[p].at = "fetch" /\ imp[p].requested = NoDate =>
         imp[p].asked \in 1 .. LookbackDays /\ imp[p].date = Yesterday + 1 - imp[p].asked
    /\ Busy(p) /\ imp[p].requested = NoDate =>
         \A d \in Dates : d > imp[p].date => d \in holidays

\* Every committed row that a transaction does not select is one that its DELETE has
\* deleted or has found, unless it missed an import.
Swept(p) ==
    Writing(p) /\ p \notin missed =>
        \A t \in Tickers : rows[imp[p].date][t] # 0 =>
            t \in Listed(imp[p].selected) \cup imp[p].gone \cup doomed[p]

\* One date has no rows or every rank once.
Whole(r) == r = NoRows \/ \A k \in 1 .. TopCount : Cardinality({t \in Tickers : r[t] = k}) = 1

ImportInv ==
    /\ ImportTypes
    /\ \A p \in Importers : AtWork(p) /\ Searched(p) /\ Swept(p)
    /\ \A d \in Dates \ mixed : Whole(rows[d])
    /\ NewestDay

-----------------------------------------------------------------------------
(* The selection *)

LEMMA ImportConstants ==
    /\ Tickers \subseteq Nat \ {0} /\ IsFiniteSet(Tickers) /\ Values \subseteq Nat
    /\ TopCount \in Nat \ {0} /\ Yesterday \in Nat \ {0} /\ MaxAttempts \in Nat \ {0}
    /\ LookbackDays \in 1 .. Yesterday
BY ImportAssumption

\* Sorting is by value, then by ticker: an irreflexive total order.
LEMMA BeforeOrders ==
    ASSUME NEW records \in [Tickers -> Nat],
           NEW s \in Tickers, NEW t \in Tickers
    PROVE  /\ s # t => Before(records, s, t) \/ Before(records, t, s)
           /\ Before(records, s, t) => s # t
           /\ \A u \in Tickers : Before(records, s, t) /\ Before(records, t, u)
                                    => Before(records, s, u)
<1>1. s \in Nat /\ t \in Nat /\ records[s] \in Nat /\ records[t] \in Nat
  BY ImportConstants
<1>2. \A x, y : Before(records, x, y) <=>
                 records[x] > records[y] \/ (records[x] = records[y] /\ x < y)
  BY DEF Before
<1>3. ASSUME NEW u \in Tickers, Before(records, s, t), Before(records, t, u)
      PROVE  Before(records, s, u)
  <2>1. u \in Nat /\ records[u] \in Nat
    BY ImportConstants
  <2>2. /\ records[s] > records[t] \/ (records[s] = records[t] /\ s < t)
        /\ records[t] > records[u] \/ (records[t] = records[u] /\ t < u)
    BY <1>2, <1>3
  <2>3. records[s] > records[u] \/ (records[s] = records[u] /\ s < u)
    BY <1>1, <2>1, <2>2
  <2> QED BY <1>2, <2>3
<1>4. s # t => \/ records[s] > records[t] \/ (records[s] = records[t] /\ s < t)
               \/ records[t] > records[s] \/ (records[t] = records[s] /\ t < s)
  BY <1>1
<1>5. ~(records[s] > records[s] \/ (records[s] = records[s] /\ s < s))
  BY <1>1
<1> QED BY <1>2, <1>3, <1>4, <1>5

\* Sorting by value and ticker leaves no tie, so every place of the list has one
\* symbol: the list is in order, without repetition, and holds the best ones.
THEOREM SelectionIsTop ==
    ASSUME NEW records \in [Tickers -> Nat], NEW count \in Nat,
           count <= Cardinality(Traded(records)),
           NEW top, top = TopOf(records, count)
    PROVE  /\ top \in [1 .. count -> Traded(records)]
           /\ \A j, k \in 1 .. count : j < k => Before(records, top[j], top[k])
           /\ \A t \in Traded(records) : \A k \in 1 .. count :
                 (\A j \in 1 .. count : top[j] # t) => Before(records, top[k], t)
<1> DEFINE S == Traded(records)
           n == Cardinality(S)
           Less(s, t) == Before(records, s, t)
           Ahead(t) == {s \in S : Less(s, t)}
           f == [t \in S |-> Cardinality(Ahead(t))]
<1>1. IsFiniteSet(S) /\ n \in Nat /\ S \subseteq Tickers /\ count <= n
  <2>1. S \subseteq Tickers
    BY DEF Traded
  <2>2. IsFiniteSet(S)
    BY <2>1, ImportConstants, FS_Subset
  <2> QED BY <2>1, <2>2, FS_CardinalityType
<1>2. \A s, t \in S : s # t => Less(s, t) \/ Less(t, s)
  BY <1>1, BeforeOrders
<1>3. \A s \in S : ~Less(s, s)
  BY <1>1, BeforeOrders
<1>4. \A s, t, u \in S : Less(s, t) /\ Less(t, u) => Less(s, u)
  BY <1>1, BeforeOrders
<1>5. top = [k \in 1 .. count |-> CHOOSE t \in S : Cardinality(Ahead(t)) = k - 1]
  BY DEF TopOf
<1> HIDE DEF S, Less
<1>6. ASSUME NEW t \in S
      PROVE  IsFiniteSet(Ahead(t)) /\ f[t] = Cardinality(Ahead(t)) /\ f[t] \in 0 .. n - 1
  <2>1. Ahead(t) \subseteq S /\ t \notin Ahead(t)
    BY <1>3
  <2>2. /\ IsFiniteSet(Ahead(t)) /\ Cardinality(Ahead(t)) <= n
        /\ Cardinality(Ahead(t)) = n => Ahead(t) = S
    BY <1>1, <2>1, FS_Subset
  <2>3. Cardinality(Ahead(t)) \in Nat /\ Cardinality(Ahead(t)) # n
    BY <1>6, <2>1, <2>2, FS_CardinalityType
  <2>4. f[t] = Cardinality(Ahead(t))
    BY <1>6
  <2> HIDE DEF Ahead, f, n
  <2> QED BY <1>1, <2>2, <2>3, <2>4
<1>7. ASSUME NEW s \in S, NEW t \in S, Less(s, t) PROVE f[s] < f[t]
  <2>1. Ahead(s) \subseteq Ahead(t) /\ s \notin Ahead(s) /\ s \in Ahead(t)
    BY <1>3, <1>4, <1>7
  <2>2. /\ Cardinality(Ahead(s)) <= Cardinality(Ahead(t))
        /\ Cardinality(Ahead(s)) = Cardinality(Ahead(t)) => Ahead(s) = Ahead(t)
    BY <1>6, <2>1, FS_Subset
  <2>3. /\ f[s] = Cardinality(Ahead(s)) /\ f[t] = Cardinality(Ahead(t))
        /\ f[s] \in 0 .. n - 1 /\ f[t] \in 0 .. n - 1
    BY <1>6
  <2> HIDE DEF f, Ahead
  <2>4. f[s] # f[t] /\ f[s] <= f[t]
    BY <2>1, <2>2, <2>3
  <2> QED BY <1>1, <2>3, <2>4
<1> HIDE DEF Ahead, f
<1>8. \A s, t \in S : (f[s] < f[t] <=> Less(s, t)) /\ (f[s] = f[t] => s = t)
  <2> TAKE s, t \in S
  <2>1. s # t => Less(s, t) \/ Less(t, s)
    BY <1>2
  <2>2. f[s] \in Int /\ f[t] \in Int
    BY <1>1, <1>6
  <2>3. (Less(s, t) => f[s] < f[t]) /\ (Less(t, s) => f[t] < f[s])
    BY <1>7
  <2>4. s = t => ~Less(s, t)
    BY <1>3
  <2> QED BY <2>1, <2>2, <2>3, <2>4
<1>9. \A i \in 0 .. n - 1 : \E t \in S : f[t] = i
  <2>1. f \in [S -> 0 .. n - 1]
    BY <1>6 DEF f
  <2>2. f \in Injection(S, 0 .. n - 1)
    BY <1>8, <2>1 DEF Injection, IsInjective
  <2>3. IsFiniteSet(0 .. n - 1) /\ Cardinality(0 .. n - 1) = n
    <3>1. 0 \in Int /\ n - 1 \in Int /\ ~(0 > n - 1) => (n - 1) - 0 + 1 = n
      BY <1>1
    <3>2. n - 1 \in Int /\ (0 > n - 1 => n = 0)
      BY <1>1
    <3> HIDE DEF n
    <3> QED BY <3>1, <3>2, FS_Interval
  <2>4. f \in Surjection(S, 0 .. n - 1)
    BY <2>2, <2>3, FS_Injection
  <2> QED BY <2>4 DEF Surjection
<1>10. ASSUME NEW k \in 1 .. count PROVE top[k] \in S /\ f[top[k]] = k - 1
  <2>1. k - 1 \in 0 .. n - 1
    BY <1>1 DEF S
  <2>2. \E t \in S : Cardinality(Ahead(t)) = k - 1
    BY <1>6, <1>9, <2>1
  <2>3. top[k] = CHOOSE t \in S : Cardinality(Ahead(t)) = k - 1
    BY <1>5
  <2>4. top[k] \in S /\ Cardinality(Ahead(top[k])) = k - 1
    BY <2>2, <2>3
  <2> QED BY <1>6, <2>4
<1>11. top \in [1 .. count -> S]
  <2>1. DOMAIN top = 1 .. count /\ top = [k \in DOMAIN top |-> top[k]]
    BY <1>5
  <2> QED BY <1>10, <2>1
<1>12. \A j, k \in 1 .. count : j < k => Less(top[j], top[k])
  <2> TAKE j, k \in 1 .. count
  <2>1. top[j] \in S /\ top[k] \in S /\ f[top[j]] = j - 1 /\ f[top[k]] = k - 1
    BY <1>10
  <2>2. f[top[j]] < f[top[k]] <=> Less(top[j], top[k])
    BY <1>8, <2>1
  <2> QED BY <2>1, <2>2
<1>13. ASSUME NEW t \in S, NEW k \in 1 .. count, \A j \in 1 .. count : top[j] # t
       PROVE  Less(top[k], t)
  <2>1. f[t] \in Int /\ f[t] >= 0
    BY <1>1, <1>6
  <2>2. ASSUME f[t] < count PROVE FALSE
    <3>1. f[t] + 1 \in 1 .. count /\ (f[t] + 1) - 1 = f[t]
      BY <2>1, <2>2
    <3>2. top[f[t] + 1] \in S /\ f[top[f[t] + 1]] = f[t]
      BY <1>10, <3>1
    <3> QED BY <1>8, <1>13, <3>1, <3>2
  <2>3. f[top[k]] < f[t] /\ top[k] \in S
    BY <1>10, <2>1, <2>2
  <2> QED BY <1>8, <2>3
<1> QED BY <1>11, <1>12, <1>13 DEF S, Less

-----------------------------------------------------------------------------
(* The steps of an import *)

RunRows == [status : {"none", "running", "success", "failed"}, date : Days]

\* NewImporter at any place is an importer that holds nothing.
Rested(place, requested) ==
    [at |-> place, requested |-> requested, date |-> NoDate, attempt |-> 0, asked |-> 0,
     records |-> NoRows, selected |-> << >>, gone |-> {}, written |-> 0]

LEMMA RestingImporter ==
    ASSUME NEW x,
           NEW place \in {"new", "done", "failed", "dead"}, NEW requested \in Days,
           x = Rested(place, requested)
    PROVE  x \in Importer /\ x.at = place /\ x.requested = requested /\ x.written = 0 /\ x.gone = {}
<1>1. NoRows \in [Tickers -> Nat] /\ NoDate \in Days
  BY DEF NoRows, Days
<1>2. /\ 0 \in 0 .. MaxAttempts /\ 0 \in 0 .. Yesterday /\ 0 \in 0 .. TopCount
  BY ImportConstants
<1>3. << >> \in Lists \cup {<< >>} /\ {} \in SUBSET Tickers
  OBVIOUS
<1>4. place \in {"new", "fetch", "select", "delete", "write", "done", "failed", "dead"}
  OBVIOUS
<1>5. x \in Importer
  <2> HIDE DEF Days, Lists
  <2> QED BY <1>1, <1>2, <1>3, <1>4 DEF Importer, Rested
<1> QED BY <1>5 DEF Rested

\* The three ways to rest: at the start, after an end without rows, after a commit.
LEMMA RestedForms ==
    ASSUME NEW x
    PROVE  /\ x = NewImporter => x = Rested("new", NoDate)
           /\ \A place : x = [NewImporter EXCEPT !.at = place] => x = Rested(place, NoDate)
           /\ \A requested : x = [NewImporter EXCEPT !.at = "done", !.requested = requested]
                              => x = Rested("done", requested)
  BY DEF NewImporter, Rested

\* The store is empty and nobody imports.
LEMMA ImportStart == ImportInit => ImportInv
<1> SUFFICES ASSUME ImportInit PROVE ImportInv
  OBVIOUS
<1>1. ASSUME NEW p \in Importers
      PROVE  /\ imp[p] = NewImporter /\ imp[p] \in Importer /\ imp[p].at = "new"
             /\ imp[p].written = 0 /\ imp[p].gone = {} /\ doomed[p] = {} /\ run[p] \in RunRows
  <2>1. imp[p] = NewImporter /\ run[p] = [status |-> "none", date |-> NoDate] /\ doomed[p] = {}
    BY DEF ImportInit
  <2>2. imp[p] = Rested("new", NoDate) /\ NoDate \in Days
    BY <2>1, RestedForms DEF Days
  <2>3. imp[p] \in Importer /\ imp[p].at = "new" /\ imp[p].written = 0 /\ imp[p].gone = {}
    BY <2>2, RestingImporter
  <2>4. run[p] \in RunRows
    BY <2>1, <2>2 DEF RunRows
  <2> QED BY <2>1, <2>3, <2>4
<1>2. ImportTypes
  <2>1. imp \in [Importers -> Importer]
    BY <1>1 DEF ImportInit
  <2>2. run \in [Importers -> RunRows]
    BY <1>1 DEF ImportInit
  <2>3. rows \in [Dates -> [Tickers -> 0 .. TopCount]]
    <3>1. 0 \in 0 .. TopCount
      BY ImportConstants
    <3> QED BY <3>1 DEF ImportInit, NoRows
  <2>4. /\ holidays \subseteq Dates /\ mixed \subseteq Dates
        /\ doomed \in [Importers -> SUBSET Tickers] /\ missed \subseteq Importers
    BY DEF ImportInit
  <2> QED BY <2>1, <2>2, <2>3, <2>4 DEF ImportTypes, RunRows
<1>3. \A p \in Importers : AtWork(p) /\ Searched(p) /\ Swept(p)
  BY <1>1 DEF AtWork, Searched, Swept, Writing, Busy
<1>4. \A d \in Dates : Whole(rows[d])
  BY DEF ImportInit, Whole
<1>5. NewestDay
  BY <1>1 DEF NewestDay, At
<1> QED BY <1>2, <1>3, <1>4, <1>5 DEF ImportInv

\* A step of one importer that commits nothing.
LEMMA ImportQuietStep ==
    ASSUME ImportInv, NEW p \in Importers,
           imp' \in [Importers -> Importer], run' \in [Importers -> RunRows],
           doomed' \in [Importers -> SUBSET Tickers], missed' \subseteq Importers,
           \A q \in Importers \ {p} : /\ imp'[q] = imp[q] /\ run'[q] = run[q]
                                     /\ doomed'[q] = doomed[q] /\ (q \in missed' <=> q \in missed),
           UNCHANGED <<holidays, rows, mixed>>,
           AtWork(p)', Searched(p)', imp'[p].at # "done", Writing(p)' => Swept(p)'
    PROVE  ImportInv'
<1>1. ImportTypes'
  BY DEF ImportInv, ImportTypes, RunRows, Dates
<1>2. ASSUME NEW q \in Importers PROVE (AtWork(q) /\ Searched(q) /\ Swept(q))'
  <2>1. CASE q = p
    <3>1. Swept(p)'
      BY DEF Swept
    <3> QED BY <2>1, <3>1
  <2>2. CASE q # p
    <3>1. imp'[q] = imp[q] /\ run'[q] = run[q] /\ doomed'[q] = doomed[q] /\ (q \in missed' <=> q \in missed)
      BY <2>2
    <3>2. AtWork(q) /\ Searched(q) /\ Swept(q)
      BY DEF ImportInv
    <3>3. AtWork(q)'
      BY <3>1, <3>2 DEF AtWork, Writing, Busy
    <3>4. Searched(q)'
      BY <3>1, <3>2 DEF Searched, Busy
    <3>5. Swept(q)'
      BY <3>1, <3>2 DEF Swept, Writing
    <3> QED BY <3>3, <3>4, <3>5
  <2> QED BY <2>1, <2>2
<1>3. \A d \in (Dates \ mixed)' : Whole(rows'[d])
  BY DEF ImportInv, Dates
<1>4. NewestDay'
  BY DEF ImportInv, NewestDay, At, Dates
<1> QED
  <2>1. \A d \in (Dates \ mixed)' : Whole(rows[d])'
    BY <1>3 DEF Whole
  <2> QED BY <1>1, <1>2, <1>4, <2>1 DEF ImportInv

\* A step of one importer outside its transaction.
LEMMA ImportReadStep ==
    ASSUME ImportInv, NEW p \in Importers,
           imp' \in [Importers -> Importer], run' \in [Importers -> RunRows],
           \A q \in Importers \ {p} : imp'[q] = imp[q] /\ run'[q] = run[q],
           UNCHANGED <<holidays, rows, doomed, missed, mixed>>,
           AtWork(p)', Searched(p)', imp'[p].at # "done", ~Writing(p)'
    PROVE  ImportInv'
<1>1. doomed' \in [Importers -> SUBSET Tickers] /\ missed' \subseteq Importers
  BY DEF ImportInv, ImportTypes
<1> QED BY <1>1, ImportQuietStep

\* The end of a transaction without a commit touches no other one.
LEMMA RollBack ==
    ASSUME ImportInv, NEW p \in Importers, RolledBack(p)
    PROVE  /\ doomed' \in [Importers -> SUBSET Tickers] /\ doomed'[p] = {}
           /\ missed' \subseteq Importers
           /\ \A q \in Importers \ {p} : doomed'[q] = doomed[q] /\ (q \in missed' <=> q \in missed)
<1>1. doomed \in [Importers -> SUBSET Tickers] /\ missed \subseteq Importers
  BY DEF ImportInv, ImportTypes
<1> QED BY <1>1 DEF RolledBack

\* An import that fails has changed nothing.
LEMMA FailsStep ==
    ASSUME ImportInv, NEW p \in Importers, Fails(p)
    PROVE  ImportInv'
<1>0. imp \in [Importers -> Importer] /\ run \in [Importers -> RunRows]
  BY DEF ImportInv, ImportTypes, RunRows
<1>1. imp'[p] = [NewImporter EXCEPT !.at = "failed"] /\ \A q \in Importers \ {p} : imp'[q] = imp[q]
  BY <1>0 DEF Fails
<1>2. imp'[p] = Rested("failed", NoDate) /\ NoDate \in Days
  BY <1>1, RestedForms DEF Days
<1>3. imp'[p] \in Importer /\ imp'[p].at = "failed" /\ imp'[p].written = 0 /\ imp'[p].gone = {}
  BY <1>2, RestingImporter
<1>4. imp' \in [Importers -> Importer]
  BY <1>0, <1>3 DEF Fails
<1>5. run' \in [Importers -> RunRows] /\ \A q \in Importers \ {p} : run'[q] = run[q]
  BY <1>0 DEF Fails, RunRows
<1>6. UNCHANGED <<holidays, rows, mixed>> /\ RolledBack(p)
  BY DEF Fails
<1>7. /\ doomed' \in [Importers -> SUBSET Tickers] /\ doomed'[p] = {} /\ missed' \subseteq Importers
      /\ \A q \in Importers \ {p} : doomed'[q] = doomed[q] /\ (q \in missed' <=> q \in missed)
  BY <1>6, RollBack
<1>8. AtWork(p)' /\ Searched(p)' /\ ~Writing(p)'
  BY <1>3, <1>7 DEF AtWork, Searched, Writing, Busy
<1> QED BY <1>1, <1>3, <1>4, <1>5, <1>6, <1>7, <1>8, ImportQuietStep

LEMMA DiesStep ==
    ASSUME ImportInv, NEW p \in Importers, Dies(p)
    PROVE  ImportInv'
<1>0. imp \in [Importers -> Importer] /\ run \in [Importers -> RunRows]
  BY DEF ImportInv, ImportTypes, RunRows
<1>1. imp'[p] = [NewImporter EXCEPT !.at = "dead"] /\ \A q \in Importers \ {p} : imp'[q] = imp[q]
  BY <1>0 DEF Dies
<1>2. imp'[p] = Rested("dead", NoDate) /\ NoDate \in Days
  BY <1>1, RestedForms DEF Days
<1>3. imp'[p] \in Importer /\ imp'[p].at = "dead" /\ imp'[p].written = 0 /\ imp'[p].gone = {}
  BY <1>2, RestingImporter
<1>4. imp' \in [Importers -> Importer]
  BY <1>0, <1>3 DEF Dies
<1>5. UNCHANGED <<holidays, run, rows, mixed>> /\ RolledBack(p)
  BY DEF Dies
<1>6. /\ doomed' \in [Importers -> SUBSET Tickers] /\ doomed'[p] = {} /\ missed' \subseteq Importers
      /\ \A q \in Importers \ {p} : doomed'[q] = doomed[q] /\ (q \in missed' <=> q \in missed)
  BY <1>5, RollBack
<1>7. AtWork(p)' /\ Searched(p)' /\ ~Writing(p)'
  BY <1>3, <1>6 DEF AtWork, Searched, Writing, Busy
<1> QED BY <1>0, <1>1, <1>3, <1>4, <1>5, <1>6, <1>7, ImportQuietStep

\* The first request is for the date, or for yesterday.
LEMMA BeginStep ==
    ASSUME ImportInv, NEW p \in Importers, NEW requested \in Days,
           Begin(p, requested)
    PROVE  ImportInv'
<1>0. imp \in [Importers -> Importer] /\ run \in [Importers -> RunRows] /\ imp[p] \in Importer
  BY DEF ImportInv, ImportTypes, RunRows
<1> DEFINE day == IF requested = NoDate THEN Yesterday ELSE requested
<1>1. day \in Dates /\ day \in Days /\ (requested = NoDate => day = Yesterday)
  BY ImportConstants DEF Days, Dates, NoDate
<1>2. /\ imp'[p] = [NewImporter EXCEPT !.at = "fetch", !.requested = requested, !.attempt = 1,
                     !.date = day, !.asked = 1]
      /\ \A q \in Importers \ {p} : imp'[q] = imp[q]
      /\ imp' = [imp EXCEPT ![p] = imp'[p]]
  BY <1>0 DEF Begin
<1> HIDE DEF day
<1>3. /\ imp' \in [Importers -> Importer]
      /\ imp'[p].at = "fetch" /\ imp'[p].requested = requested /\ imp'[p].date = day
      /\ imp'[p].asked = 1 /\ imp'[p].gone = {} /\ imp'[p].written = 0
  <2>1. 1 \in 0 .. MaxAttempts /\ 1 \in 0 .. Yesterday /\ 0 \in 0 .. TopCount
    BY ImportConstants
  <2>2. NoRows \in [Tickers -> Nat] /\ << >> \in Lists \cup {<< >>} /\ {} \in SUBSET Tickers
    BY DEF NoRows
  <2>3. imp'[p] = [at |-> "fetch", requested |-> requested, date |-> day, attempt |-> 1, asked |-> 1,
                   records |-> NoRows, selected |-> << >>, gone |-> {}, written |-> 0]
    BY <1>2 DEF NewImporter
  <2>4. imp'[p] \in Importer
    <3>1. "fetch" \in {"new", "fetch", "select", "delete", "write", "done", "failed", "dead"}
      OBVIOUS
    <3>2. day \in Days /\ requested \in Days
      BY <1>1
    <3> HIDE DEF Days, Lists
    <3> QED BY <2>1, <2>2, <2>3, <3>1, <3>2 DEF Importer
  <2>5. imp' \in [Importers -> Importer]
    BY <1>0, <1>2, <2>4
  <2> HIDE DEF Importer
  <2> QED BY <2>3, <2>5
<1>4. /\ run'[p] = [status |-> "running", date |-> requested]
      /\ run' \in [Importers -> RunRows] /\ \A q \in Importers \ {p} : run'[q] = run[q]
  BY <1>0 DEF Begin, RunRows
<1>5. AtWork(p)'
  <2>1. ~Busy(p) /\ AtWork(p) /\ doomed' = doomed
    BY DEF Begin, ImportInv
  <2>2. doomed'[p] = {}
    BY <2>1 DEF AtWork, Writing, Busy
  <2> QED BY <1>1, <1>3, <1>4, <2>2 DEF AtWork, Busy, Dates
<1>6. Searched(p)'
  <2>1. 1 \in 1 .. LookbackDays /\ Yesterday = Yesterday + 1 - 1
    BY ImportConstants
  <2>2. \A d \in Dates : ~(d > Yesterday)
    BY ImportConstants DEF Dates
  <2> QED BY <1>1, <1>3, <2>1, <2>2 DEF Searched, Busy, Dates, NoDate
<1>7. UNCHANGED <<holidays, rows, doomed, missed, mixed>> /\ imp'[p].at # "done" /\ ~Writing(p)'
  BY <1>3 DEF Begin, Writing
<1> QED BY <1>2, <1>3, <1>4, <1>5, <1>6, <1>7, ImportReadStep

\* Another attempt at the same day.
LEMMA RetryStep ==
    ASSUME ImportInv, NEW p \in Importers, Retry(p)
    PROVE  ImportInv'
<1>0. imp \in [Importers -> Importer] /\ run \in [Importers -> RunRows] /\ imp[p] \in Importer
  BY DEF ImportInv, ImportTypes, RunRows
<1>1. imp'[p] = [imp[p] EXCEPT !.attempt = imp[p].attempt + 1] /\ \A q \in Importers \ {p} : imp'[q] = imp[q]
  BY <1>0 DEF Retry
<1>2. imp[p].attempt + 1 \in 0 .. MaxAttempts /\ imp[p].at = "fetch"
  BY <1>0, ImportConstants DEF Retry, At, Importer
<1>3. imp'[p] \in Importer
  BY <1>0, <1>1, <1>2 DEF Importer
<1>4. imp' \in [Importers -> Importer]
  BY <1>0, <1>3 DEF Retry
<1>5. /\ imp'[p].at = "fetch" /\ imp'[p].requested = imp[p].requested /\ imp'[p].date = imp[p].date
      /\ imp'[p].asked = imp[p].asked /\ imp'[p].selected = imp[p].selected
      /\ imp'[p].gone = imp[p].gone /\ imp'[p].written = imp[p].written
  BY <1>0, <1>1, <1>2 DEF Importer
<1>6. UNCHANGED <<holidays, run, rows, doomed, missed, mixed>>
  BY DEF Retry
<1>7. AtWork(p) /\ Searched(p)
  BY DEF ImportInv
<1>8. AtWork(p)' /\ ~Writing(p)'
  BY <1>2, <1>5, <1>6, <1>7 DEF AtWork, Writing, Busy, Dates
<1>9. Searched(p)'
  BY <1>2, <1>5, <1>6, <1>7 DEF Searched, Busy, Dates, NoDate
<1> QED BY <1>0, <1>1, <1>4, <1>5, <1>6, <1>8, <1>9, ImportReadStep

\* The records of the day are there.
LEMMA FetchRecordsStep ==
    ASSUME ImportInv, NEW p \in Importers, NEW records \in Records,
           FetchRecords(p, records)
    PROVE  ImportInv'
<1>0. imp \in [Importers -> Importer] /\ run \in [Importers -> RunRows] /\ imp[p] \in Importer
  BY DEF ImportInv, ImportTypes, RunRows
<1>1. /\ imp'[p] = [imp[p] EXCEPT !.at = "select", !.records = records, !.attempt = 0, !.asked = 0]
      /\ \A q \in Importers \ {p} : imp'[q] = imp[q]
  BY <1>0 DEF FetchRecords
<1>2. /\ records \in [Tickers -> Nat] /\ 0 \in 0 .. MaxAttempts /\ 0 \in 0 .. Yesterday
      /\ imp[p].at = "fetch"
  BY ImportConstants DEF Records, FetchRecords, At
<1>3. imp'[p] \in Importer
  BY <1>0, <1>1, <1>2 DEF Importer
<1>4. imp' \in [Importers -> Importer]
  BY <1>0, <1>3 DEF FetchRecords
<1>5. /\ imp'[p].at = "select" /\ imp'[p].requested = imp[p].requested /\ imp'[p].date = imp[p].date
      /\ imp'[p].selected = imp[p].selected
      /\ imp'[p].gone = imp[p].gone /\ imp'[p].written = imp[p].written
  BY <1>0, <1>1, <1>2 DEF Importer
<1>6. UNCHANGED <<holidays, run, rows, doomed, missed, mixed>>
  BY DEF FetchRecords
<1>7. AtWork(p) /\ Searched(p)
  BY DEF ImportInv
<1>8. AtWork(p)' /\ ~Writing(p)'
  BY <1>2, <1>5, <1>6, <1>7 DEF AtWork, Writing, Busy, Dates
<1>9. Searched(p)'
  BY <1>2, <1>5, <1>6, <1>7 DEF Searched, Busy, Dates, NoDate
<1> QED BY <1>0, <1>1, <1>4, <1>5, <1>6, <1>8, <1>9, ImportReadStep

\* A day without rows is a holiday: the search goes on with the day before it, or ends.
LEMMA FetchEmptyStep ==
    ASSUME ImportInv, NEW p \in Importers, FetchEmpty(p)
    PROVE  ImportInv'
<1>0. imp \in [Importers -> Importer] /\ run \in [Importers -> RunRows] /\ imp[p] \in Importer
  BY DEF ImportInv, ImportTypes, RunRows
<1>1. CASE Fails(p)
  BY <1>1, FailsStep
<1>2. CASE ~Fails(p)
  <2>1. /\ imp[p].at = "fetch" /\ imp[p].date \in holidays
        /\ imp[p].requested = NoDate /\ imp[p].asked < LookbackDays
        /\ imp' = [imp EXCEPT ![p].date = @ - 1, ![p].asked = @ + 1, ![p].attempt = 1]
        /\ UNCHANGED <<holidays, run, rows, doomed, missed, mixed>>
    BY <1>2 DEF FetchEmpty, At
  <2>2. AtWork(p) /\ Searched(p)
    BY DEF ImportInv
  <2>3. /\ imp[p].asked \in 1 .. LookbackDays /\ imp[p].date = Yesterday + 1 - imp[p].asked
        /\ imp[p].date \in Dates /\ run[p].status = "running"
        /\ \A d \in Dates : d > imp[p].date => d \in holidays
    BY <2>1, <2>2 DEF AtWork, Searched, Busy
  <2> DEFINE day == imp[p].date - 1
             turn == imp[p].asked + 1
  <2>4. /\ turn \in 1 .. LookbackDays /\ turn \in 0 .. Yesterday /\ 1 \in 0 .. MaxAttempts
        /\ day = Yesterday + 1 - turn
        /\ day \in 1 .. Yesterday
    BY <2>1, <2>3, ImportConstants
  <2>5. day \in Dates /\ day \in Days
    BY <2>4 DEF Dates, Days
  <2>6. \A d \in Dates : d > day => d \in holidays
    <3>1. \A d \in Dates : d > day => d > imp[p].date \/ d = imp[p].date
      BY <2>3 DEF Dates
    <3> QED BY <2>1, <2>3, <3>1
  <2>7. /\ imp'[p] = [imp[p] EXCEPT !.date = day, !.asked = turn, !.attempt = 1]
        /\ \A q \in Importers \ {p} : imp'[q] = imp[q]
    BY <1>0, <2>1
  <2> HIDE DEF day, turn
  <2>8. imp'[p] \in Importer
    BY <1>0, <2>4, <2>5, <2>7 DEF Importer
  <2>9. imp' \in [Importers -> Importer]
    BY <1>0, <2>1, <2>8
  <2>10. /\ imp'[p].at = "fetch" /\ imp'[p].requested = NoDate /\ imp'[p].date = day
         /\ imp'[p].asked = turn /\ imp'[p].selected = imp[p].selected
         /\ imp'[p].gone = imp[p].gone /\ imp'[p].written = imp[p].written
    BY <1>0, <2>1, <2>7 DEF Importer
  <2>11. AtWork(p)' /\ ~Writing(p)'
    BY <2>1, <2>2, <2>3, <2>5, <2>10 DEF AtWork, Writing, Busy, Dates
  <2>12. Searched(p)'
    BY <2>1, <2>4, <2>6, <2>10 DEF Searched, Busy, Dates, NoDate
  <2> QED BY <1>0, <2>1, <2>7, <2>9, <2>10, <2>11, <2>12, ImportReadStep
<1> QED BY <1>1, <1>2

\* The selection is a list of TopCount symbols, or there are too few.
LEMMA SelectStep ==
    ASSUME ImportInv, NEW p \in Importers, Select(p)
    PROVE  ImportInv'
<1>0. imp \in [Importers -> Importer] /\ run \in [Importers -> RunRows] /\ imp[p] \in Importer
  BY DEF ImportInv, ImportTypes, RunRows
<1>1. CASE Fails(p)
  BY <1>1, FailsStep
<1>2. CASE ~Fails(p)
  <2> DEFINE records == imp[p].records
             top == TopOf(records, TopCount)
  <2>1. /\ imp[p].at = "select"
        /\ ~(Cardinality(Traded(records)) < TopCount)
        /\ imp' = [imp EXCEPT ![p].at = "delete", ![p].selected = top]
        /\ UNCHANGED <<holidays, run, rows, doomed, missed, mixed>>
    BY <1>2 DEF Select, At
  <2>2. records \in [Tickers -> Nat]
    BY <1>0 DEF Importer
  <2>3. top \in Lists
    <3>1. Cardinality(Traded(records)) \in Nat /\ Traded(records) \subseteq Tickers
      <4>1. Traded(records) \subseteq Tickers
        BY DEF Traded
      <4> QED BY <4>1, ImportConstants, FS_Subset, FS_CardinalityType
    <3>2. TopCount <= Cardinality(Traded(records)) /\ TopCount \in Nat
      BY <2>1, <3>1, ImportConstants
    <3> HIDE DEF records
    <3>3. /\ top \in [1 .. TopCount -> Traded(records)]
          /\ \A j, k \in 1 .. TopCount : j < k => Before(records, top[j], top[k])
      BY <2>2, <3>2, SelectionIsTop
    <3> HIDE DEF top
    <3>4. \A k \in 1 .. TopCount : top[k] \in Tickers
      BY <3>1, <3>3
    <3>5. \A j, k \in 1 .. TopCount : j < k => top[j] # top[k]
      BY <2>2, <3>3, <3>4, BeforeOrders
    <3>6. \A j, k \in 1 .. TopCount : top[j] = top[k] => j = k
      <4> TAKE j, k \in 1 .. TopCount
      <4>1. j < k \/ k < j \/ j = k
        BY <3>2
      <4> QED BY <3>5, <4>1
    <3>7. top \in [1 .. TopCount -> Tickers]
      BY <3>3, <3>4
    <3> QED BY <3>6, <3>7 DEF Lists
  <2> HIDE DEF records, top
  <2>4. imp'[p] = [imp[p] EXCEPT !.at = "delete", !.selected = top] /\ \A q \in Importers \ {p} : imp'[q] = imp[q]
    BY <1>0, <2>1
  <2>5. imp'[p] \in Importer
    <3> HIDE DEF Lists
    <3> QED BY <1>0, <2>3, <2>4 DEF Importer
  <2>6. imp' \in [Importers -> Importer]
    BY <1>0, <2>1, <2>5
  <2>7. /\ imp'[p].at = "delete" /\ imp'[p].requested = imp[p].requested /\ imp'[p].date = imp[p].date
        /\ imp'[p].selected = top /\ imp'[p].gone = imp[p].gone /\ imp'[p].written = imp[p].written
    BY <1>0, <2>4 DEF Importer
  <2>8. AtWork(p) /\ Searched(p)
    BY DEF ImportInv
  <2>9. AtWork(p)' /\ ~Writing(p)'
    BY <2>1, <2>3, <2>7, <2>8 DEF AtWork, Writing, Busy, Dates, Lists
  <2>10. Searched(p)'
    BY <2>1, <2>7, <2>8 DEF Searched, Busy, Dates, NoDate
  <2> QED BY <1>0, <2>1, <2>4, <2>6, <2>7, <2>9, <2>10, ImportReadStep
<1> QED BY <1>1, <1>2

\* One more symbol and its row are written, but not committed.
LEMMA UpdateOrCreateStep ==
    ASSUME ImportInv, NEW p \in Importers, UpdateOrCreate(p)
    PROVE  ImportInv'
<1>0. imp \in [Importers -> Importer] /\ run \in [Importers -> RunRows] /\ imp[p] \in Importer
  BY DEF ImportInv, ImportTypes, RunRows
<1>1. imp'[p] = [imp[p] EXCEPT !.written = imp[p].written + 1] /\ \A q \in Importers \ {p} : imp'[q] = imp[q]
  BY <1>0 DEF UpdateOrCreate
<1>2. imp[p].written + 1 \in 0 .. TopCount /\ imp[p].at = "write"
  BY <1>0, ImportConstants DEF UpdateOrCreate, At, Importer
<1>3. imp'[p] \in Importer
  BY <1>0, <1>1, <1>2 DEF Importer
<1>4. imp' \in [Importers -> Importer]
  BY <1>0, <1>3 DEF UpdateOrCreate
<1>5. /\ imp'[p].at = "write" /\ imp'[p].requested = imp[p].requested /\ imp'[p].date = imp[p].date
      /\ imp'[p].selected = imp[p].selected /\ imp'[p].gone = imp[p].gone
  BY <1>0, <1>1, <1>2 DEF Importer
<1>6. /\ UNCHANGED <<holidays, run, rows, doomed, missed, mixed>> /\ doomed[p] = {}
      /\ doomed' \in [Importers -> SUBSET Tickers] /\ missed' \subseteq Importers
  BY DEF UpdateOrCreate, ImportInv, ImportTypes
<1>7. AtWork(p) /\ Searched(p) /\ Swept(p)
  BY DEF ImportInv
<1>8. AtWork(p)' /\ Writing(p)
  BY <1>2, <1>5, <1>6, <1>7 DEF AtWork, Writing, Busy, Dates, Lists
<1>9. Searched(p)' /\ Swept(p)'
  <2>1. Searched(p)'
    BY <1>2, <1>5, <1>6, <1>7 DEF Searched, Busy, Dates, NoDate
  <2>2. Swept(p)'
    BY <1>5, <1>6, <1>7, <1>8 DEF Swept
  <2> QED BY <2>1, <2>2
<1> QED BY <1>0, <1>1, <1>4, <1>5, <1>6, <1>8, <1>9, ImportQuietStep

\* A transaction begins: the rows it does not select are found.
LEMMA BeginDeleteStep ==
    ASSUME ImportInv, NEW p \in Importers, BeginDelete(p)
    PROVE  ImportInv'
<1>0. imp \in [Importers -> Importer] /\ run \in [Importers -> RunRows] /\ imp[p] \in Importer
  BY DEF ImportInv, ImportTypes, RunRows
<1> DEFINE found == Unselected(p)
<1>1. /\ imp'[p] = [imp[p] EXCEPT !.at = "write", !.records = NoRows]
      /\ \A q \in Importers \ {p} : imp'[q] = imp[q]
  BY <1>0 DEF BeginDelete
<1>2. found \in SUBSET Tickers /\ NoRows \in [Tickers -> Nat] /\ imp[p].at = "delete"
  BY DEF Unselected, NoRows, BeginDelete, At
<1>3. AtWork(p) /\ Searched(p) /\ imp[p].date \in Dates
  BY <1>2 DEF ImportInv, AtWork, Busy
<1>4. \A t \in Tickers : rows[imp[p].date][t] # 0 => t \in Listed(imp[p].selected) \cup found
  <2>1. DOMAIN imp[p].selected = 1 .. TopCount
    BY <1>2, <1>3 DEF AtWork, Lists
  <2> QED BY <2>1 DEF Unselected, Listed
<1>5. found \cap Listed(imp[p].selected) = {}
  <2>1. DOMAIN imp[p].selected = 1 .. TopCount
    BY <1>2, <1>3 DEF AtWork, Lists
  <2> QED BY <2>1 DEF Unselected, Listed
<1>6. /\ doomed \in [Importers -> SUBSET Tickers] /\ doomed' = [doomed EXCEPT ![p] = found]
      /\ UNCHANGED <<holidays, run, rows, missed, mixed>> /\ missed' \subseteq Importers
  BY DEF BeginDelete, ImportInv, ImportTypes
<1> HIDE DEF found
<1>7. imp'[p] \in Importer
  BY <1>0, <1>1, <1>2 DEF Importer
<1>8. imp' \in [Importers -> Importer]
  BY <1>0, <1>7 DEF BeginDelete
<1>9. /\ imp'[p].at = "write" /\ imp'[p].requested = imp[p].requested /\ imp'[p].date = imp[p].date
      /\ imp'[p].selected = imp[p].selected /\ imp'[p].gone = imp[p].gone /\ imp'[p].written = imp[p].written
  BY <1>0, <1>1, <1>2 DEF Importer
<1>10. /\ doomed' \in [Importers -> SUBSET Tickers] /\ doomed'[p] = found
      /\ \A q \in Importers \ {p} : doomed'[q] = doomed[q]
  BY <1>2, <1>6
<1>11. ~(imp[p].written > 0) /\ imp[p].gone = {}
  BY <1>2, <1>3 DEF AtWork, Writing
<1>12. AtWork(p)'
  <2>1. Listed(imp'[p].selected) \cap (imp'[p].gone \cup doomed'[p]) = {}
    BY <1>9, <1>10, <1>11, <1>5
  <2> QED BY <1>2, <1>3, <1>6, <1>9, <1>11, <2>1 DEF AtWork, Writing, Busy, Dates, Lists
<1>13. Searched(p)'
  BY <1>2, <1>3, <1>6, <1>9 DEF Searched, Busy, Dates, NoDate
<1>14. Swept(p)'
  BY <1>4, <1>6, <1>9, <1>10 DEF Swept, Listed
<1> QED BY <1>0, <1>1, <1>6, <1>8, <1>9, <1>10, <1>12, <1>13, <1>14, ImportQuietStep

\* The DELETE deletes one row that it has found.
LEMMA DeleteRowStep ==
    ASSUME ImportInv, NEW p \in Importers, NEW t \in Tickers, DeleteRow(p, t)
    PROVE  ImportInv'
<1>0. imp \in [Importers -> Importer] /\ run \in [Importers -> RunRows] /\ imp[p] \in Importer
  BY DEF ImportInv, ImportTypes, RunRows
<1>1. /\ imp'[p] = [imp[p] EXCEPT !.gone = imp[p].gone \cup {t}] /\ t \in doomed[p]
      /\ \A q \in Importers \ {p} : imp'[q] = imp[q]
  BY <1>0 DEF DeleteRow
<1>2. imp'[p] \in Importer
  <2>1. imp[p].gone \cup {t} \in SUBSET Tickers
    BY <1>0 DEF Importer
  <2> QED BY <1>0, <1>1, <2>1 DEF Importer
<1>3. imp' \in [Importers -> Importer]
  BY <1>0, <1>2 DEF DeleteRow
<1>4. /\ imp'[p].at = imp[p].at /\ imp'[p].requested = imp[p].requested /\ imp'[p].date = imp[p].date
      /\ imp'[p].asked = imp[p].asked /\ imp'[p].selected = imp[p].selected
      /\ imp'[p].gone = imp[p].gone \cup {t} /\ imp'[p].written = imp[p].written
  BY <1>0, <1>1 DEF Importer
<1>5. /\ doomed \in [Importers -> SUBSET Tickers] /\ doomed' = [doomed EXCEPT ![p] = doomed[p] \ {t}]
      /\ UNCHANGED <<holidays, run, rows, missed, mixed>> /\ missed' \subseteq Importers
  BY DEF DeleteRow, ImportInv, ImportTypes
<1>6. /\ doomed' \in [Importers -> SUBSET Tickers] /\ doomed'[p] = doomed[p] \ {t}
      /\ \A q \in Importers \ {p} : doomed'[q] = doomed[q]
  BY <1>5
<1>7. AtWork(p) /\ Searched(p) /\ Swept(p)
  BY DEF ImportInv
<1>8. imp[p].at = "write" /\ ~(imp[p].written > 0)
  BY <1>1, <1>7 DEF AtWork, Writing
<1>9. AtWork(p)'
  <2>1. imp'[p].gone \cup doomed'[p] = imp[p].gone \cup doomed[p]
    BY <1>1, <1>4, <1>6
  <2>2. Listed(imp'[p].selected) \cap (imp'[p].gone \cup doomed'[p]) = {}
    BY <1>4, <1>7, <1>8, <2>1 DEF AtWork, Writing
  <2> QED BY <1>4, <1>5, <1>7, <1>8, <2>2 DEF AtWork, Writing, Busy, Dates, Lists
<1>10. Searched(p)'
  BY <1>4, <1>5, <1>7, <1>8 DEF Searched, Busy, Dates, NoDate
<1>11. Swept(p)'
  <2>1. p \notin missed' => p \notin missed
    BY <1>5
  <2>2. imp'[p].gone \cup doomed'[p] = imp[p].gone \cup doomed[p]
    BY <1>1, <1>4, <1>6
  <2>3. Writing(p) /\ rows'[imp'[p].date] = rows[imp[p].date]
    BY <1>4, <1>5, <1>8 DEF Writing
  <2> QED BY <1>4, <1>7, <2>1, <2>2, <2>3 DEF Swept
<1> QED BY <1>0, <1>1, <1>3, <1>4, <1>5, <1>6, <1>8, <1>9, <1>10, <1>11, ImportQuietStep

\* What a transaction that missed no import leaves: the ranks of its selection, and nothing else.
LEMMA RowsWhole ==
    ASSUME ImportInv, NEW p \in Importers, Commit(p)
    PROVE  /\ RowsAfter(p) \in [Tickers -> 0 .. TopCount]
           /\ p \notin missed => Whole(RowsAfter(p))
<1> DEFINE s == imp[p].selected
           r == RowsAfter(p)
           was == rows[imp[p].date]
<1>1. imp[p].at = "write" /\ imp[p].written = TopCount
  BY DEF Commit, At
<1>2. s \in Lists /\ imp[p].date \in Dates /\ Swept(p) /\ doomed[p] = {}
  BY <1>1, ImportConstants DEF ImportInv, AtWork, Busy
<1>3. was \in [Tickers -> 0 .. TopCount]
  BY <1>2 DEF ImportInv, ImportTypes
<1>4. Stored(p) = Listed(s) /\ DOMAIN s = 1 .. TopCount
  BY <1>1, <1>2 DEF Stored, Listed, Lists
<1>5. ASSUME NEW k \in 1 .. TopCount PROVE s[k] \in Tickers /\ s[k] \in Listed(s) /\ RankOf(p, s[k]) = k
  <2>1. \A j \in DOMAIN s : s[j] = s[k] <=> j = k
    BY <1>2, <1>4 DEF Lists
  <2>2. k \in DOMAIN s
    BY <1>4
  <2>3. RankOf(p, s[k]) = k
    BY <2>1, <2>2 DEF RankOf
  <2> QED BY <1>2, <2>3 DEF Lists, Listed
<1>6. ASSUME NEW t \in Tickers
      PROVE  r[t] = IF t \in Listed(s) THEN RankOf(p, t)
                    ELSE IF t \in imp[p].gone THEN 0 ELSE was[t]
  BY <1>4 DEF RowsAfter
<1>7. TopCount \in Nat \ {0}
  BY ImportConstants
<1>8. r \in [Tickers -> 0 .. TopCount]
  <2>1. \A t \in Tickers : r[t] \in 0 .. TopCount
    <3> TAKE t \in Tickers
    <3>1. CASE t \in Listed(s)
      <4>1. PICK k \in 1 .. TopCount : t = s[k]
        BY <3>1 DEF Listed
      <4> QED BY <1>5, <1>6, <1>7, <3>1, <4>1
    <3>2. CASE t \notin Listed(s)
      <4>1. r[t] = 0 \/ r[t] = was[t]
        BY <1>6, <3>2
      <4>2. 0 \in 0 .. TopCount /\ was[t] \in 0 .. TopCount
        BY <1>3, <1>7
      <4> QED BY <4>1, <4>2
    <3> QED BY <3>1, <3>2
  <2>2. r = [t \in Tickers |-> r[t]]
    BY DEF RowsAfter
  <2> HIDE DEF r
  <2> QED BY <2>1, <2>2
<1>9. ASSUME p \notin missed, NEW k \in 1 .. TopCount
      PROVE  {t \in Tickers : r[t] = k} = {s[k]}
  <2>1. r[s[k]] = k /\ s[k] \in Tickers
    BY <1>5, <1>6
  <2>2. ASSUME NEW t \in Tickers, r[t] = k PROVE t = s[k]
    <3>1. CASE t \in Listed(s)
      <4>1. PICK j \in 1 .. TopCount : t = s[j]
        BY <3>1 DEF Listed
      <4>2. r[t] = j
        BY <1>5, <1>6, <3>1, <4>1
      <4> QED BY <2>2, <4>1, <4>2
    <3>2. CASE t \notin Listed(s)
      <4>1. was[t] # 0 => t \in imp[p].gone
        BY <1>1, <1>2, <1>9, <3>2 DEF Swept, Writing
      <4>2. r[t] = 0
        BY <1>6, <3>2, <4>1
      <4> QED BY <1>7, <2>2, <4>2
    <3> QED BY <3>1, <3>2
  <2> HIDE DEF r, s
  <2> QED BY <2>1, <2>2
<1> HIDE DEF r, s, was
<1>10. ASSUME p \notin missed PROVE Whole(r)
  <2>1. ASSUME NEW k \in 1 .. TopCount PROVE Cardinality({t \in Tickers : r[t] = k}) = 1
    <3>1. {t \in Tickers : r[t] = k} = {s[k]}
      BY <1>9, <1>10
    <3> QED BY <3>1, FS_Singleton
  <2> QED BY <2>1 DEF Whole
<1> QED BY <1>8, <1>10 DEF r

\* What a commit leaves is in the selection of another transaction, or that one has
\* deleted or found it, or it misses this import: its new rows were not in the snapshot.
LEMMA OtherSwept ==
    ASSUME ImportInv, NEW p \in Importers, Commit(p), NEW q \in Importers \ {p},
           Writing(q), q \notin missed', imp'[q] = imp[q]
    PROVE  \A t \in Tickers : rows'[imp[q].date][t] # 0 =>
              t \in Listed(imp[q].selected) \cup imp[q].gone \cup doomed'[q]
<1> DEFINE day == imp[p].date
<1>0. imp[p].written = TopCount /\ Listed(imp[p].selected) \cap imp[p].gone = {}
  BY DEF Commit, ImportInv, AtWork, Writing, At
<1>1. /\ rows' = [rows EXCEPT ![day] = RowsAfter(p)]
      /\ doomed' = [x \in Importers |-> IF x \in Overlapping(p) THEN doomed[x] \ imp[p].gone ELSE doomed[x]]
      /\ q \notin missed /\ q \notin Missing(p)
  BY DEF Commit
<1>2. imp[q].date \in Dates /\ day \in Dates /\ rows \in [Dates -> [Tickers -> 0 .. TopCount]]
  BY DEF ImportInv, AtWork, Busy, Writing, Commit, At, ImportTypes
<1>3. Swept(q) /\ imp[q].selected \in Lists
  BY DEF ImportInv, AtWork, Writing
<1>4. \A t \in Tickers : rows[imp[q].date][t] # 0 =>
         t \in Listed(imp[q].selected) \cup imp[q].gone \cup doomed[q]
  BY <1>1, <1>3 DEF Swept
<1>5. CASE imp[q].date # day
  <2>1. q \notin Overlapping(p)
    BY <1>5 DEF Overlapping
  <2>2. doomed'[q] = doomed[q] /\ rows'[imp[q].date] = rows[imp[q].date]
    BY <1>1, <1>2, <1>5, <2>1
  <2> QED BY <1>4, <2>2
<1>6. CASE imp[q].date = day
  <2>1. q \in Overlapping(p)
    BY <1>6 DEF Overlapping, Writing, At
  <2>2. doomed'[q] = doomed[q] \ imp[p].gone /\ rows'[day] = RowsAfter(p)
    BY <1>1, <1>2, <2>1
  <2> SUFFICES ASSUME NEW t \in Tickers, rows'[day][t] # 0
               PROVE  t \in Listed(imp[q].selected) \cup imp[q].gone \cup doomed'[q]
    BY <1>6
  <2>3. RowsAfter(p)[t] = IF t \in Stored(p) THEN RankOf(p, t)
                          ELSE IF t \in imp[p].gone THEN 0 ELSE rows[day][t]
    BY DEF RowsAfter
  <2>4. CASE t \in Stored(p) /\ rows[day][t] = 0
    <3>1. \E k \in DOMAIN imp[q].selected : imp[q].selected[k] = t
      BY <1>1, <2>1, <2>4 DEF Missing
    <3> QED BY <1>3, <3>1 DEF Listed, Lists
  <2>5. CASE t \in Stored(p) /\ rows[day][t] # 0
    <3>1. t \in Listed(imp[p].selected)
      BY <1>0, <2>5 DEF Stored, Listed
    <3>2. t \notin imp[p].gone
      BY <1>0, <3>1
    <3> QED BY <1>4, <1>6, <2>2, <2>5, <3>2
  <2>6. CASE t \notin Stored(p)
    <3>1. t \notin imp[p].gone /\ rows[day][t] # 0
      BY <2>2, <2>3, <2>6
    <3> QED BY <1>4, <1>6, <2>2, <3>1
  <2> QED BY <2>4, <2>5, <2>6
<1> QED BY <1>5, <1>6

\* The transaction ends well.
LEMMA CommitStep ==
    ASSUME ImportInv, NEW p \in Importers, Commit(p)
    PROVE  ImportInv'
<1>0. imp \in [Importers -> Importer] /\ run \in [Importers -> RunRows] /\ imp[p] \in Importer
  BY DEF ImportInv, ImportTypes, RunRows
<1> DEFINE day == imp[p].date
           r == RowsAfter(p)
<1>1. imp[p].at = "write" /\ AtWork(p) /\ Searched(p) /\ day \in Dates /\ imp[p].requested \in Days
  BY <1>0 DEF Commit, At, ImportInv, AtWork, Busy, Importer
<1>2. /\ imp'[p] = [NewImporter EXCEPT !.at = "done", !.requested = imp[p].requested]
      /\ \A q \in Importers \ {p} : imp'[q] = imp[q]
      /\ imp' = [imp EXCEPT ![p] = imp'[p]]
  BY <1>0 DEF Commit
<1>3. imp'[p] = Rested("done", imp[p].requested)
  BY <1>2, RestedForms
<1>4. /\ imp'[p] \in Importer /\ imp'[p].at = "done" /\ imp'[p].written = 0 /\ imp'[p].gone = {}
      /\ imp'[p].requested = imp[p].requested
  BY <1>1, <1>3, RestingImporter
<1>5. imp' \in [Importers -> Importer]
  BY <1>0, <1>2, <1>4
<1>6. /\ holidays' = holidays
      /\ rows' = [rows EXCEPT ![day] = r]
      /\ run' = [run EXCEPT ![p] = [status |-> "success", date |-> day]]
      /\ doomed' = [q \in Importers |-> IF q \in Overlapping(p) THEN doomed[q] \ imp[p].gone ELSE doomed[q]]
      /\ missed' = (missed \cup Missing(p)) \ {p}
      /\ mixed' = IF p \in missed THEN mixed \cup {day} ELSE mixed \ {day}
  BY DEF Commit
<1>7. r \in [Tickers -> 0 .. TopCount] /\ (p \notin missed => Whole(r))
  BY RowsWhole
<1>8. /\ rows \in [Dates -> [Tickers -> 0 .. TopCount]] /\ doomed \in [Importers -> SUBSET Tickers]
      /\ missed \subseteq Importers /\ mixed \subseteq Dates
  BY DEF ImportInv, ImportTypes
<1> HIDE DEF r
<1>9. /\ rows'[day] = r /\ \A d \in Dates \ {day} : rows'[d] = rows[d]
      /\ rows' \in [Dates -> [Tickers -> 0 .. TopCount]]
  BY <1>1, <1>6, <1>7, <1>8
<1>10. /\ run'[p] = [status |-> "success", date |-> day] /\ \A q \in Importers \ {p} : run'[q] = run[q]
       /\ run' \in [Importers -> RunRows]
  BY <1>0, <1>1, <1>6 DEF RunRows, Days
<1>11. /\ doomed' \in [Importers -> SUBSET Tickers] /\ missed' \subseteq Importers /\ mixed' \subseteq Dates
       /\ \A q \in Importers : doomed'[q] \subseteq doomed[q]
  <2>1. Missing(p) \subseteq Importers
    BY DEF Missing, Overlapping
  <2> HIDE DEF day
  <2> QED BY <1>1, <1>6, <1>8, <2>1
<1>12. ImportTypes'
  BY <1>5, <1>6, <1>9, <1>10, <1>11 DEF ImportInv, ImportTypes, RunRows, Dates
<1>13. ASSUME NEW q \in Importers PROVE (AtWork(q) /\ Searched(q) /\ Swept(q))'
  <2>1. CASE q = p
    <3>1. doomed[p] = {}
      BY <1>1, ImportConstants DEF Commit, AtWork
    <3>2. doomed'[p] = {}
      BY <1>11, <3>1
    <3>3. AtWork(p)'
      BY <1>4, <3>2 DEF AtWork, Writing, Busy
    <3>4. Searched(p)' /\ Swept(p)'
      BY <1>4 DEF Searched, Swept, Writing, Busy
    <3> QED BY <2>1, <3>3, <3>4
  <2>2. CASE q # p
    <3>1. imp'[q] = imp[q] /\ run'[q] = run[q] /\ AtWork(q) /\ Searched(q) /\ Swept(q)
      BY <1>2, <1>10, <2>2 DEF ImportInv
    <3>2. AtWork(q)'
      <4>1. doomed'[q] \subseteq doomed[q]
        BY <1>11
      <4>2. Writing(q)' <=> Writing(q)
        BY <3>1 DEF Writing
      <4>3. (imp'[q].written > 0 \/ imp'[q].gone # {} \/ doomed'[q] # {} => Writing(q))
            /\ (imp'[q].written > 0 => doomed'[q] = {})
        BY <3>1, <4>1 DEF AtWork
      <4>4. Writing(q) => Listed(imp'[q].selected) \cap (imp'[q].gone \cup doomed'[q]) = {}
        BY <3>1, <4>1 DEF AtWork
      <4>5. /\ Busy(q)' => imp'[q].date \in Dates /\ run'[q].status = "running"
            /\ imp'[q].at \in {"delete", "write"} => imp'[q].selected \in Lists
        BY <3>1 DEF AtWork, Busy
      <4> QED BY <4>2, <4>3, <4>4, <4>5 DEF AtWork, Dates, Lists
    <3>3. Searched(q)'
      BY <1>6, <3>1 DEF Searched, Busy
    <3>4. Swept(q)'
      BY <1>2, <1>4, <2>2, <3>1, OtherSwept DEF Swept, Writing
    <3> QED BY <3>2, <3>3, <3>4
  <2> QED BY <2>1, <2>2
<1>14. \A d \in (Dates \ mixed)' : Whole(rows[d])'
  <2> SUFFICES ASSUME NEW d \in Dates, d \notin mixed' PROVE Whole(rows'[d])
    BY <1>6 DEF Dates, Whole
  <2>1. CASE d = day
    <3>1. p \notin missed
      BY <1>6, <2>1
    <3> QED BY <1>7, <1>9, <2>1, <3>1
  <2>2. CASE d # day
    BY <1>6, <1>9, <2>2 DEF ImportInv
  <2> QED BY <2>1, <2>2
<1>15. NewestDay'
  <2>1. ASSUME NEW q \in Importers, imp'[q].at = "done", imp'[q].requested = NoDate,
               NEW d \in Dates, d > run'[q].date
        PROVE  d \in holidays
    <3>1. CASE q = p
      BY <1>1, <1>4, <1>10, <2>1, <3>1 DEF Searched, Busy
    <3>2. CASE q # p
      BY <1>2, <1>10, <2>1, <3>2 DEF ImportInv, NewestDay, At
    <3> QED BY <3>1, <3>2
  <2> QED BY <1>6, <2>1 DEF NewestDay, At, Dates, NoDate
<1> QED BY <1>12, <1>13, <1>14, <1>15 DEF ImportInv

LEMMA ImportStep ==
    ASSUME ImportInv, [ImportNext]_importVars
    PROVE  ImportInv'
<1>1. CASE UNCHANGED importVars
  <2>1. UNCHANGED <<holidays, imp, run, rows, doomed, missed, mixed>>
    BY <1>1 DEF importVars
  <2> QED BY <2>1 DEF ImportInv, ImportTypes, AtWork, Searched, Swept, Listed, Writing, Whole, Busy,
                      NewestDay, At, Dates
<1>2. ASSUME NEW p \in Importers, NEW requested \in Requests, Begin(p, requested)
      PROVE  ImportInv'
  <2>1. requested \in Days
    BY ImportAssumption DEF Days, Dates, NoDate
  <2> QED BY <1>2, <2>1, BeginStep
<1>3. ASSUME NEW p \in Importers, Step(p) PROVE ImportInv'
  <2>1. CASE Retry(p)
    BY <2>1, RetryStep
  <2>2. CASE FetchFails(p)
    BY <2>2, FailsStep DEF FetchFails
  <2>3. CASE FetchEmpty(p)
    BY <2>3, FetchEmptyStep
  <2>4. ASSUME NEW records \in Records, FetchRecords(p, records) PROVE ImportInv'
    BY <2>4, FetchRecordsStep
  <2>5. CASE Select(p)
    BY <2>5, SelectStep
  <2>6. CASE BeginDelete(p)
    BY <2>6, BeginDeleteStep
  <2>7. CASE UpdateOrCreate(p)
    BY <2>7, UpdateOrCreateStep
  <2>8. CASE Commit(p)
    BY <2>8, CommitStep
  <2>9. CASE StoreFails(p)
    BY <2>9, FailsStep DEF StoreFails
  <2>10. ASSUME NEW t \in Tickers, DeleteRow(p, t) PROVE ImportInv'
    BY <2>10, DeleteRowStep
  <2> QED BY <1>3, <2>1, <2>2, <2>3, <2>4, <2>5, <2>6, <2>7, <2>8, <2>9, <2>10 DEF Step
<1>4. ASSUME NEW p \in Importers, Dies(p) PROVE ImportInv'
  BY <1>4, DiesStep
<1> QED BY <1>1, <1>2, <1>3, <1>4 DEF ImportNext

LEMMA ImportAlways == ImportSpec => []ImportInv
<1>1. ImportInit => ImportInv
  BY ImportStart
<1>2. ImportInv /\ [ImportNext]_importVars => ImportInv'
  BY ImportStep
<1> QED BY <1>1, <1>2, PTL DEF ImportSpec

-----------------------------------------------------------------------------
(* What holds of the imported data *)

\* For any number of imports, however they overlap, of tickers and of symbols to select: a
\* reader of MarketDaily finds no rows for a date, or the ranks 1 to TopCount once each,
\* unless the import that committed there last missed a row: another one committed it
\* after the DELETE of this one had begun (service.py:76-78), and this one does not
\* select it.
THEOREM ImportsAreWhole == ImportSpec => []WholeDates
<1>1. ImportInv => WholeDates
  <2> SUFFICES ASSUME ImportInv PROVE WholeDates
    OBVIOUS
  <2>1. ImportTypeOK
    <3>1. ASSUME NEW p \in Importers
          PROVE  /\ imp[p].at \in {"new", "fetch", "select", "delete", "write", "done", "failed", "dead"}
                 /\ imp[p].requested \in Days /\ imp[p].date \in Days
                 /\ imp[p].attempt \in 0 .. MaxAttempts /\ imp[p].asked \in 0 .. Yesterday
                 /\ imp[p].written \in 0 .. TopCount /\ imp[p].gone \subseteq Tickers
                 /\ imp[p].written > 0 \/ imp[p].gone # {} \/ doomed[p] # {} => imp[p].at = "write"
      <4>1. imp[p] \in Importer
        BY DEF ImportInv, ImportTypes
      <4>2. AtWork(p)
        BY DEF ImportInv
      <4> QED BY <4>1, <4>2 DEF Importer, AtWork, Writing
    <3> QED BY <3>1 DEF ImportInv, ImportTypes, ImportTypeOK, At, Days
  <2>2. \A d \in Dates \ mixed : Whole(rows[d])
    BY DEF ImportInv
  <2> QED BY <2>1, <2>2 DEF WholeDates, Whole
<1> QED BY <1>1, ImportAlways, PTL

\* Rows of a date change only in the step in which a running import of that date becomes
\* SUCCESS: what fails, is retried, dies or waits leaves every reader's rows as they were.
THEOREM FailureWritesNothing == ImportSpec => OnlySuccessWrites
<1> DEFINE Written == \A d \in Dates : rows'[d] # rows[d] =>
      \E p \in Importers : run[p].status = "running" /\ run'[p] = [status |-> "success", date |-> d]
<1>1. ImportInv /\ [ImportNext]_importVars => [Written]_importVars
  <2> SUFFICES ASSUME ImportInv, ImportNext, NEW d \in Dates, rows'[d] # rows[d]
               PROVE  \E p \in Importers : /\ run[p].status = "running"
                                           /\ run'[p] = [status |-> "success", date |-> d]
    OBVIOUS
  <2>1. PICK p \in Importers : Commit(p)
    <3>1. ASSUME NEW p \in Importers, NEW requested, Begin(p, requested) PROVE rows' = rows
      BY <3>1 DEF Begin
    <3>2. ASSUME NEW p \in Importers, Step(p), ~Commit(p) PROVE rows' = rows
      <4>1. Fails(p) => rows' = rows
        BY DEF Fails
      <4>2. Retry(p) => rows' = rows
        BY DEF Retry
      <4>3. Select(p) => rows' = rows
        <5>1. Select(p) => UNCHANGED <<holidays, run, rows, doomed, missed, mixed>> \/ Fails(p)
          BY Zenon DEF Select
        <5> QED BY <4>1, <5>1
      <4>4. FetchFails(p) \/ FetchEmpty(p) \/ StoreFails(p) => rows' = rows
        BY <4>1 DEF FetchFails, FetchEmpty, StoreFails
      <4>5. BeginDelete(p) \/ UpdateOrCreate(p) => rows' = rows
        BY DEF BeginDelete, UpdateOrCreate
      <4>6. \A records \in Records : FetchRecords(p, records) => rows' = rows
        BY DEF FetchRecords
      <4>7. \A t \in Tickers : DeleteRow(p, t) => rows' = rows
        BY DEF DeleteRow
      <4> QED BY <3>2, <4>2, <4>3, <4>4, <4>5, <4>6, <4>7 DEF Step
    <3>3. \A p \in Importers : Dies(p) => rows' = rows
      BY DEF Dies
    <3> QED BY <3>1, <3>2, <3>3 DEF ImportNext
  <2>2. /\ run \in [Importers -> RunRows] /\ rows \in [Dates -> [Tickers -> 0 .. TopCount]]
        /\ AtWork(p) /\ imp[p].at = "write"
    BY <2>1 DEF ImportInv, ImportTypes, RunRows, Commit, At
  <2>3. d = imp[p].date
    BY <2>1, <2>2 DEF Commit
  <2>4. run'[p] = [status |-> "success", date |-> d]
    BY <2>1, <2>2, <2>3 DEF Commit
  <2>5. run[p].status = "running"
    BY <2>2 DEF AtWork, Busy
  <2> QED BY <2>4, <2>5
<1> QED BY <1>1, ImportAlways, PTL DEF ImportSpec, OnlySuccessWrites

\* A successful import without a requested date is about the newest day for which KRX has
\* rows: no later day is skipped, whatever fails or is retried on the way (krx.py).
THEOREM ImportsNewestDay == ImportSpec => []NewestDay
<1>1. ImportInv => NewestDay
  BY DEF ImportInv
<1> QED BY <1>1, ImportAlways, PTL
=============================================================================
