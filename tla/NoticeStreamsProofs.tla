------------------------- MODULE NoticeStreamsProofs -------------------------
(***************************************************************************)
(* Proofs about NoticeStreams for any processes, number of requests under  *)
(* way, changes and faults.                                                *)
(***************************************************************************)
EXTENDS NoticeStreams, TLAPS

USE ProcAssumption, AskAssumption, BoundsAssumption

-----------------------------------------------------------------------------
(* Types                                                                    *)

LEMMA InitType == Init => TypeOK
<1> SUFFICES ASSUME Init PROVE TypeOK
  OBVIOUS
<1>1. asks \in [Ask -> {"free", "sent", "answered"}] /\ read \in [Ask -> Nat]
  BY DEF Init
<1>2. due = {} /\ channel = {} /\ up = Proc /\ inbox = {}
  BY DEF Init
<1>3. QED BY <1>1, <1>2 DEF Init, TypeOK

LEMMA RefreshType ==
  ASSUME TypeOK, Refresh
  PROVE  /\ latest' \in Ask /\ asks[latest'] = "free"
         /\ asks' = [asks EXCEPT ![latest'] = "sent"]
         /\ asks' \in [Ask -> {"free", "sent", "answered"}]
         /\ missed' = FALSE /\ UNCHANGED <<read, shown>>
<1>1. latest' \in Ask /\ ~Outstanding(latest')
  BY DEF Refresh
<1>2. QED BY <1>1 DEF Refresh, Outstanding, TypeOK

LEMMA EmitType ==
  ASSUME TypeOK, NEW p \in Proc, Emit(p)
  PROVE  UNCHANGED <<stream, opening, closing>> /\ inbox' \in SUBSET {"live", "history"}
BY DEF TypeOK, Emit

LEMMA DeliverType ==
  ASSUME TypeOK, NEW c \in due, Deliver(c)
  PROVE  channel' \in SUBSET Message /\ missed' \in BOOLEAN
<1>1. c.at \in Proc /\ c.n \in Nat
  BY DEF TypeOK, Call
<1>2. {[n |-> c.n, from |-> c.at, for |-> p] : p \in up} \subseteq Message
  BY <1>1 DEF TypeOK, Message
<1>3. missed' \in BOOLEAN
  BY Zenon DEF Deliver, TypeOK
<1>4. QED BY <1>2, <1>3 DEF Deliver, TypeOK

LEMMA CutType ==
  ASSUME TypeOK, Cut
  PROVE  /\ stream' = Nobody /\ closing' = TRUE
         /\ opening' \in BOOLEAN /\ inbox' \in SUBSET {"live", "history"}
<1>1. opening' \in BOOLEAN
  BY DEF TypeOK, Cut
<1>2. CASE opening' = opening
  BY <1>1, <1>2 DEF TypeOK, Cut
<1>3. CASE opening' # opening
  BY <1>1, <1>3 DEF TypeOK, Cut
<1>4. QED BY <1>2, <1>3

LEMMA AnnouncingType == ASSUME TypeOK, Announcing PROVE TypeOK'
<1> USE DEF redis, connection, store
<1>1. ASSUME NEW p \in Proc, Change(p) PROVE TypeOK'
  BY <1>1 DEF Change, TypeOK, Call
<1>2. ASSUME NEW p \in Proc, Unsubscribe(p) \/ Subscribe(p) PROVE TypeOK'
  <2>1. CASE Unsubscribe(p)
    <3>1. channel' \in SUBSET Message /\ faults' \in Nat /\ up' \in SUBSET Proc
      BY <2>1 DEF Unsubscribe, Fault, TypeOK
    <3>2. missed' \in BOOLEAN
      BY <2>1, Zenon DEF Unsubscribe, TypeOK
    <3>3. UNCHANGED <<changes, due, connection, store>>
      BY <2>1 DEF Unsubscribe
    <3>4. QED BY <3>1, <3>2, <3>3 DEF TypeOK
  <2>2. CASE Subscribe(p)
    BY <2>2 DEF Subscribe, TypeOK
  <2>3. QED BY <1>2, <2>1, <2>2
<1>3. ASSUME NEW c \in due, EmitLocal(c) PROVE TypeOK'
  <2>1. c \in Call /\ [c EXCEPT !.step = "redis"] \in Call
    BY DEF TypeOK, Call
  <2>2. c.at \in Proc /\ c.n \in Nat
    BY <2>1 DEF Call
  <2>3. QED BY <1>3, <2>1, <2>2, EmitType DEF EmitLocal, TypeOK
<1>4. ASSUME NEW c \in due, Publish(c) \/ PublishAgain(c) PROVE TypeOK'
  <2>1. Deliver(c) /\ UNCHANGED <<changes, up, connection, store>> /\ faults' \in Nat
    BY <1>4 DEF Publish, PublishAgain, Fault, TypeOK
  <2>2. c \in Call /\ [c EXCEPT !.step = "again"] \in Call
    BY DEF TypeOK, Call
  <2>3. due' \in SUBSET Call
    BY <1>4, <2>2 DEF Publish, PublishAgain, TypeOK
  <2>4. QED BY <2>1, <2>3, DeliverType DEF TypeOK
<1>5. ASSUME NEW c \in due, PublishFails(c) PROVE TypeOK'
  <2>1. missed' \in BOOLEAN
    BY <1>5, Zenon DEF PublishFails, TypeOK
  <2>2. QED BY <1>5, <2>1 DEF PublishFails, Fault, TypeOK
<1>6. ASSUME NEW m \in channel, Consume(m) PROVE TypeOK'
  <2>1. m.for \in Proc /\ m.n \in Nat
    BY DEF TypeOK, Message
  <2>2. CASE m.from = m.for
    BY <1>6, <2>2 DEF Consume, TypeOK
  <2>3. CASE m.from # m.for
    BY <1>6, <2>1, <2>3, EmitType DEF Consume, TypeOK
  <2>4. QED BY <2>2, <2>3
<1>7. QED BY <1>1, <1>2, <1>3, <1>4, <1>5, <1>6 DEF Announcing

LEMMA StreamingType == ASSUME TypeOK, Streaming PROVE TypeOK'
<1> USE DEF redis, connection, store
<1>1. ASSUME NEW p \in Proc, Connect(p) PROVE TypeOK'
  BY <1>1 DEF Connect, TypeOK
<1>2. ASSUME NEW p \in Proc, Crash(p) PROVE TypeOK'
  <2>1. /\ stream' \in Proc \cup {Nobody} /\ opening' \in BOOLEAN
        /\ inbox' \in SUBSET {"live", "history"} /\ closing' \in BOOLEAN
        /\ (stream' # Nobody => stream' = stream /\ closing' = closing)
    BY <1>2, CutType DEF Crash, TypeOK
  <2>2. due' \in SUBSET Call /\ channel' \in SUBSET Message
    BY <1>2 DEF Crash, TypeOK
  <2>4. missed' \in BOOLEAN
    BY <1>2, Zenon DEF Crash, TypeOK
  <2>3. QED BY <1>2, <2>1, <2>2, <2>4 DEF Crash, Fault, TypeOK
<1>3. CASE Break
  <2>1. Cut /\ faults' \in Nat /\ UNCHANGED <<changes, redis, store, missed>>
    BY <1>3 DEF Break, Fault, TypeOK
  <2>2. /\ stream' = Nobody /\ closing' \in BOOLEAN
        /\ opening' \in BOOLEAN /\ inbox' \in SUBSET {"live", "history"}
    BY <2>1, CutType
  <2>3. QED BY <2>1, <2>2 DEF TypeOK
<1>4. QED BY <1>1, <1>2, <1>3 DEF Streaming

LEMMA ShowingType == ASSUME TypeOK, Showing PROVE TypeOK'
<1> USE DEF redis, connection
<1>1. CASE Start
  BY <1>1, RefreshType DEF Start, TypeOK
<1>2. CASE Stop
  BY <1>2 DEF Stop, TypeOK
<1>3. CASE Opened
  BY <1>3, RefreshType DEF Opened, TypeOK
<1>4. ASSUME Disconnected
      PROVE  /\ tab' = "reconnecting" /\ timer' = TRUE /\ latest' \in Ask
             /\ asks' \in [Ask -> {"free", "sent", "answered"}]
             /\ missed' \in BOOLEAN /\ UNCHANGED <<read, shown>>
  BY <1>4, RefreshType DEF Disconnected, TypeOK
<1>5. CASE Closed
  BY <1>4, <1>5 DEF Closed, TypeOK
<1>6. CASE Refused
  BY <1>4, <1>6 DEF Refused, Fault, TypeOK
<1>7. CASE Poll
  BY <1>7, RefreshType DEF Poll, TypeOK
<1>8. ASSUME NEW e \in inbox, Receive(e) PROVE TypeOK'
  BY <1>8, RefreshType DEF Receive, TypeOK
<1>9. ASSUME NEW a \in Ask, Count(a) PROVE TypeOK'
  BY <1>9 DEF Count, TypeOK
<1>10. ASSUME NEW a \in Ask, Show(a) PROVE TypeOK'
  BY <1>10 DEF Show, TypeOK
<1>11. ASSUME NEW a \in Ask, AskFails(a) PROVE TypeOK'
  BY <1>11 DEF AskFails, Fault, TypeOK
<1>12. QED BY <1>1, <1>2, <1>3, <1>5, <1>6, <1>7, <1>8, <1>9, <1>10, <1>11 DEF Showing

LEMMA NextType == TypeOK /\ [Next]_vars => TypeOK'
<1> SUFFICES ASSUME TypeOK, [Next]_vars PROVE TypeOK'
  OBVIOUS
<1>1. CASE UNCHANGED vars
  BY <1>1 DEF vars, redis, connection, store, TypeOK
<1>2. QED BY <1>1, AnnouncingType, StreamingType, ShowingType DEF Next

(* Every variable keeps its type; in particular a tab with a stream does    *)
(* not poll.                                                                *)
THEOREM TypeCorrect == Spec => []TypeOK
BY InitType, NextType, PTL DEF Spec
-----------------------------------------------------------------------------
(* What the tab shows                                                       *)

(* a tab that has or is opened a stream that has ended will notice          *)
LinkInv ==
  /\ tab = "connected" /\ stream = Nobody => closing
  /\ opening /\ stream = Nobody => closing

(* the change that the tab shows, or will show once it has its answer       *)
Prospect ==
  IF asks[latest] = "free" THEN shown
  ELSE IF asks[latest] = "sent" THEN changes ELSE read[latest]

(* the stream has not been given the change, or sent it through Redis       *)
Awaited(c) == c.step = "local" \/ (c.step = "redis" /\ stream # c.at)

(* what will make the tab ask, after the last change                        *)
Coming ==
  \/ missed \/ tab # "connected" \/ opening \/ inbox # {} \/ closing
  \/ \E c \in due : c.n = changes /\ Awaited(c)
  \/ \E m \in channel : m.n = changes /\ m.for = stream /\ m.from # stream

CountInv == LinkInv /\ (Prospect = changes \/ Coming)

LEMMA RefreshCounts ==
  ASSUME TypeOK, Refresh, LinkInv' PROVE CountInv'
<1>1. Prospect' = changes'
  BY RefreshType DEF TypeOK, Prospect
<1>2. QED BY <1>1 DEF CountInv

LEMMA AnnouncingCounts == ASSUME TypeOK, CountInv, Announcing PROVE CountInv'
<1> USE DEF redis, connection, store, CountInv
<1>1. ASSUME NEW p \in Proc, Change(p) PROVE CountInv'
  <2> DEFINE d == [n |-> changes + 1, at |-> p, step |-> "local"]
  <2>0. d \in due' /\ d.n = changes' /\ d.step = "local"
    BY <1>1 DEF Change
  <2>1. \E c \in due' : c.n = changes' /\ c.step = "local"
    BY <2>0
  <2> HIDE DEF d
  <2>2. QED BY <1>1, <2>1 DEF Change, Coming, Awaited, LinkInv
<1>2. ASSUME NEW p \in Proc, Unsubscribe(p) \/ Subscribe(p) PROVE CountInv'
  <2>1. Prospect' = Prospect /\ LinkInv'
    BY <1>2 DEF Unsubscribe, Subscribe, Prospect, LinkInv
  <2>2. Coming => Coming'
    BY <1>2 DEF Unsubscribe, Subscribe, Coming, Awaited
  <2>3. QED BY <1>2, <2>1, <2>2 DEF Unsubscribe, Subscribe
<1>3. ASSUME NEW c \in due, EmitLocal(c) PROVE CountInv'
  <2>1. c \in Call /\ c.at \in Proc /\ c.n \in Nat
    BY DEF TypeOK, Call
  <2>2. UNCHANGED <<changes, channel, store, missed, stream, opening, closing>>
    BY <1>3, <2>1, EmitType DEF EmitLocal
  <2>3. Prospect' = Prospect /\ LinkInv'
    BY <2>2 DEF Prospect, LinkInv
  <2>4. CASE stream = c.at
    <3>1. inbox' # {}
      BY <1>3, <2>4 DEF EmitLocal, Emit
    <3>2. QED BY <2>3, <3>1 DEF Coming
  <2>5. CASE stream # c.at
    <3>1. inbox' = inbox
      BY <1>3, <2>5 DEF EmitLocal, Emit
    <3>2. DEFINE d == [c EXCEPT !.step = "redis"]
    <3>3. d.n = c.n /\ d.at = c.at /\ d.step = "redis" /\ due' = (due \ {c}) \cup {d}
      BY <1>3, <2>1 DEF EmitLocal, Call
    <3> HIDE DEF d
    <3>4. Coming => Coming'
      BY <2>2, <2>5, <3>1, <3>3 DEF Coming, Awaited
    <3>5. QED BY <2>2, <2>3, <3>4
  <2>6. QED BY <2>4, <2>5
<1>4. ASSUME NEW c \in due, Publish(c) \/ PublishAgain(c) PROVE CountInv'
  <2>1. Deliver(c) /\ UNCHANGED <<changes, up, connection, store>>
    BY <1>4 DEF Publish, PublishAgain
  <2>2. Prospect' = Prospect /\ LinkInv'
    BY <2>1 DEF Prospect, LinkInv
  <2>3. \A d \in due : d # c => d \in due'
    BY <1>4 DEF Publish, PublishAgain
  <2>4. channel \subseteq channel' /\ (missed => missed')
    BY <2>1 DEF Deliver
  <2>5. ASSUME c.n = changes, Awaited(c), tab = "connected", ~closing PROVE Coming'
    <3>1. stream # Nobody /\ c.step = "redis" /\ stream # c.at
      BY <1>4, <2>5 DEF LinkInv, Awaited, Publish, PublishAgain
    <3>2. CASE stream \in up
      <4> DEFINE m == [n |-> c.n, from |-> c.at, for |-> stream]
      <4>1. m \in channel' /\ m.n = c.n /\ m.for = stream /\ m.from = c.at
        BY <2>1, <3>2 DEF Deliver
      <4> HIDE DEF m
      <4>2. QED BY <2>1, <2>5, <3>1, <4>1 DEF Coming
    <3>3. CASE stream \notin up
      BY <2>1, <3>1, <3>3 DEF Deliver, Coming
    <3>4. QED BY <3>2, <3>3
  <2>6. Coming => Coming'
    BY <2>1, <2>3, <2>4, <2>5 DEF Coming, Awaited
  <2>7. QED BY <2>1, <2>2, <2>6
<1>5. ASSUME NEW c \in due, PublishFails(c) PROVE CountInv'
  <2>1. Prospect' = Prospect /\ LinkInv'
    BY <1>5 DEF PublishFails, Prospect, LinkInv
  <2>2. UNCHANGED <<changes, channel, connection, store>> /\ (missed => missed')
    BY <1>5 DEF PublishFails
  <2>3. ASSUME c.n = changes, Awaited(c), tab = "connected", ~closing PROVE missed'
    BY <1>5, <2>3 DEF PublishFails, Awaited, LinkInv
  <2>4. \A d \in due : d # c => d \in due'
    BY <1>5 DEF PublishFails
  <2>5. Coming => Coming'
    BY <2>2, <2>3, <2>4 DEF Coming, Awaited
  <2>6. QED BY <2>1, <2>2, <2>5
<1>6. ASSUME NEW m \in channel, Consume(m) PROVE CountInv'
  <2>1. m.for \in Proc /\ m.n \in Nat
    BY DEF TypeOK, Message
  <2>2. CASE m.from # m.for /\ stream = m.for
    <3>1. inbox' # {} /\ UNCHANGED <<changes, store, stream, opening, closing>>
      BY <1>6, <2>2 DEF Consume, Emit
    <3>2. QED BY <3>1 DEF Coming, LinkInv
  <2>3. CASE m.from = m.for \/ stream # m.for
    <3>1. UNCHANGED <<changes, due, store, missed, connection>> /\ channel' = channel \ {m}
      BY <1>6, <2>3 DEF Consume, Emit
    <3>2. Prospect' = Prospect /\ LinkInv'
      BY <3>1 DEF Prospect, LinkInv
    <3>3. Coming => Coming'
      BY <2>3, <3>1 DEF Coming, Awaited
    <3>4. QED BY <3>1, <3>2, <3>3
  <2>4. QED BY <2>2, <2>3
<1>7. QED BY <1>1, <1>2, <1>3, <1>4, <1>5, <1>6 DEF Announcing

LEMMA StreamingCounts == ASSUME TypeOK, CountInv, Streaming PROVE CountInv'
<1> USE DEF redis, connection, store, CountInv
<1>1. ASSUME NEW p \in Proc, Connect(p) PROVE CountInv'
  BY <1>1 DEF Connect, Coming, LinkInv
<1>2. ASSUME Cut PROVE Coming' /\ LinkInv'
  BY <1>2 DEF Cut, Coming, LinkInv
<1>3. ASSUME NEW p \in Proc, Crash(p), stream # p PROVE CountInv'
  <2>1. UNCHANGED <<changes, store, connection>>
    BY <1>3 DEF Crash
  <2>2. Prospect' = Prospect /\ LinkInv'
    BY <2>1 DEF Prospect, LinkInv
  <2>3. ASSUME NEW c \in due, c.n = changes, Awaited(c) PROVE Coming'
    BY <1>3, <2>1, <2>3 DEF Crash, Coming, Awaited, LinkInv
  <2>4. ASSUME NEW m \in channel, m.n = changes, m.for = stream, m.from # stream PROVE Coming'
    BY <1>3, <2>1, <2>4 DEF Crash, Coming
  <2>5. missed \/ tab # "connected" \/ opening \/ inbox # {} \/ closing => Coming'
    BY <1>3, <2>1 DEF Crash, Coming
  <2>6. QED BY <2>1, <2>2, <2>3, <2>4, <2>5 DEF Coming
<1>4. QED BY <1>1, <1>2, <1>3 DEF Streaming, Crash, Break

LEMMA ShowingCounts == ASSUME TypeOK, CountInv, Showing PROVE CountInv'
<1> USE DEF redis, connection, CountInv
<1>1. CASE Start \/ Stop \/ Closed \/ Refused
  BY <1>1 DEF Start, Stop, Closed, Refused, Disconnected, Coming, LinkInv
<1>2. CASE Opened
  <2>1. LinkInv'
    BY <1>2 DEF Opened, LinkInv
  <2>2. QED BY <1>2, <2>1, RefreshCounts DEF Opened
<1>3. CASE Poll
  BY <1>3, RefreshCounts DEF Poll, LinkInv
<1>4. ASSUME NEW e \in inbox, Receive(e) PROVE CountInv'
  BY <1>4, RefreshCounts DEF Receive, LinkInv
<1>5. ASSUME NEW a \in Ask, Count(a) PROVE CountInv'
  <2>1. LinkInv' /\ (Coming => Coming') /\ changes' = changes
    BY <1>5 DEF Count, LinkInv, Coming, Awaited
  <2>2. CASE a = latest
    <3>1. Prospect' = changes'
      BY <1>5, <2>2 DEF Count, Prospect, TypeOK
    <3>2. QED BY <2>1, <3>1
  <2>3. CASE a # latest
    <3>1. Prospect' = Prospect
      BY <1>5, <2>3 DEF Count, Prospect, TypeOK
    <3>2. QED BY <2>1, <3>1
  <2>4. QED BY <2>2, <2>3
<1>6. ASSUME NEW a \in Ask, Show(a) PROVE CountInv'
  <2>1. LinkInv' /\ (Coming => Coming') /\ changes' = changes
    BY <1>6 DEF Show, LinkInv, Coming, Awaited
  <2>2. CASE a = latest
    <3>1. Prospect' = Prospect
      BY <1>6, <2>2 DEF Show, Prospect, TypeOK
    <3>2. QED BY <2>1, <3>1
  <2>3. CASE a # latest
    <3>1. Prospect' = Prospect
      BY <1>6, <2>3 DEF Show, Prospect, TypeOK
    <3>2. QED BY <2>1, <3>1
  <2>4. QED BY <2>2, <2>3
<1>7. ASSUME NEW a \in Ask, AskFails(a) PROVE CountInv'
  <2>1. LinkInv' /\ (Coming => Coming') /\ changes' = changes
    BY <1>7 DEF AskFails, LinkInv, Coming, Awaited
  <2>2. CASE a = latest
    BY <1>7, <2>1, <2>2 DEF AskFails, Coming, TypeOK
  <2>3. CASE a # latest
    <3>1. Prospect' = Prospect
      BY <1>7, <2>3 DEF AskFails, Prospect, TypeOK
    <3>2. QED BY <2>1, <3>1
  <2>4. QED BY <2>2, <2>3
<1>8. QED BY <1>1, <1>2, <1>3, <1>4, <1>5, <1>6, <1>7 DEF Showing

LEMMA CountStep == TypeOK /\ CountInv /\ [Next]_vars => CountInv'
<1>1. CountInv /\ UNCHANGED vars => CountInv'
  BY DEF vars, redis, connection, store, CountInv, LinkInv, Prospect, Coming, Awaited
<1>2. QED BY <1>1, AnnouncingCounts, StreamingCounts, ShowingCounts DEF Next

(* However events, streams and answers overtake each other, once nothing is *)
(* under way a tab with a stream shows the count there is, unless it lost   *)
(* an event or an answer and has not asked since.                          *)
THEOREM CountComesOut == Spec => []CountIsCurrent
<1>1. Init => CountInv
  <2>1. Init => tab = "idle" /\ ~opening
    BY DEF Init
  <2>2. QED BY <2>1 DEF CountInv, LinkInv, Coming
<1>2. CountInv => CountIsCurrent
  <2> SUFFICES ASSUME CountInv, Settled, ~missed PROVE shown = changes
    BY DEF CountIsCurrent
  <2>1. ~Coming
    BY DEF Settled, Coming
  <2>2. Prospect = shown
    BY DEF Settled, Outstanding, Prospect
  <2>3. QED BY <2>1, <2>2 DEF CountInv
<1>3. QED BY <1>1, <1>2, CountStep, TypeCorrect, PTL DEF Spec
-----------------------------------------------------------------------------
(* Counts only become newer                                                 *)

(* No count is newer than the changes; the answer the tab waits for was     *)
(* read after what it shows.                                                *)
ReadInv ==
  /\ shown <= changes
  /\ \A a \in Ask : read[a] <= changes
  /\ asks[latest] = "answered" => read[latest] >= shown

(* A request just made has no answer.                                       *)
LEMMA RefreshReads ==
  ASSUME TypeOK, ReadInv, Refresh, changes' = changes PROVE ReadInv' /\ shown' = shown
<1>1. latest' \in Ask /\ asks'[latest'] = "sent" /\ UNCHANGED <<read, shown>>
  BY RefreshType DEF TypeOK
<1>2. QED BY <1>1 DEF ReadInv

LEMMA OthersRead ==
  ASSUME TypeOK, ReadInv, Announcing \/ Streaming PROVE ReadInv' /\ shown' = shown
<1>1. UNCHANGED <<asks, read, latest, shown>> /\ (changes' = changes \/ changes' = changes + 1)
  <2>1. CASE Announcing
    BY <2>1 DEF Announcing, Change, Unsubscribe, Subscribe, EmitLocal, Publish, PublishAgain,
                PublishFails, Consume, store
  <2>2. CASE Streaming
    BY <2>2 DEF Streaming, Connect, Crash, Break, store
  <2>3. QED BY <2>1, <2>2
<1>2. changes \in Nat /\ shown \in Nat /\ latest \in Ask /\ \A a \in Ask : read[a] \in Nat
  BY DEF TypeOK
<1>3. QED BY <1>1, <1>2 DEF ReadInv

LEMMA ShowingReads ==
  ASSUME TypeOK, ReadInv, Showing PROVE ReadInv' /\ shown' >= shown
<1>0. changes \in Nat /\ shown \in Nat /\ latest \in Ask /\ \A a \in Ask : read[a] \in Nat
  BY DEF TypeOK
<1>1. CASE Refresh /\ changes' = changes
  BY <1>0, <1>1, RefreshReads
<1>2. CASE UNCHANGED <<changes, asks, read, latest, shown>>
  BY <1>0, <1>2 DEF ReadInv
<1>3. ASSUME NEW a \in Ask, Count(a) PROVE ReadInv' /\ shown' >= shown
  <2>1. /\ asks' = [asks EXCEPT ![a] = "answered"] /\ read' = [read EXCEPT ![a] = changes]
        /\ UNCHANGED <<changes, latest, shown>>
    BY <1>3 DEF Count
  <2>2. \A b \in Ask : read'[b] = (IF b = a THEN changes ELSE read[b])
    BY <2>1 DEF TypeOK
  <2>3. latest # a => asks'[latest] = asks[latest]
    BY <2>1 DEF TypeOK
  <2>4. QED BY <1>0, <2>1, <2>2, <2>3 DEF ReadInv
<1>4. ASSUME NEW a \in Ask, Show(a) \/ AskFails(a) PROVE ReadInv' /\ shown' >= shown
  <2>1. /\ asks' = [asks EXCEPT ![a] = "free"] /\ read' = [read EXCEPT ![a] = 0]
        /\ UNCHANGED <<changes, latest>>
        /\ shown' = shown \/ (asks[latest] = "answered" /\ a = latest /\ shown' = read[latest])
    BY <1>4 DEF Show, AskFails
  <2>2. \A b \in Ask : read'[b] = (IF b = a THEN 0 ELSE read[b])
    BY <2>1 DEF TypeOK
  <2>3. asks'[latest] = (IF latest = a THEN "free" ELSE asks[latest])
    BY <2>1 DEF TypeOK
  <2>4. QED BY <1>0, <2>1, <2>2, <2>3 DEF ReadInv
<1>5. QED
  BY <1>1, <1>2, <1>3, <1>4
  DEF Showing, Start, Stop, Opened, Closed, Refused, Disconnected, Poll, Receive

LEMMA ReadStep == TypeOK /\ ReadInv /\ [Next]_vars => ReadInv' /\ shown' >= shown
<1>1. TypeOK /\ ReadInv /\ UNCHANGED vars => ReadInv' /\ shown' >= shown
  BY DEF TypeOK, ReadInv, vars, store
<1>2. TypeOK /\ shown' = shown => shown' >= shown
  BY DEF TypeOK
<1>3. QED BY <1>1, <1>2, OthersRead, ShowingReads DEF Next

(* However many requests are under way, and in whatever order they are      *)
(* answered, the count a tab shows is never replaced by an older one.       *)
THEOREM CountsStayNew == Spec => CountNeverGoesBack
<1>1. Init => ReadInv
  BY DEF Init, ReadInv
<1>2. TypeOK /\ ReadInv /\ [Next]_vars => [shown' >= shown]_vars
  BY ReadStep
<1>3. QED BY <1>1, <1>2, ReadStep, TypeCorrect, PTL DEF Spec, CountNeverGoesBack
=============================================================================
