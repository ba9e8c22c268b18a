---------------------------- MODULE NoticeStreams ----------------------------
(***************************************************************************)
(* How a user's browser tab learns that his messages changed: the process  *)
(* of apps/api that made the change announces it (NoticeEventService), to  *)
(* the streams it holds itself and through a Redis channel to those other  *)
(* processes hold (MessageStreamController); the tab asks for the number   *)
(* of unread messages whenever its stream opens or brings an event, and    *)
(* polls while it has no stream (stores/notifications.ts of apps/web).     *)
(*                                                                         *)
(* The changes of the user's messages are numbered; what a number stands   *)
(* for, and which event announces it, makes no difference: every event     *)
(* makes the tab ask.  That is also why a stream is a set: the order in     *)
(* which history and live events come is not kept.                         *)
(***************************************************************************)
EXTENDS Naturals

CONSTANTS
  Proc,
  Nobody,     \* no process
  Ask,        \* bound: requests for the count that are under way at once
  MaxChange,  \* bound on the changes of the messages
  MaxFaults   \* bound on what goes wrong

ASSUME ProcAssumption == Nobody \notin Proc
ASSUME AskAssumption == Ask # {}
ASSUME BoundsAssumption == MaxChange \in Nat /\ MaxFaults \in Nat

VARIABLES
  changes,   \* MySQL: how often the messages have changed
  due,       \* calls of publishToUsers under way
  channel,   \* messages of the Redis channel, for one subscriber each
  up,        \* the processes whose subscription is in force
  faults,
  stream,    \* the process that holds the tab's stream
  opening,   \* the head of the response is on its way to the tab
  inbox,     \* events on their way to the tab
  closing,   \* the tab will notice that it has no stream
  tab,       \* connectionState
  fatal,     \* fetchEventSource has given up
  timer,     \* it polls
  asks,      \* requests for the count
  read,      \* the count they were answered with
  latest,    \* the request of refreshSequence
  shown,     \* unreadCount: the change it was read after
  missed     \* history: an event or an answer was lost, nothing asked since

redis == <<due, channel, up>>
connection == <<stream, opening, inbox, closing>>
store == <<tab, fatal, timer, asks, read, latest, shown>>
vars == <<changes, redis, faults, connection, store, missed>>

Call == [n : Nat, at : Proc, step : {"local", "redis", "again"}]
Message == [n : Nat, from : Proc, for : Proc]

TypeOK ==
  /\ changes \in Nat
  /\ due \in SUBSET Call
  /\ channel \in SUBSET Message
  /\ up \in SUBSET Proc
  /\ faults \in Nat
  /\ stream \in Proc \cup {Nobody}
  /\ opening \in BOOLEAN
  /\ inbox \in SUBSET {"live", "history"}
  /\ closing \in BOOLEAN
  /\ tab \in {"idle", "connecting", "connected", "reconnecting"}
  /\ fatal \in BOOLEAN
  /\ timer \in BOOLEAN
  /\ asks \in [Ask -> {"free", "sent", "answered"}]
  /\ read \in [Ask -> Nat]
  /\ latest \in Ask
  /\ shown \in Nat
  /\ missed \in BOOLEAN
  /\ timer => tab = "reconnecting"
  /\ stream # Nobody => tab # "idle" /\ ~closing

Init ==
  /\ changes = 0
  /\ due = {}
  /\ channel = {}
  /\ up = Proc
  /\ faults = 0
  /\ stream = Nobody
  /\ opening = FALSE
  /\ inbox = {}
  /\ closing = FALSE
  /\ tab = "idle"
  /\ fatal = FALSE
  /\ timer = FALSE
  /\ asks = [a \in Ask |-> "free"]
  /\ read = [a \in Ask |-> 0]
  /\ latest \in Ask   \* none was made: any will do
  /\ shown = 0
  /\ missed = FALSE

Fault == faults < MaxFaults /\ faults' = faults + 1
-----------------------------------------------------------------------------
(* NoticeEventService                                                       *)

(* a change is committed by p, which calls publishToUsers                   *)
Change(p) ==
  /\ changes < MaxChange
  /\ changes' = changes + 1
  /\ due' = due \cup {[n |-> changes + 1, at |-> p, step |-> "local"]}
  /\ UNCHANGED <<channel, up, faults, connection, store, missed>>

(* emitLocal: the event goes to the stream, if p holds it                   *)
Emit(p) ==
  /\ inbox' = IF stream = p THEN inbox \cup {"live"} ELSE inbox
  /\ UNCHANGED <<stream, opening, closing>>

(* publishToUsers: emitLocal                                                *)
EmitLocal(c) ==
  /\ c \in due /\ c.step = "local"
  /\ Emit(c.at)
  /\ due' = (due \ {c}) \cup {[c EXCEPT !.step = "redis"]}
  /\ UNCHANGED <<changes, channel, up, faults, store, missed>>

(* a PUBLISH takes effect, for who is subscribed; the first time it is      *)
(* lost for the stream of a process that is not                            *)
Deliver(c) ==
  /\ channel' = channel \cup {[n |-> c.n, from |-> c.at, for |-> p] : p \in up}
  /\ missed' = (missed \/ (c.step = "redis" /\ stream \notin up \cup {c.at, Nobody}))

(* publishToUsers: PUBLISH, of the chunk the user is in; whether it is       *)
(* answered or fails after all makes no difference                         *)
Publish(c) ==
  /\ c \in due /\ c.step # "local"
  /\ Deliver(c)
  /\ due' = due \ {c}
  /\ UNCHANGED <<changes, up, faults, connection, store>>

(* its answer is lost: ioredis sends it again                               *)
PublishAgain(c) ==
  /\ c \in due /\ c.step # "local" /\ Fault
  /\ Deliver(c)
  /\ due' = (due \ {c}) \cup {[c EXCEPT !.step = "again"]}
  /\ UNCHANGED <<changes, up, connection, store>>

(* publishToUsers: Redis is not ready, an earlier chunk fails, or this one  *)
PublishFails(c) ==
  /\ c \in due /\ c.step # "local" /\ Fault
  /\ due' = due \ {c}
  /\ missed' = (missed \/ (c.step = "redis" /\ stream \notin {c.at, Nobody}))
  /\ UNCHANGED <<changes, channel, up, connection, store>>

(* consumeRedisMessage: what the process has published itself it ignores    *)
Consume(m) ==
  /\ m \in channel
  /\ channel' = channel \ {m}
  /\ IF m.from = m.for THEN UNCHANGED connection ELSE Emit(m.for)
  /\ UNCHANGED <<changes, due, up, faults, store, missed>>

(* the subscription of p breaks, and its messages are gone                  *)
Unsubscribe(p) ==
  /\ p \in up /\ Fault
  /\ up' = up \ {p}
  /\ channel' = {m \in channel : m.for # p}
  /\ missed' = (missed \/ \E m \in channel : m.for = p /\ m.from # p /\ stream = p)
  /\ UNCHANGED <<changes, due, connection, store>>

(* subscribeRedis: the connection is ready                                  *)
Subscribe(p) ==
  /\ p \notin up
  /\ up' = up \cup {p}
  /\ UNCHANGED <<changes, due, channel, faults, connection, store, missed>>
-----------------------------------------------------------------------------
(* The stream                                                               *)

(* MessageStreamController.stream at p; the request may have a              *)
(* Last-Event-ID, and findMissedEvents find events for it                  *)
Connect(p) ==
  /\ tab \in {"connecting", "reconnecting"} /\ ~fatal
  /\ stream = Nobody /\ ~closing
  /\ stream' = p
  /\ opening' = TRUE
  /\ inbox' \in {{}, {"history"}}
  /\ UNCHANGED <<changes, redis, faults, closing, store, missed>>

(* the stream ends; of what was on its way to the tab anything may arrive   *)
Cut ==
  /\ stream' = Nobody
  /\ opening' \in {opening, FALSE}
  /\ inbox' \in IF opening' = opening THEN SUBSET inbox ELSE {{}}
  /\ closing' = TRUE

Break ==
  /\ stream # Nobody /\ Fault /\ Cut
  /\ UNCHANGED <<changes, redis, store, missed>>

(* p dies and starts again                                                  *)
Crash(p) ==
  /\ Fault
  /\ due' = {c \in due : c.at # p}
  /\ channel' = {m \in channel : m.for # p}
  /\ up' = up \ {p}
  /\ IF stream = p THEN Cut ELSE UNCHANGED connection
  /\ missed' = (missed \/ (stream \notin {p, Nobody} /\ \E c \in due : c.at = p /\ c.step # "again"))
  /\ UNCHANGED <<changes, store>>
-----------------------------------------------------------------------------
(* The tab: stores/notifications.ts                                         *)

Outstanding(a) == asks[a] # "free"

(* refreshUnreadCount, up to its await *)
Refresh ==
  /\ \E a \in Ask : ~Outstanding(a)
  /\ latest' = CHOOSE a \in Ask : ~Outstanding(a)
  /\ asks' = [asks EXCEPT ![latest'] = "sent"]
  /\ missed' = FALSE
  /\ UNCHANGED <<read, shown>>

(* startRealtime, of the mounted header *)
Start ==
  /\ tab = "idle"
  /\ tab' = "connecting"
  /\ Refresh
  /\ UNCHANGED <<changes, redis, faults, connection, fatal, timer>>

(* stopRealtime *)
Stop ==
  /\ tab # "idle"
  /\ tab' = "idle"
  /\ stream' = Nobody /\ opening' = FALSE /\ inbox' = {} /\ closing' = FALSE
  /\ fatal' = FALSE
  /\ timer' = FALSE
  /\ UNCHANGED <<changes, redis, faults, asks, read, latest, shown, missed>>

(* mutation: the tab goes on polling *)
OpenedPolling ==
  /\ opening /\ opening' = FALSE
  /\ tab' = "connected"
  /\ Refresh
  /\ UNCHANGED <<changes, redis, faults, stream, inbox, closing, fatal, timer>>

(* onConnected *)
Opened ==
  /\ opening /\ opening' = FALSE
  /\ tab' = "connected"
  /\ timer' = FALSE
  /\ Refresh
  /\ UNCHANGED <<changes, redis, faults, stream, inbox, closing, fatal>>

(* onEvent *)
Receive(e) ==
  /\ ~opening /\ e \in inbox
  /\ inbox' = inbox \ {e}
  /\ Refresh
  /\ UNCHANGED <<changes, redis, faults, stream, opening, closing, tab, fatal, timer>>

(* mutation: the tab waits for the stream to come back *)
DisconnectedWaiting ==
  tab' = "reconnecting" /\ UNCHANGED <<timer, asks, read, latest, shown, missed>>

(* onDisconnected: startPolling, which asks at once *)
Disconnected ==
  /\ tab' = "reconnecting"
  /\ timer' = TRUE
  /\ IF timer THEN UNCHANGED <<asks, read, latest, shown, missed>> ELSE Refresh

(* onclose and onerror of the stream that has ended *)
Closed ==
  /\ closing /\ ~opening /\ inbox = {}
  /\ closing' = FALSE
  /\ Disconnected
  /\ UNCHANGED <<changes, redis, faults, stream, opening, inbox, fatal>>

(* onerror: no stream was opened, for now or, after a 4xx, for good         *)
Refused ==
  /\ tab \in {"connecting", "reconnecting"} /\ ~fatal
  /\ stream = Nobody /\ ~closing /\ Fault
  /\ fatal' \in BOOLEAN
  /\ Disconnected
  /\ UNCHANGED <<changes, redis, connection>>

(* the timer; its period is longer than the timeout of the request it made  *)
Poll ==
  /\ timer /\ ~Outstanding(latest)
  /\ Refresh
  /\ UNCHANGED <<changes, redis, faults, connection, tab, fatal, timer>>

(* MessageService.unreadCount *)
Count(a) ==
  /\ asks[a] = "sent"
  /\ asks' = [asks EXCEPT ![a] = "answered"]
  /\ read' = [read EXCEPT ![a] = changes]
  /\ UNCHANGED <<changes, redis, faults, connection, tab, fatal, timer, latest, shown, missed>>

(* mutation: every answer is shown *)
ShowAny(a) ==
  /\ asks[a] = "answered"
  /\ asks' = [asks EXCEPT ![a] = "free"]
  /\ read' = [read EXCEPT ![a] = 0]
  /\ shown' = read[a]
  /\ UNCHANGED <<changes, redis, faults, connection, tab, fatal, timer, latest, missed>>

(* refreshUnreadCount, after its await: answers overtaken are not shown     *)
Show(a) ==
  /\ asks[a] = "answered"
  /\ asks' = [asks EXCEPT ![a] = "free"]
  /\ read' = [read EXCEPT ![a] = 0]
  /\ shown' = IF a = latest THEN read[a] ELSE shown
  /\ UNCHANGED <<changes, redis, faults, connection, tab, fatal, timer, latest, missed>>

(* refreshUnreadCount: the request fails, and only the timer makes another  *)
AskFails(a) ==
  /\ Outstanding(a) /\ Fault
  /\ asks' = [asks EXCEPT ![a] = "free"]
  /\ read' = [read EXCEPT ![a] = 0]
  /\ missed' = (missed \/ (a = latest /\ ~timer))
  /\ UNCHANGED <<changes, redis, connection, tab, fatal, timer, latest, shown>>
-----------------------------------------------------------------------------
Announcing ==
  \/ \E p \in Proc : Change(p) \/ Unsubscribe(p) \/ Subscribe(p)
  \/ \E c \in due : EmitLocal(c) \/ Publish(c) \/ PublishAgain(c) \/ PublishFails(c)
  \/ \E m \in channel : Consume(m)

Streaming ==
  \/ \E p \in Proc : Connect(p) \/ Crash(p)
  \/ Break

Showing ==
  \/ Start \/ Stop
  \/ Opened \/ Closed \/ Refused \/ Poll
  \/ \E e \in inbox : Receive(e)
  \/ \E a \in Ask : Count(a) \/ Show(a) \/ AskFails(a)

Next == Announcing \/ Streaming \/ Showing

Spec == Init /\ [][Next]_vars

(* Calls and messages go on, broken connections are tried again, the tab     *)
(* handles what arrives, requests are answered and the timer runs.          *)
FairSpec ==
  /\ Spec
  /\ WF_vars(\E c \in due : EmitLocal(c) \/ Publish(c))
  /\ WF_vars(\E m \in channel : Consume(m))
  /\ WF_vars(\E p \in Proc : Connect(p))
  /\ WF_vars(Opened) /\ WF_vars(Closed) /\ WF_vars(Poll)
  /\ WF_vars(\E e \in inbox : Receive(e))
  /\ \A a \in Ask : WF_vars(Count(a) \/ Show(a))
-----------------------------------------------------------------------------
(* nothing is under way to the tab, and it has a stream                     *)
Settled ==
  /\ due = {} /\ channel = {}
  /\ tab = "connected" /\ ~opening /\ inbox = {} /\ ~closing
  /\ ~Outstanding(latest)

(* Once nothing is under way, a tab with a stream shows the count there is, *)
(* however announcements, streams and answers have overtaken each other,   *)
(* unless an event was lost or the request it made failed and it has not   *)
(* asked since: a tab with a stream does not poll (notifications.ts:53).   *)
CountIsCurrent == Settled => shown = changes \/ missed

(* The count a tab shows never goes back to an older one, in whatever order  *)
(* the requests it makes are answered: the answer of a request that a later *)
(* one has overtaken is not shown (refreshSequence, notifications.ts:30).   *)
CountNeverGoesBack == [][shown' >= shown]_vars

(* A tab comes to show every change, with its stream or, while it has none, *)
(* by polling; unless it loses an event or an answer while it has a stream, *)
(* from which only the next event saves it.                                *)
CountCatchesUp ==
  \A n \in 1 .. MaxChange :
    (changes >= n /\ tab # "idle") ~> (shown >= n \/ missed \/ tab = "idle")
=============================================================================
