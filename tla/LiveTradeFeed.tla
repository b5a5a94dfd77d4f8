--------------------------- MODULE LiveTradeFeed ---------------------------
(***************************************************************************)
(* bitstamp/livefeed.py over bitstamp/wsclient.py, websocket/pusher.py and *)
(* websocket/client.py: a bar feed that makes a bar of every trade that a  *)
(* websocket client, in a thread of its own, puts in its queue.            *)
(*                                                                         *)
(* The main thread ("stage") waits for the client to be connected, then    *)
(* dispatches one event of the queue and one bar in every turn.  When the  *)
(* client is disconnected it starts another one, with another queue, and   *)
(* waits again.  The client ("link") detects a server that went silent by  *)
(* keep-alives that a callback checks every second (Tick).  Times are kept *)
(* as ages in seconds, up to the largest one that matters.                 *)
(***************************************************************************)
EXTENDS Integers, SequencesExt, FiniteSetsExt

CONSTANTS
  MaxInactivity,    (* KeepAliveMgr: seconds without a message             *)
  ResponseTimeout,  (* KeepAliveMgr: seconds to answer a keep-alive        *)
  Reconnect,        (* LiveTradeFeed.__enableReconnection                  *)
  MaxTrades,        (* bound: trades, and the times of the clock           *)
  MaxFaults,        (* bound: failed connections, pings, lost connections  *)
  MaxEvents         (* bound: events in the queue when another trade comes *)
                    (* or another disconnection is detected                *)

ASSUME LiveTradeFeedAssumption ==
  /\ MaxInactivity \in Nat \ {0} /\ ResponseTimeout \in Nat \ {0}
  /\ Reconnect \in BOOLEAN
  /\ MaxTrades \in Nat /\ MaxFaults \in Nat /\ MaxEvents \in Nat

VARIABLES
  stage,       (* where the main thread is                                 *)
  connected,   (* LiveTradeFeed.__wsClientConnected                        *)
  stopped,     (* LiveTradeFeed.__stopped                                  *)
  asked,       (* Dispatcher.stop was called                               *)
  barDicts,    (* LiveTradeFeed.__barDicts: bars to dispatch               *)
  prevTrade,   (* LiveTradeFeed.__prevTradeDateTime, 0 for None            *)
  current,     (* the datetime of BaseBarFeed.__currentBars, 0 for None    *)
  link,        (* the connection of the client thread                      *)
  cut,         (* the network drops everything without telling anyone      *)
  idle,        (* the age of KeepAliveMgr.__lastSeen                       *)
  kaSent,      (* the age of KeepAliveMgr.__kaSent, Never for None         *)
  subscribed,  (* Pusher established the connection: trades will come      *)
  unanswered,  (* a keep-alive of this connection has not been answered    *)
  queue,       (* WebSocketClientThread.__queue                            *)
  clock,       (* what datetime.now() gave for the last trade, in microseconds *)
  faults,      (* the faults so far                                        *)
  heard,       (* history: the age of the last message from the server     *)
  received,    (* history: how many trades the clients put in their queues *)
  missed,      (* history: those of them that the main thread cannot take  *)
  dispatched   (* history: trades whose bars were emitted                  *)

main    == <<stage, connected, stopped, asked, barDicts, prevTrade, current>>
client  == <<link, subscribed, idle, kaSent, unanswered, queue>>
world   == <<cut, clock, faults>>
history == <<heard, received, missed, dispatched>>
vars == <<main, client, world, history>>

Never == -1
Ages  == 0 .. MaxInactivity + ResponseTimeout + 3
Older(age) == IF age = Never THEN Never ELSE Min({age + 1, Max(Ages)})

(* closing: stopClient was called; dead: the thread has ended.             *)
IsAlive == link \notin {"none", "dead"}

Connected    == [type |-> "CONNECTED"]
Disconnected == [type |-> "DISCONNECTED"]
Trade(id, dateTime) == [type |-> "TRADE", id |-> id, dateTime |-> dateTime]

Ids(events) == [i \in DOMAIN events |-> events[i].id]

(* The numbers of a set, each once and in order.                           *)
Enumerates(s, numbers) ==
  /\ Range(s) = numbers
  /\ \A i, j \in DOMAIN s : i < j => s[i] < s[j]

Fault == faults < MaxFaults /\ faults' = faults + 1

Stages == {"start", "starting", "dispatch", "bars", "handler", "reconnecting", "sleeping",
           "stop", "join", "over"}
Waiting == {"starting", "reconnecting"}

Init ==
  /\ stage = "start" /\ connected = FALSE /\ stopped = FALSE /\ asked = FALSE
  /\ barDicts = <<>> /\ prevTrade = 0 /\ current = 0
  /\ link = "none" /\ cut = FALSE /\ subscribed = FALSE
  /\ idle = 0 /\ kaSent = Never /\ unanswered = FALSE
  /\ queue = <<>> /\ clock = 1 /\ faults = 0
  /\ heard = 0 /\ received = 0 /\ missed = {} /\ dispatched = <<>>

-----------------------------------------------------------------------------
(* The client thread *)

Put(event) == queue' = Append(queue, event)

(* Mutant: a message leaves the keep-alive waiting for its answer.         *)
SeenButAwaited == idle' = 0 /\ UNCHANGED kaSent

(* KeepAliveMgr.setAlive.                                                  *)
SetAlive == idle' = 0 /\ kaSent' = Never

(* WebSocketClientThread.run: connect, then the loop.                      *)
Opens ==
  /\ link = "connecting"
  /\ link' = "open" /\ SetAlive
  /\ heard' = 0
  /\ UNCHANGED <<subscribed, unanswered, queue, main, world, received, missed, dispatched>>

ConnectionFails ==
  /\ link = "connecting" /\ Fault
  /\ link' = "dead"
  /\ UNCHANGED <<subscribed, idle, kaSent, unanswered, queue, main, cut, clock, history>>

(* WebSocketClientBase.received_message: any message shows that the server *)
(* is alive.  Messages may still come while the connection is closing.     *)
Receive ==
  /\ link \in {"open", "closing"} /\ ~cut
  /\ SetAlive
  /\ heard' = 0
  /\ UNCHANGED <<link, main, cut, faults, dispatched>>

(* pusher:connection_established, once for each connection.                *)
OnConnectionEstablished ==
  /\ ~subscribed /\ Receive
  /\ subscribed' = TRUE
  /\ Put(Connected)
  /\ UNCHANGED <<unanswered, clock, received, missed>>

(* A pong belongs to the keep-alives and goes no further.                  *)
OnPong ==
  /\ unanswered /\ Receive
  /\ unanswered' = FALSE
  /\ UNCHANGED <<subscribed, queue, clock, received, missed>>

(* Pings, errors and events that nobody handles.                           *)
OnOtherMessage ==
  /\ Receive
  /\ UNCHANGED <<subscribed, unanswered, queue, clock, received, missed>>

(* What the main thread will take of a queue as it is: until it is         *)
(* connected, nothing before CONNECTED; and nothing after a DISCONNECTED.  *)
Deliverable(events) ==
  LET start == IF connected THEN 0 ELSE Min({i \in DOMAIN events : events[i] = Connected} \cup {Len(events)})
      ends  == {i \in start + 1 .. Len(events) : events[i] = Disconnected}
  IN SubSeq(events, start + 1, Min(ends \cup {Len(events) + 1}) - 1)

(* The trade gets the time of the clock, which may be that of the last one. *)
(* Trades are numbered as they come.  One that comes after a DISCONNECTED  *)
(* of its client is missed.                                                *)
OnTrade ==
  /\ subscribed /\ Receive
  /\ received < MaxTrades /\ Len(queue) < MaxEvents
  /\ received' = received + 1
  /\ \E dt \in {clock, Min({clock + 1, MaxTrades})} :
       /\ clock' = dt
       /\ Put(Trade(received + 1, dt))
       /\ missed' = IF Len(Deliverable(queue')) > Len(Deliverable(queue))
                    THEN missed ELSE missed \cup {received + 1}
  /\ UNCHANGED <<subscribed, unanswered>>

(* closed: from the server or after close_connection.  The loop ends, and  *)
(* with it the thread.                                                     *)
OnClosed ==
  /\ \/ link = "closing" /\ UNCHANGED faults
     \/ link = "open" /\ ~cut /\ Fault
  /\ link' = "dead"
  /\ Put(Disconnected)
  /\ UNCHANGED <<subscribed, idle, kaSent, unanswered, main, cut, clock, history>>

(* WebSocketClient.onDisconnectionDetected; while the connection is        *)
(* closing it is detected again.                                           *)
OnDisconnectionDetected ==
  /\ link' = "closing"
  /\ Put(Disconnected)

Inactive    == Older(idle) > MaxInactivity

(* Mutant: one second off.                                                 *)
NotAnsweredYet == kaSent # Never /\ Older(kaSent) > ResponseTimeout + 1

NotAnswered == kaSent # Never /\ Older(kaSent) > ResponseTimeout

(* A second goes by, and the callback of KeepAliveMgr runs if there is a   *)
(* connection: nothing to do, send a keep-alive, wait for its answer or    *)
(* give up.                                                                *)
Tick ==
  /\ idle' = Older(idle) /\ heard' = Older(heard)
  /\ IF link \notin {"open", "closing"} \/ ~Inactive
     THEN /\ kaSent' = Older(kaSent)
          /\ UNCHANGED <<link, unanswered, queue, faults>>
     ELSE \/ /\ kaSent = Never
             /\ kaSent' = 0 /\ unanswered' = TRUE
             /\ UNCHANGED <<link, queue, faults>>
          \/ /\ kaSent = Never /\ Fault                     (* sendPing raises *)
             /\ OnDisconnectionDetected
             /\ UNCHANGED <<kaSent, unanswered>>
          \/ /\ kaSent # Never /\ ~NotAnswered
             /\ kaSent' = Older(kaSent)
             /\ UNCHANGED <<link, unanswered, queue, faults>>
          \/ /\ NotAnswered /\ Len(queue) < MaxEvents
             /\ kaSent' = Older(kaSent)
             /\ OnDisconnectionDetected
             /\ UNCHANGED <<unanswered, faults>>
  /\ UNCHANGED <<subscribed, main, cut, clock, received, missed, dispatched>>

(* The network fails without closing the connection.                       *)
Cut ==
  /\ link = "open" /\ ~cut /\ Fault
  /\ cut' = TRUE
  /\ UNCHANGED <<clock, client, main, history>>

-----------------------------------------------------------------------------
(* The main thread *)

(* A new client thread with a new queue; the one before is left to end.    *)
StartClient ==
  /\ link' = "connecting" /\ cut' = FALSE
  /\ queue' = <<>> /\ subscribed' = FALSE
  /\ idle' = 0 /\ kaSent' = Never /\ unanswered' = FALSE

(* LiveTradeFeed.start.                                                    *)
Start ==
  /\ stage = "start"
  /\ StartClient /\ stage' = "starting"
  /\ UNCHANGED <<connected, stopped, asked, barDicts, prevTrade, current, clock, faults, history>>

(* __initializeClient: only CONNECTED counts, other events are dropped.    *)
AwaitConnected ==
  /\ stage \in Waiting /\ ~connected /\ IsAlive
  /\ queue # <<>>
  /\ connected' = (Head(queue) = Connected)
  /\ queue' = Tail(queue)
  /\ UNCHANGED <<stage, stopped, asked, barDicts, prevTrade, current,
                 link, subscribed, idle, kaSent, unanswered, world, history>>

Initialized ==
  /\ stage \in Waiting /\ connected
  /\ stage' = IF stage = "starting" THEN "dispatch" ELSE "bars"
  /\ UNCHANGED <<connected, stopped, asked, barDicts, prevTrade, current, client, world, history>>

(* Mutant: a reconnection is tried only once.                              *)
GivesUp ==
  /\ stage \in Waiting /\ ~connected /\ ~IsAlive
  /\ stage' = IF stage = "starting" THEN "stop" ELSE "bars"
  /\ stopped' = (stopped \/ stage = "starting")
  /\ missed' = missed \cup Range(Ids(Deliverable(queue)))
  /\ UNCHANGED <<connected, asked, barDicts, prevTrade, current, client, world, heard, received, dispatched>>

(* start raises; a reconnection is tried again after a while.  The thread  *)
(* ended before its CONNECTED was taken, so the trades in the queue behind *)
(* it, if there are any, are missed.                                       *)
InitializationFailed ==
  /\ stage \in Waiting /\ ~connected /\ ~IsAlive
  /\ IF stage = "starting"
     THEN stopped' = TRUE /\ stage' = "stop"
     ELSE stage' = "sleeping" /\ UNCHANGED stopped
  /\ missed' = missed \cup Range(Ids(Deliverable(queue)))
  /\ UNCHANGED <<connected, asked, barDicts, prevTrade, current, client, world, heard, received, dispatched>>

TryAgain ==
  /\ stage = "sleeping" /\ ~stopped
  /\ StartClient /\ stage' = "reconnecting"
  /\ UNCHANGED <<connected, stopped, asked, barDicts, prevTrade, current, clock, faults, history>>

(* __getTradeDateTime.                                                     *)
TradeDateTime(dt) == IF dt = prevTrade THEN dt + 1 ELSE dt

(* Mutant: a trade with the datetime of the one before is a duplicate.     *)
DropsConflicting ==
  /\ stage = "dispatch" /\ ~asked /\ ~stopped
  /\ queue # <<>> /\ Head(queue).type = "TRADE"
  /\ LET dt == Head(queue).dateTime IN
     /\ prevTrade' = dt
     /\ barDicts' = IF dt = prevTrade THEN barDicts
                    ELSE Append(barDicts, Trade(Head(queue).id, dt))
  /\ queue' = Tail(queue) /\ stage' = "bars"
  /\ UNCHANGED <<connected, stopped, asked, current, link, subscribed, idle, kaSent, unanswered, world, history>>

(* __dispatchImpl(None), the first half of dispatch: one event of the      *)
(* queue.  A turn that finds the queue empty finds no bar either, since    *)
(* each turn takes the bar of its own event, and changes nothing.          *)
DispatchTrade ==
  /\ stage = "dispatch" /\ ~asked /\ ~stopped
  /\ queue # <<>> /\ Head(queue).type = "TRADE"
  /\ LET dt == TradeDateTime(Head(queue).dateTime) IN
     /\ prevTrade' = dt
     /\ barDicts' = Append(barDicts, Trade(Head(queue).id, dt))
  /\ queue' = Tail(queue) /\ stage' = "bars"
  /\ UNCHANGED <<connected, stopped, asked, current, link, subscribed, idle, kaSent, unanswered, world, history>>

DispatchDisconnected ==
  /\ stage = "dispatch" /\ ~asked /\ ~stopped
  /\ queue # <<>> /\ Head(queue) = Disconnected
  /\ connected' = FALSE
  /\ IF Reconnect
     THEN StartClient /\ stage' = "reconnecting" /\ UNCHANGED stopped
     ELSE /\ stopped' = TRUE /\ stage' = "bars" /\ queue' = Tail(queue)
          /\ UNCHANGED <<link, cut, subscribed, idle, kaSent, unanswered>>
  /\ UNCHANGED <<asked, barDicts, prevTrade, current, clock, faults, history>>

(* BaseBarFeed.dispatch, the second half: one bar, if its datetime is      *)
(* after the one before; getNextValues raises if not.                      *)
DispatchBars ==
  /\ stage = "bars"
  /\ IF barDicts = <<>>
     THEN stage' = "dispatch" /\ UNCHANGED <<barDicts, current, dispatched>>
     ELSE LET bar == Head(barDicts) IN
          /\ barDicts' = Tail(barDicts)
          /\ IF bar.dateTime > current
             THEN /\ current' = bar.dateTime
                  /\ dispatched' = Append(dispatched, bar.id) /\ stage' = "handler"
             ELSE stage' = "stop" /\ UNCHANGED <<current, dispatched>>
  /\ UNCHANGED <<connected, stopped, asked, prevTrade, client, world, heard, received, missed>>

(* The handlers of the bar return; they may have asked the run to stop.    *)
HandlersReturn ==
  /\ stage = "handler"
  /\ asked' \in BOOLEAN /\ stage' = "dispatch"
  /\ UNCHANGED <<connected, stopped, barDicts, prevTrade, current, client, world, history>>

EndRun ==
  /\ stage = "dispatch" /\ (asked \/ stopped)
  /\ stage' = "stop"
  /\ UNCHANGED <<connected, stopped, asked, barDicts, prevTrade, current, client, world, history>>

(* stop and join, in the finally of Dispatcher.run.                        *)
Stop ==
  /\ stage = "stop"
  /\ stopped' = TRUE /\ stage' = "join"
  /\ link' = IF IsAlive THEN "closing" ELSE link
  /\ UNCHANGED <<connected, asked, barDicts, prevTrade, current,
                 subscribed, idle, kaSent, unanswered, queue, world, history>>

Join ==
  /\ stage = "join" /\ ~IsAlive
  /\ stage' = "over"
  /\ UNCHANGED <<connected, stopped, asked, barDicts, prevTrade, current, client, world, history>>

-----------------------------------------------------------------------------

Main ==
  \/ Start \/ AwaitConnected \/ Initialized \/ InitializationFailed \/ TryAgain
  \/ DispatchTrade \/ DispatchDisconnected \/ DispatchBars
  \/ HandlersReturn \/ EndRun \/ Stop \/ Join

Next ==
  \/ Main \/ Tick
  \/ Opens \/ ConnectionFails \/ OnConnectionEstablished \/ OnPong \/ OnOtherMessage \/ OnTrade
  \/ OnClosed \/ Cut

(* The main thread and the callbacks of the client thread run whenever     *)
(* they can, an attempt to connect ends, and a connection that is being    *)
(* closed is closed in the end.  Nothing is asked of the server.           *)
Closing == link = "closing" /\ OnClosed
Fairness ==
  /\ WF_vars(Main) /\ WF_vars(Tick) /\ WF_vars(Closing)
  /\ WF_vars(Opens)

Spec == Init /\ [][Next]_vars /\ Fairness

-----------------------------------------------------------------------------
(* Properties *)

(* While the feed runs, every trade that a client puts in its queue is     *)
(* dispatched, waits as a bar or is to be taken from the queue, once and   *)
(* in the order of arrival, across reconnections.  The exceptions are the  *)
(* trades missed: those that come after a DISCONNECTED of their client,    *)
(* and those that are in a queue behind a CONNECTED which the main thread  *)
(* has not taken when the client thread ends, because it never looks into  *)
(* that queue again.                                                       *)
TradesInOrder ==
  stage \notin {"sleeping", "stop", "join", "over"} =>
    Enumerates(dispatched \o Ids(barDicts) \o Ids(Deliverable(queue)), (1 .. received) \ missed)

(* A silent server is found out: no connection stays open for longer than  *)
(* the inactivity and the response time together, and a second for each.   *)
SilenceBounded ==
  link = "open" => heard <= MaxInactivity + ResponseTimeout + 1

(* And a server that is not silent is not: the client gives up only if     *)
(* nothing came since a keep-alive went out, and that is more than the     *)
(* response time ago, or if the keep-alive could not be sent.              *)
NoFalseAlarm ==
  [][link = "open" /\ link' = "closing" /\ stage' = stage
       => heard' > MaxInactivity + ResponseTimeout \/ (heard' > MaxInactivity /\ faults' > faults)]_vars

(* A lost connection, found out or not, is replaced by another one, however *)
(* many events the old one left behind and whatever the feed was waiting   *)
(* for; or the feed is over.                                               *)
Recovers ==
  (cut \/ link = "dead") ~> (link = "connecting" \/ stage = "over")

(* "Bar datetimes should not duplicate. In case trade object datetimes     *)
(* conflict, we just move one slightly forward."                           *)
MovedForward ==
  stage = "bars" /\ barDicts # <<>> => Head(barDicts).dateTime > current

=============================================================================
