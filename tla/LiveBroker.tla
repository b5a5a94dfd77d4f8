----------------------------- MODULE LiveBroker -----------------------------
(***************************************************************************)
(* bitstamp/livebroker.py: a broker that sends limit orders to Bitstamp    *)
(* over HTTP and learns of their executions from a thread, TradeMonitor,   *)
(* that polls the account's transactions and puts the new ones in a queue. *)
(*                                                                         *)
(* Three parties take steps: the main thread (LiveBroker, under            *)
(* Dispatcher.run, and the handlers of the strategy that it calls), the    *)
(* monitor thread and the exchange.  "stage" is where the main thread is,  *)
(* "monitor" where the other one is.  Any HTTP call may fail, before it    *)
(* reached the exchange or after (a reply lost in a timeout).              *)
(*                                                                         *)
(* Prices and fees are left out: all that the broker decides by is ids,    *)
(* states and quantities.  Quantities are multiples of 0.00000001 BTC,     *)
(* which is what BTCTraits.roundQuantity keeps them to.                    *)
(***************************************************************************)
EXTENDS Integers, SequencesExt, FiniteSetsExt

CONSTANTS
  Orders,      (* the orders that are or will be known to the broker       *)
  Adopted,     (* those of them open at the exchange before the broker starts *)
  Unknown,     (* stands for orders whose confirmation was lost: no object *)
  Quantities,  (* the quantities of an order                               *)
  SubmitsIn,   (* the handlers in which the strategy submits orders        *)
  MaxTrades,   (* bound: executions by the exchange                        *)
  MaxFailures  (* bound: HTTP calls that fail                              *)

(* The stages in which handlers of the strategy run: of other subjects'    *)
(* events, of ACCEPTED and of (PARTIALLY_)FILLED.  A handler of CANCELED   *)
(* runs within one of them.                                                *)
HandlerStages == {"events", "accepted", "filled"}

ASSUME LiveBrokerAssumption ==
  /\ Adopted \subseteq Orders /\ Unknown \notin Orders
  /\ Quantities \subseteq Nat \ {0} /\ SubmitsIn \subseteq HandlerStages
  /\ MaxTrades \in Nat /\ MaxFailures \in Nat

VARIABLES
  stage,        (* where the main thread is                                *)
  order,        (* the state, quantity and filled quantity of each order   *)
  active,       (* the keys of LiveBroker.__activeOrders                   *)
  stopped,      (* LiveBroker.__stop                                       *)
  todo,         (* the orders that dispatch has still to accept            *)
  batch,        (* the ids of the trades that _onUserTrades has still to apply *)
  asked,        (* Dispatcher.stop was called                              *)
  balanceAt,    (* the trades that the account balance of the broker includes *)
  monitor,      (* where the monitor thread is                             *)
  monitorStop,  (* TradeMonitor.__stop                                     *)
  lastTradeId,  (* TradeMonitor.__lastTradeId, 0 for the -1 of the code    *)
  found,        (* the trades that the monitor found and has yet to report *)
  queue,        (* TradeMonitor.__queue: sequences of trade ids            *)
  rest,         (* the exchange: what is left of each open order, 0 if not open *)
  trades,       (* the exchange: every execution; its id is its position   *)
  failures,     (* the HTTP calls that failed                              *)
  processed,    (* history: the last trade that the broker took up         *)
  adoptedAt,    (* history: the trades made when the open orders were read *)
  startedAt,    (* history: the last trade when the monitor started        *)
  orphaned,     (* history: canceled at the exchange, unknown to the broker *)
  refused       (* history: Order.switchState raised                       *)

main    == <<stage, order, active, stopped, todo, batch, asked, balanceAt>>
thread  == <<monitor, monitorStop, lastTradeId, found, queue>>
history == <<processed, adoptedAt, startedAt, orphaned, refused>>
exchange == <<rest, trades>>
vars == <<main, thread, exchange, failures, history>>

Stages == {"balance", "orders", "monitor",            (* LiveBroker.start  *)
           "events", "accept", "accepted", "apply", "filled",
           "stop", "join", "over"}

Running      == Stages \ {"stop", "join", "over"}

IsActive(o)    == order[o].state \notin {"CANCELED", "FILLED"}
IsSubmitted(o) == order[o].state = "SUBMITTED"
Remaining(o)   == order[o].quantity - order[o].filled

(* The transitions out of a state that Order.switchState accepts.          *)
CanFill(o) == order[o].state \in {"ACCEPTED", "PARTIALLY_FILLED"}

CallFails == failures < MaxFailures /\ failures' = failures + 1

(* What the broker reads of a UserTransaction.                             *)
UserTransactions == [order : Orders \cup {Unknown}, quantity : Nat \ {0}]

NewOrder == [state |-> "INITIAL", quantity |-> 0, filled |-> 0]

(* The exchange lets anything happen before the broker starts: the orders  *)
(* left from earlier sessions may be partially executed.                   *)
Init ==
  /\ stage = "balance" /\ todo = {} /\ batch = <<>>
  /\ order = [o \in Orders |-> NewOrder]
  /\ active = {} /\ stopped = FALSE /\ asked = FALSE /\ balanceAt = 0
  /\ monitor = "new" /\ monitorStop = FALSE /\ lastTradeId = 0
  /\ found = <<>> /\ queue = <<>>
  /\ rest \in {r \in [Orders \cup {Unknown} -> Quantities \cup {0}] :
                 \A o \in DOMAIN r : r[o] # 0 <=> o \in Adopted}
  /\ trades = <<>> /\ failures = 0
  /\ processed = 0 /\ adoptedAt = 0 /\ startedAt = 0 /\ orphaned = {} /\ refused = FALSE

-----------------------------------------------------------------------------
(* The exchange *)

Execute(o) ==
  /\ Len(trades) < MaxTrades
  /\ \E n \in 1 .. rest[o] :
       /\ rest' = [rest EXCEPT ![o] = @ - n]
       /\ trades' = Append(trades, [order |-> o, quantity |-> n])
  /\ UNCHANGED <<main, thread, failures, history>>

-----------------------------------------------------------------------------
(* LiveBroker.start: three calls; if one fails __stop stays set and the    *)
(* exception goes on to Dispatcher.run, which stops everything.            *)

RefreshAccountBalance ==
  /\ stopped' = FALSE /\ balanceAt' = Len(trades)

RefreshFails ==
  /\ CallFails
  /\ stopped' = TRUE /\ stage' = "stop"

GetBalance ==
  /\ stage = "balance"
  /\ \/ /\ RefreshAccountBalance
        /\ stage' = "orders" /\ UNCHANGED failures
     \/ /\ RefreshFails
        /\ UNCHANGED balanceAt
  /\ UNCHANGED <<order, active, todo, batch, asked, thread, exchange, history>>

(* Mutant: the quantity the order was submitted with.                      *)
AdoptOriginal(o) ==
  [state |-> "ACCEPTED", filled |-> 0,
   quantity |-> rest[o] + SumSet({IF trades[i].order = o THEN trades[i].quantity ELSE 0 : i \in DOMAIN trades})]

(* build_order_from_open_order: a new order for what is left, ACCEPTED.    *)
Adopt(o) == [state |-> "ACCEPTED", quantity |-> rest[o], filled |-> 0]

RefreshOpenOrders ==
  /\ stage = "orders"
  /\ \/ LET open == {o \in Adopted : rest[o] > 0} IN
        /\ order' = [o \in Orders |-> IF o \in open THEN Adopt(o) ELSE order[o]]
        /\ active' = active \cup open
        /\ stopped' = FALSE /\ stage' = "monitor"
        /\ adoptedAt' = Len(trades)
        /\ UNCHANGED failures
     \/ /\ RefreshFails
        /\ UNCHANGED <<order, active, adoptedAt>>
  /\ UNCHANGED <<todo, batch, asked, balanceAt, thread, exchange,
                 processed, startedAt, orphaned, refused>>

(* TradeMonitor.start: new trades are those after the last one there is.   *)
StartTradeMonitor ==
  /\ stage = "monitor"
  /\ \/ /\ lastTradeId' = Len(trades)
        /\ startedAt' = Len(trades)
        /\ processed' = Len(trades)
        /\ monitor' = "check"
        /\ stopped' = FALSE /\ stage' = "events"
        /\ UNCHANGED failures
     \/ /\ RefreshFails
        /\ UNCHANGED <<lastTradeId, startedAt, processed, monitor>>
  /\ UNCHANGED <<order, active, todo, batch, asked, balanceAt, monitorStop, found, queue,
                 exchange, adoptedAt, orphaned, refused>>

-----------------------------------------------------------------------------
(* The strategy, in its handlers *)

(* HTTPClient.buyLimit and sellLimit.                                      *)
PlaceLimit(o, n) == [rest EXCEPT ![o] = @ + n]

(* LiveBroker.submitOrder.  No event is emitted.  If the call fails the    *)
(* order stays INITIAL and is not registered, whether or not the exchange  *)
(* got it.                                                                 *)
SubmitOrder(o, n) ==
  /\ stage \in SubmitsIn
  /\ o \notin Adopted /\ order[o].state = "INITIAL"
  /\ \/ /\ rest' = PlaceLimit(o, n)
        /\ order' = [order EXCEPT ![o].state = "SUBMITTED", ![o].quantity = n]
        /\ active' = active \cup {o}
        /\ UNCHANGED failures
     \/ /\ CallFails
        /\ rest' \in {rest, PlaceLimit(Unknown, n)}
        /\ UNCHANGED <<order, active>>
  /\ UNCHANGED <<stage, stopped, todo, batch, asked, balanceAt, thread, trades, history>>

Unregister(o) == active \ {o}

(* LiveBroker.cancelOrder.  The exchange refuses to cancel an order that   *)
(* is not open any more, which changes nothing here; a refused or failed   *)
(* call raises in the handler.                                             *)
CancelOrder(o) ==
  /\ stage \in HandlerStages
  /\ o \in active /\ rest[o] > 0
  /\ rest' = [rest EXCEPT ![o] = 0]
  /\ active' = Unregister(o)
  /\ order' = [order EXCEPT ![o].state = "CANCELED"]
  /\ \/ /\ RefreshAccountBalance
        /\ UNCHANGED failures
     \/ /\ CallFails
        /\ stopped' = TRUE /\ UNCHANGED balanceAt
  /\ UNCHANGED <<stage, todo, batch, asked, thread, trades, history>>

(* The exchange cancels, and the answer gets lost: the broker goes on with *)
(* an order that nothing will ever happen to.                              *)
CancelAnswerLost(o) ==
  /\ stage \in HandlerStages
  /\ o \in active /\ rest[o] > 0
  /\ CallFails
  /\ rest' = [rest EXCEPT ![o] = 0]
  /\ orphaned' = orphaned \cup {o}
  /\ UNCHANGED <<main, thread, trades, processed, adoptedAt, startedAt, refused>>

(* BaseStrategy.stop, from any handler.                                    *)
AskToStop ==
  /\ stage \in HandlerStages /\ ~asked
  /\ asked' = TRUE
  /\ UNCHANGED <<stage, order, active, stopped, todo, batch, balanceAt,
                 thread, exchange, failures, history>>

(* A handler raises, or does not catch what its call raised.               *)
HandlerRaises ==
  /\ stage \in HandlerStages
  /\ stage' = "stop"
  /\ UNCHANGED <<order, active, stopped, todo, batch, asked, balanceAt,
                 thread, exchange, failures, history>>

-----------------------------------------------------------------------------
(* Dispatcher.run and LiveBroker.dispatch *)

(* The loop of Dispatcher.run: a subject at eof is not dispatched.         *)
BeginDispatch ==
  /\ stage = "events" /\ ~asked /\ ~stopped
  /\ stage' = "accept"
  /\ todo' = {o \in active : IsSubmitted(o)}
  /\ UNCHANGED <<order, active, stopped, batch, asked, balanceAt,
                 thread, exchange, failures, history>>

EndRun ==
  /\ stage = "events" /\ asked
  /\ stage' = "stop"
  /\ UNCHANGED <<order, active, stopped, todo, batch, asked, balanceAt,
                 thread, exchange, failures, history>>

(* One of the orders that were there when dispatch began, in any order; a  *)
(* handler may have canceled it in the meantime.                           *)
AcceptOrder(o) ==
  /\ stage = "accept" /\ o \in todo
  /\ todo' = todo \ {o}
  /\ IF IsSubmitted(o)
     THEN order' = [order EXCEPT ![o].state = "ACCEPTED"] /\ stage' = "accepted"
     ELSE UNCHANGED <<order, stage>>
  /\ UNCHANGED <<active, stopped, batch, asked, balanceAt,
                 thread, exchange, failures, history>>

(* queue.get(True, QUEUE_TIMEOUT): a batch, or queue.Empty.                *)
GetTrades ==
  /\ stage = "accept" /\ todo = {}
  /\ \/ /\ queue # <<>>
        /\ batch' = Head(queue) /\ queue' = Tail(queue) /\ stage' = "apply"
     \/ /\ queue = <<>>
        /\ stage' = "events" /\ UNCHANGED <<queue, batch>>
  /\ UNCHANGED <<order, active, stopped, todo, asked, balanceAt,
                 monitor, monitorStop, lastTradeId, found, exchange, failures, history>>

(* Mutant: every fill completes the order.                                 *)
AlwaysFilled(o, n) == "FILLED"

StateAfter(o, n) == IF n = Remaining(o) THEN "FILLED" ELSE "PARTIALLY_FILLED"

(* A trade of an order that is not active is skipped.                      *)
SkipTrade ==
  /\ stage = "apply" /\ batch # <<>>
  /\ trades[Head(batch)].order \notin active
  /\ batch' = Tail(batch) /\ processed' = Head(batch)
  /\ UNCHANGED <<stage, order, active, stopped, todo, asked, balanceAt, thread, exchange, failures,
                 adoptedAt, startedAt, orphaned, refused>>

(* One turn of the loop of _onUserTrades, up to the event.  An order that  *)
(* is FILLED is unregistered before the event.  addExecutionInfo adds what *)
(* was filled and only then finds out that the order was never accepted.   *)
ApplyTrade ==
  /\ stage = "apply" /\ batch # <<>>
  /\ LET t == trades[Head(batch)]
         o == t.order
         n == t.quantity
     IN
     /\ o \in active
     /\ batch' = Tail(batch) /\ processed' = Head(batch)
     /\ \/ /\ RefreshAccountBalance
           /\ UNCHANGED failures
           /\ IF CanFill(o)
              THEN /\ order' = [order EXCEPT ![o].state = StateAfter(o, n), ![o].filled = @ + n]
                   /\ active' = IF n = Remaining(o) THEN Unregister(o) ELSE active
                   /\ stage' = "filled" /\ UNCHANGED refused
              ELSE /\ order' = [order EXCEPT ![o].filled = @ + n]
                   /\ stage' = "stop" /\ refused' = TRUE /\ UNCHANGED active
        \/ /\ RefreshFails
           /\ UNCHANGED <<order, active, balanceAt, refused>>
  /\ UNCHANGED <<todo, asked, thread, exchange, adoptedAt, startedAt, orphaned>>

DispatchEnds ==
  /\ stage = "apply" /\ batch = <<>>
  /\ stage' = "events"
  /\ UNCHANGED <<order, active, stopped, todo, batch, asked, balanceAt,
                 thread, exchange, failures, history>>

(* The handlers of an order event return to the loop that emitted it.      *)
HandlersReturn ==
  /\ \/ stage = "accepted" /\ stage' = "accept"
     \/ stage = "filled" /\ stage' = "apply"
  /\ UNCHANGED <<order, active, stopped, todo, batch, asked, balanceAt,
                 thread, exchange, failures, history>>

(* The finally of Dispatcher.run: LiveBroker.stop, then LiveBroker.join,   *)
(* which waits for the monitor only if that was started.                   *)
Stop ==
  /\ stage = "stop"
  /\ stopped' = TRUE /\ monitorStop' = TRUE /\ stage' = "join"
  /\ UNCHANGED <<order, active, todo, batch, asked, balanceAt,
                 monitor, lastTradeId, found, queue, exchange, failures, history>>

Join ==
  /\ stage = "join" /\ monitor \in {"new", "ended"}
  /\ stage' = "over"
  /\ UNCHANGED <<order, active, stopped, todo, batch, asked, balanceAt,
                 thread, exchange, failures, history>>

-----------------------------------------------------------------------------
(* The monitor thread *)

(* Mutant: the monitor never looks at __stop.                              *)
NeverChecksStop ==
  /\ monitor = "check"
  /\ monitor' = "poll"
  /\ UNCHANGED <<monitorStop, lastTradeId, found, queue, main, exchange, failures, history>>

CheckStop ==
  /\ monitor = "check"
  /\ monitor' = IF monitorStop THEN "ended" ELSE "poll"
  /\ UNCHANGED <<monitorStop, lastTradeId, found, queue, main, exchange, failures, history>>

(* Mutant: the last trade known counts as new.                             *)
IsNewOrLast(id) == id >= lastTradeId

(* The ids after the last one known, oldest first: the last n there are.   *)
IsNew(id) == id > lastTradeId

NewTrades ==
  LET n == Cardinality({id \in DOMAIN trades : IsNew(id)})
  IN [i \in 1 .. n |-> Len(trades) - n + i]

Poll ==
  /\ monitor = "poll"
  /\ IF NewTrades = <<>>
     THEN monitor' = "check" /\ UNCHANGED <<lastTradeId, found>>
     ELSE /\ monitor' = "report" /\ found' = NewTrades
          /\ lastTradeId' = NewTrades[Len(NewTrades)]
  /\ UNCHANGED <<monitorStop, queue, main, exchange, failures, history>>

(* Mutant: the exception ends the thread.                                  *)
PollDies ==
  /\ monitor = "poll" /\ CallFails
  /\ monitor' = "ended"
  /\ UNCHANGED <<monitorStop, lastTradeId, found, queue, main, exchange, history>>

(* Logged, and tried again at the next poll.                               *)
PollFails ==
  /\ monitor = "poll" /\ CallFails
  /\ monitor' = "check"
  /\ UNCHANGED <<monitorStop, lastTradeId, found, queue, main, exchange, history>>

Report ==
  /\ monitor = "report"
  /\ monitor' = "check" /\ queue' = Append(queue, found) /\ found' = <<>>
  /\ UNCHANGED <<monitorStop, lastTradeId, main, exchange, failures, history>>

-----------------------------------------------------------------------------

Strategy ==
  \/ \E o \in Orders, n \in Quantities : SubmitOrder(o, n)
  \/ \E o \in Orders : CancelOrder(o) \/ CancelAnswerLost(o)
  \/ AskToStop
  \/ HandlerRaises

Start == GetBalance \/ RefreshOpenOrders \/ StartTradeMonitor

Dispatch ==
  \/ BeginDispatch \/ EndRun
  \/ \E o \in Orders : AcceptOrder(o)
  \/ GetTrades \/ SkipTrade \/ ApplyTrade \/ DispatchEnds
  \/ HandlersReturn \/ Stop \/ Join

Monitor == CheckStop \/ Poll \/ PollFails \/ Report

Next == Start \/ Strategy \/ Dispatch \/ Monitor \/ \E o \in Orders \cup {Unknown} : Execute(o)

(* The main thread and the monitor go on whenever they can; nothing makes  *)
(* the strategy act or the exchange execute.                               *)
Fairness == WF_vars(Start) /\ WF_vars(Dispatch) /\ WF_vars(Monitor)

Spec == Init /\ [][Next]_vars /\ Fairness

-----------------------------------------------------------------------------
(* Properties *)

(* The trades between the exchange and the broker, in the order in which   *)
(* the broker will take them up.                                           *)
InFlight == batch \o FlattenSeq(queue) \o found \o NewTrades

(* Every execution after the start of the monitor reaches the broker once, *)
(* in the order it was made: what is between the two is exactly what the   *)
(* broker has not taken up, wherever polls, failures and handlers fall.    *)
EachTradeOnce ==
  monitor # "new" =>
    /\ InFlight = [i \in 1 .. Len(trades) - processed |-> processed + i]
    /\ stage = "filled" => processed <= balanceAt

(* What was executed of an order by each trade, and by those from a on, up *)
(* to b.                                                                   *)
Executed(o) == [id \in DOMAIN trades |-> IF trades[id].order = o THEN trades[id].quantity ELSE 0]
ExecutedIn(o, a, b) == SumFunctionOnSet(Executed(o), a .. b)

(* What is left of an order at the exchange, plus the executions on their  *)
(* way to the broker, plus for an adopted order those that are never       *)
(* reported: between the reading of the open orders and the start of the   *)
(* monitor.                                                                *)
Owed(o) ==
  rest[o] + ExecutedIn(o, processed + 1, Len(trades))
    + (IF o \in Adopted THEN ExecutedIn(o, adoptedAt + 1, startedAt) ELSE 0)

(* What the broker believes to be left of an active order is exactly that, *)
(* except after a cancellation whose answer was lost.                      *)
RemainingAccountedFor ==
  stage \in Running /\ monitor # "new" =>
    \A o \in active \ orphaned : Remaining(o) = Owed(o)

(* The orders submitted through this broker follow the state chart that    *)
(* every broker promises; adopted orders start in the middle of it.        *)
Own == Orders \ Adopted
Lifecycle == INSTANCE OrderLifecycle WITH
  Orders   <- Own,
  state    <- [o \in Own |-> order[o].state],
  quantity <- [o \in Own |-> order[o].quantity],
  filled   <- [o \in Own |-> order[o].filled]
ImplementsLifecycle == Lifecycle!Spec

(* switchState never has to raise "Invalid order state transition".        *)
NoTransitionRefused == ~refused

(* Once the strategy asks for it, or anything raises, the run ends and the *)
(* monitor thread is not left behind.                                      *)
StopsForGood == (asked \/ stage = "stop") ~> (stage = "over" /\ monitor \in {"new", "ended"})

(* Every execution of an order that is active gets to it, unless the       *)
(* broker stops, for an error or for good, or the order is canceled.       *)
TradesReported ==
  \A id \in 1 .. MaxTrades :
    (id \in DOMAIN trades /\ id > startedAt /\ monitor # "new" /\ trades[id].order \in active)
      ~> (processed >= id \/ stopped \/ asked \/ stage \in {"stop", "join", "over"})

=============================================================================
