------------------------- MODULE BacktestingBroker --------------------------
(***************************************************************************)
(* broker/backtesting.py: the broker that fills orders from bars.          *)
(*                                                                         *)
(* One thread runs everything.  A bar reaches Broker.onBars before the     *)
(* strategy; for each order the broker may emit events, and an event       *)
(* handler (Strategy.onOrderUpdated and the position callbacks) may submit *)
(* and cancel orders before the broker goes on.  The methods are therefore *)
(* split exactly where an event is emitted, and "stage" says where the     *)
(* thread is.  A submit or cancel made by a handler emits an event of its  *)
(* own, but that emit is the last statement of submitOrder and cancelOrder:*)
(* nested handlers return to a handler, so no stack has to be remembered.  *)
(*                                                                         *)
(* Cash is counted in hundredths, so that a commission may be a percentage.*)
(***************************************************************************)
EXTENDS FillRules, Functions

CONSTANTS
  Instruments,        (* the traded instruments                                  *)
  Bars,               (* the bars the feed may deliver for an instrument         *)
  NoBar,              (* no bar for the instrument at this time                  *)
  Tickets,            (* the orders the strategy may build                       *)
  NoTicket,           (* the ticket of an order object not built yet             *)
  MaxOrders,          (* bound: how many orders the strategy submits             *)
  MaxBars,            (* bound: how many times the feed delivers bars            *)
  BarsPerDay,         (* how many bars make a session                            *)
  Frequency,          (* bar.Frequency of the feed                               *)
  InitialCash,        (* Broker.__cash at the start, in hundredths               *)
  InitialShares,      (* Broker.setShares before the start                       *)
  AllowNegativeCash,  (* Broker.setAllowNegativeCash                             *)
  CommissionModel,    (* NoCommission, FixedPerTrade or TradePercentage          *)
  CommissionAmount,   (* the fixed amount, or the percentage, in hundredths      *)
  VolumeLimit         (* percentage of a bar's volume orders may use, 0 for None *)

OrderIds    == 1 .. MaxOrders
IsIntraday  == Frequency # "DAY"
NoExecution == [price |-> 0, quantity |-> 0, commission |-> 0, time |-> 0]

ASSUME ConstantsAssumption ==
  /\ MaxOrders \in Nat /\ MaxBars \in Nat /\ BarsPerDay \in Nat \ {0}
  /\ Frequency \in {"TRADE", "INTRADAY", "DAY"}
  /\ InitialCash \in Nat /\ InitialShares \in [Instruments -> Int]
  /\ AllowNegativeCash \in BOOLEAN
  /\ CommissionModel \in {"NoCommission", "FixedPerTrade", "TradePercentage"}
  /\ CommissionAmount \in Nat /\ VolumeLimit \in 0 .. 100

ASSUME TicketsAssumption == NoTicket \notin Tickets /\ Tickets \subseteq TicketsOn(Instruments)
ASSUME BarsAssumption    == NoBar \notin Bars /\ Bars \subseteq AllBars

VARIABLES
  clock,            (* the feed's current datetime, 0 before the first bar       *)
  bars,             (* BaseBarFeed.__currentBars                                 *)
  order,            (* the attributes of each order object, by order id          *)
  nextOrderId,      (* Broker.__nextOrderId                                      *)
  activeOrders,     (* the keys of Broker.__activeOrders                         *)
  cash,             (* Broker.__cash                                             *)
  shares,           (* Broker.__shares, 0 for a deleted key                      *)
  volumeLeft,       (* DefaultStrategy.__volumeLeft, 0 for a missing key         *)
  volumeUsed,       (* DefaultStrategy.__volumeUsed                              *)
  ordersToProcess,  (* what is left of the list onBars made of the active orders *)
  current,          (* the order onBars is working on, 0 for none                *)
  stage,            (* where the thread is                                       *)
  event             (* the order event whose handlers run, if any                *)

vars == <<clock, bars, order, nextOrderId, activeOrders, cash, shares, volumeLeft,
          volumeUsed, ordersToProcess, current, stage, event>>

account == <<cash, shares, volumeLeft, volumeUsed>>
feed    == <<clock, bars>>

(* The state chart that every broker promises for its orders.              *)
Lifecycle == INSTANCE OrderLifecycle WITH
  Orders     <- OrderIds,
  Quantities <- {t.quantity : t \in Tickets},
  state      <- [o \in OrderIds |-> order[o].state],
  quantity   <- [o \in OrderIds |-> IF order[o].state = "INITIAL" THEN 0 ELSE order[o].ticket.quantity],
  filled     <- [o \in OrderIds |-> order[o].filled]

(* The stages in which user code runs: the strategy's onStart and onBars,  *)
(* and the handlers of the events emitted by onBars.                       *)
ClientStages == {"strategy", "onAccepted", "onFilled", "onExpired"}
Stages       == ClientStages \cup {"loop", "process", "post"}
EventTypes   == {"NONE", "SUBMITTED", "ACCEPTED", "CANCELED", "PARTIALLY_FILLED", "FILLED"}

-----------------------------------------------------------------------------
(* Orders *)

NewOrder ==
  [state |-> "INITIAL", ticket |-> NoTicket, submitted |-> 0, accepted |-> 0,
   stopHit |-> FALSE, filled |-> 0, fillValue |-> 0, commissions |-> 0,
   execution |-> NoExecution]

OrderRecords ==
  [state : Lifecycle!States, ticket : Tickets \cup {NoTicket},
   submitted : Nat, accepted : Nat, stopHit : BOOLEAN,
   filled : Nat, fillValue : Nat, commissions : Nat,
   execution : [price : Nat, quantity : Nat, commission : Nat, time : Nat]]

CanceledIsActive(o) == order[o].state # "FILLED"   \* mutant: a canceled order can go on
IsActive(o)    == order[o].state \notin {"CANCELED", "FILLED"}
Ticket(o)      == order[o].ticket
InstrumentOf(o)== Ticket(o).instrument
Remaining(o)   == Ticket(o).quantity - order[o].filled
BarOf(o)       == bars[InstrumentOf(o)]
Day(time)      == time \div BarsPerDay

NoEvent       == [type |-> "NONE", order |-> 0]
Emit(type, o) == event' = [type |-> type, order |-> o]

(* Broker._unregisterOrder *)
KeepRegistered(o) == activeOrders   \* mutant: the order stays in the registry
Unregister(o) == activeOrders \ {o}

CancelActive(o) ==
  /\ activeOrders' = Unregister(o)
  /\ order' = [order EXCEPT ![o].state = "CANCELED"]
  /\ Emit("CANCELED", o)

-----------------------------------------------------------------------------
(* What the strategy may do whenever its code runs *)

SubmitOrder(t) ==
  /\ stage \in ClientStages
  /\ nextOrderId <= MaxOrders
  /\ ~(t.onClose /\ IsIntraday)
  /\ order' = [order EXCEPT ![nextOrderId] =
                 [NewOrder EXCEPT !.state = "SUBMITTED", !.ticket = t, !.submitted = clock]]
  /\ activeOrders' = activeOrders \cup {nextOrderId}
  /\ nextOrderId' = nextOrderId + 1
  /\ Emit("SUBMITTED", nextOrderId)
  /\ UNCHANGED <<feed, account, ordersToProcess, current, stage>>

(* An order that is not in the registry makes cancelOrder raise.           *)
CancelOrder(o) ==
  /\ stage \in ClientStages
  /\ o \in activeOrders
  /\ CancelActive(o)
  /\ UNCHANGED <<feed, account, nextOrderId, ordersToProcess, current, stage>>

-----------------------------------------------------------------------------
(* The feed emits new bars: DefaultStrategy.onBars, then the list of the   *)
(* orders to process is frozen.                                            *)

UsableVolume(bar) ==
  IF Frequency = "TRADE" THEN bar.volume ELSE (bar.volume * VolumeLimit) \div 100

NewBars(bs) ==
  /\ stage = "strategy"
  /\ clock < MaxBars
  /\ \E i \in Instruments : bs[i] # NoBar
  /\ clock' = clock + 1
  /\ bars' = bs
  /\ volumeLeft' = [i \in Instruments |-> IF bs[i] = NoBar THEN 0 ELSE UsableVolume(bs[i])]
  /\ volumeUsed' = [i \in Instruments |-> IF bs[i] = NoBar THEN volumeUsed[i] ELSE 0]
  /\ ordersToProcess' = activeOrders
  /\ stage' = "loop"
  /\ event' = NoEvent
  /\ UNCHANGED <<order, nextOrderId, activeOrders, cash, shares, current>>

(* The list follows the order of a dict, which Python 2 leaves open: the   *)
(* broker takes the orders in any order.                                   *)
LiveOrders ==  \* mutant: the loop runs over the live dict, not over a copy
  ordersToProcess \cup {o \in activeOrders : order[o].state = "SUBMITTED"}
Unprocessed == ordersToProcess

Advance(o) == ordersToProcess \ {o}

TakeOrder(o) ==
  /\ stage = "loop"
  /\ o \in Unprocessed
  /\ ordersToProcess' = Advance(o)

(* No bar for the instrument, or canceled by a handler in this same loop.  *)
SkipOrder(o) ==
  /\ TakeOrder(o)
  /\ BarOf(o) = NoBar \/ ~IsActive(o)
  /\ UNCHANGED <<feed, account, order, nextOrderId, activeOrders, current, stage, event>>

AcceptOrder(o) ==
  /\ TakeOrder(o)
  /\ BarOf(o) # NoBar
  /\ order[o].state = "SUBMITTED"
  /\ order' = [order EXCEPT ![o].state = "ACCEPTED", ![o].accepted = clock]
  /\ Emit("ACCEPTED", o)
  /\ current' = o
  /\ stage' = "onAccepted"
  /\ UNCHANGED <<feed, account, nextOrderId, activeOrders>>

ResumeOrder(o) ==
  /\ TakeOrder(o)
  /\ BarOf(o) # NoBar
  /\ IsActive(o) /\ order[o].state # "SUBMITTED"
  /\ current' = o
  /\ stage' = "process"
  /\ UNCHANGED <<feed, account, order, nextOrderId, activeOrders, event>>

LoopEnds ==
  /\ stage = "loop"
  /\ Unprocessed = {}
  /\ stage' = "strategy"
  /\ UNCHANGED <<feed, account, order, nextOrderId, activeOrders, ordersToProcess, current, event>>

-----------------------------------------------------------------------------
(* Broker.__processOrder, up to the event it emits.  The code computes the *)
(* fill first, then the commission, then the cash that would result.       *)

MaxVolume(o) == IF VolumeLimit = 0 THEN Remaining(o) ELSE volumeLeft[InstrumentOf(o)]
Size(o)      == FillSize(Remaining(o), Ticket(o).allOrNone, MaxVolume(o))
PriceOf(o)   == FillPrice(Ticket(o), order[o].stopHit, BarOf(o))
HasFill(o)   == Size(o) # 0 /\ Fillable(Ticket(o), order[o].stopHit, BarOf(o))

CommissionFor(o, price, quantity) ==
  CASE CommissionModel = "NoCommission"    -> 0
    [] CommissionModel = "FixedPerTrade"   ->
         IF order[o].execution = NoExecution THEN CommissionAmount ELSE 0
    [] CommissionModel = "TradePercentage" -> price * quantity * CommissionAmount

(* The cash an execution moves, before the commission.                     *)
Proceeds(t, price, quantity) ==
  IF IsBuy(t) THEN -(price * quantity * 100) ELSE price * quantity * 100

ResultingCash(o) ==
  cash + Proceeds(Ticket(o), PriceOf(o), Size(o)) - CommissionFor(o, PriceOf(o), Size(o))

EnoughBeforeCommission(o) ==   \* mutant: the commission is not part of the check
  cash + Proceeds(Ticket(o), PriceOf(o), Size(o)) >= 0 \/ AllowNegativeCash
EnoughCash(o) == ResultingCash(o) >= 0 \/ AllowNegativeCash

AlwaysFilled(remaining, quantity) == "FILLED"   \* mutant: every execution completes the order
StateAfterFill(remaining, quantity) ==
  IF quantity = remaining THEN "FILLED" ELSE "PARTIALLY_FILLED"

LongOnlyDelta(t, quantity) == quantity          \* mutant: a sale adds shares
SharesDelta(t, quantity) == IF IsBuy(t) THEN quantity ELSE -quantity

VolumeNotTaken(left, quantity) == left          \* mutant: each order sees the whole volume
VolumeAfterFill(left, quantity) == IF VolumeLimit = 0 THEN left ELSE left - quantity

(* For an order that is not good till canceled: the session has changed,   *)
(* or, with daily bars, it ends with this bar.                             *)
ExpiresNextDay(o) ==                            \* mutant: daily orders live one session too long
  /\ ~Ticket(o).goodTillCanceled
  /\ ~IsIntraday
  /\ Day(clock) > Day(order[o].accepted)
NeverExpired(o) == FALSE                        \* mutant: no check before the fill
HasExpired(o) ==
  /\ ~Ticket(o).goodTillCanceled
  /\ Day(clock) > Day(order[o].accepted)
ExpiresWithBar(o) ==
  /\ ~Ticket(o).goodTillCanceled
  /\ ~IsIntraday
  /\ Day(clock) >= Day(order[o].accepted)

(* The order was canceled by the handler of its ACCEPTED event.            *)
SkipInactive ==
  /\ stage = "process"
  /\ ~IsActive(current)
  /\ stage' = "loop"
  /\ current' = 0
  /\ UNCHANGED <<feed, account, order, nextOrderId, activeOrders, ordersToProcess, event>>

ExpireBeforeFill ==
  /\ stage = "process"
  /\ IsActive(current)
  /\ HasExpired(current)
  /\ CancelActive(current)
  /\ stage' = "onExpired"
  /\ UNCHANGED <<feed, account, nextOrderId, ordersToProcess, current>>

(* Order.addExecutionInfo.  The average fill price is kept as the total it *)
(* is the average of.                                                      *)
AddExecutionInfo(o, n, price, fee) ==
  [order[o] EXCEPT
     !.state = StateAfterFill(Remaining(o), n),
     !.filled = @ + n, !.fillValue = @ + price * n, !.commissions = @ + fee,
     !.stopHit = StopHitAfter(Ticket(o), @, BarOf(o)),
     !.execution = [price |-> price, quantity |-> n, commission |-> fee, time |-> clock]]

(* Broker.commitOrderExecution                                             *)
CommitExecution(o, n, price, fee) ==
  LET next == StateAfterFill(Remaining(o), n)
      inst == InstrumentOf(o) IN
  /\ order' = [order EXCEPT ![o] = AddExecutionInfo(o, n, price, fee)]
  /\ cash' = ResultingCash(o)
  /\ shares' = [shares EXCEPT ![inst] = @ + SharesDelta(Ticket(o), n)]
  /\ volumeLeft' = [volumeLeft EXCEPT ![inst] = VolumeAfterFill(@, n)]
  /\ volumeUsed' = [volumeUsed EXCEPT ![inst] = @ + n]
  /\ activeOrders' = IF next = "FILLED" THEN Unregister(o) ELSE activeOrders
  /\ Emit(next, o)

FillOrder ==
  /\ stage = "process"
  /\ IsActive(current) /\ ~HasExpired(current)
  /\ HasFill(current) /\ EnoughCash(current)
  /\ CommitExecution(current, Size(current), PriceOf(current),
                     CommissionFor(current, PriceOf(current), Size(current)))
  /\ stage' = "onFilled"
  /\ UNCHANGED <<feed, nextOrderId, ordersToProcess, current>>

(* Not triggered, no volume left for it, or not enough cash: only the stop *)
(* flag may change.                                                        *)
LeaveOrder ==
  /\ stage = "process"
  /\ IsActive(current) /\ ~HasExpired(current)
  /\ ~(HasFill(current) /\ EnoughCash(current))
  /\ order' = [order EXCEPT ![current].stopHit = StopHitAfter(Ticket(current), @, BarOf(current))]
  /\ stage' = "post"
  /\ UNCHANGED <<feed, account, nextOrderId, activeOrders, ordersToProcess, current, event>>

(* Broker.__postProcessOrder *)
ExpireAfterBar ==
  /\ stage = "post"
  /\ IsActive(current) /\ ExpiresWithBar(current)
  /\ CancelActive(current)
  /\ stage' = "onExpired"
  /\ UNCHANGED <<feed, account, nextOrderId, ordersToProcess, current>>

KeepOrder ==
  /\ stage = "post"
  /\ ~(IsActive(current) /\ ExpiresWithBar(current))
  /\ stage' = "loop"
  /\ current' = 0
  /\ UNCHANGED <<feed, account, order, nextOrderId, activeOrders, ordersToProcess, event>>

(* The event handlers return and onBars goes on where it emitted.          *)
HandlersReturn ==
  /\ stage \in {"onAccepted", "onFilled", "onExpired"}
  /\ stage' = [onAccepted |-> "process", onFilled |-> "post", onExpired |-> "loop"][stage]
  /\ current' = IF stage = "onExpired" THEN 0 ELSE current
  /\ event' = NoEvent
  /\ UNCHANGED <<feed, account, order, nextOrderId, activeOrders, ordersToProcess>>

-----------------------------------------------------------------------------

Init ==
  /\ clock = 0 /\ bars = [i \in Instruments |-> NoBar]
  /\ order = [o \in OrderIds |-> NewOrder]
  /\ nextOrderId = 1
  /\ activeOrders = {}
  /\ cash = InitialCash /\ shares = InitialShares
  /\ volumeLeft = [i \in Instruments |-> 0] /\ volumeUsed = [i \in Instruments |-> 0]
  /\ ordersToProcess = {}
  /\ current = 0 /\ stage = "strategy"
  /\ event = NoEvent

Strategy ==
  \/ \E t \in Tickets : SubmitOrder(t)
  \/ \E o \in OrderIds : CancelOrder(o)

OnBars ==
  \/ \E o \in OrderIds : SkipOrder(o) \/ AcceptOrder(o) \/ ResumeOrder(o)
  \/ SkipInactive \/ ExpireBeforeFill \/ FillOrder \/ LeaveOrder
  \/ ExpireAfterBar \/ KeepOrder
  \/ HandlersReturn
  \/ LoopEnds

Next ==
  \/ Strategy
  \/ \E bs \in [Instruments -> Bars \cup {NoBar}] : NewBars(bs)
  \/ OnBars

Spec == Init /\ [][Next]_vars

-----------------------------------------------------------------------------
(* Properties *)

(* Every variable holds a value of its kind.                               *)
VariablesOK ==
  /\ clock \in 0 .. MaxBars
  /\ bars \in [Instruments -> Bars \cup {NoBar}]
  /\ order \in [OrderIds -> OrderRecords]
  /\ nextOrderId \in 1 .. MaxOrders + 1
  /\ activeOrders \subseteq OrderIds
  /\ cash \in Int /\ shares \in [Instruments -> Int]
  /\ volumeLeft \in [Instruments -> Nat] /\ volumeUsed \in [Instruments -> Nat]
  /\ ordersToProcess \subseteq OrderIds
  /\ current \in OrderIds \cup {0} /\ stage \in Stages
  /\ event \in [type : EventTypes, order : OrderIds \cup {0}]

(* Every variable holds a value of its kind; the volume left in a bar and  *)
(* what getRemaining returns never go below zero: no sequence of partial   *)
(* fills executes more of an order than was asked for.                     *)
TypeOK ==
  /\ VariablesOK
  /\ \A o \in OrderIds : order[o].state # "INITIAL" => Remaining(o) \in Nat

(* The registry of active orders and the states of the orders agree        *)
(* whenever user code can look at them (getActiveOrders, isActive), in the *)
(* middle of onBars too: no order is lost and none outlives its end.       *)
RegistryConsistent ==
  activeOrders =
    {o \in OrderIds : order[o].state \in {"SUBMITTED", "ACCEPTED", "PARTIALLY_FILLED"}}

(* No look-ahead: an order is only accepted and executed by bars later     *)
(* than the ones the strategy knew when it submitted it, even if it was    *)
(* submitted by a handler while those later bars were being processed.  So *)
(* onBars never takes an order that its own handlers submitted, and they   *)
(* cannot keep it going by submitting one for each order accepted.         *)
NoLookAhead ==
  \A o \in OrderIds :
    /\ order[o].accepted # 0 => order[o].accepted > order[o].submitted
    /\ order[o].execution # NoExecution => order[o].execution.time > order[o].submitted

(* The list frozen by onBars holds no completed order: whatever handlers   *)
(* do meanwhile, an order whose turn has not come yet is still active or   *)
(* was canceled in this same loop (the assertion of __onBarsImpl).         *)
UnprocessedNotFilled ==
  \A o \in ordersToProcess : order[o].state # "FILLED"

(* A bar executes an order at most once, and never again once the order    *)
(* was canceled or completed, whatever handlers do during the loop.        *)
FillsPendingOrder ==
  \A o \in OrderIds :
    order'[o].filled # order[o].filled =>
      /\ order[o].state \in {"ACCEPTED", "PARTIALLY_FILLED"}
      /\ order[o].execution.time < clock

FilledOncePerBar == [][FillsPendingOrder]_vars

(* An execution takes place at a price its bar traded at, and never at a   *)
(* price worse than the limit of a limit or stop limit order.              *)
FillsHonourBarAndLimit ==
  \A o \in OrderIds :
    LET e == order[o].execution IN
    e # NoExecution /\ e.time = clock =>
      BarOf(o) # NoBar /\ PriceHonours(Ticket(o), BarOf(o), e.price)

(* An all-or-none order is executed completely or not at all.              *)
AllOrNoneAtomic ==
  \A o \in OrderIds :
    order[o].state # "INITIAL" /\ Ticket(o).allOrNone =>
      order[o].filled \in {0, Ticket(o).quantity}

(* An order that is not good till canceled is only executed during the     *)
(* session in which it was accepted.                                       *)
ExecutedInSession ==
  \A o \in OrderIds :
    order[o].execution # NoExecution /\ ~Ticket(o).goodTillCanceled =>
      Day(order[o].execution.time) = Day(order[o].accepted)

(* With daily bars, when the strategy gets a bar, no order that is not     *)
(* good till canceled is left over from the bar's processing: the ones     *)
(* still active have not been accepted yet.                                *)
DayOrdersEndWithBar ==
  Frequency = "DAY" /\ stage = "strategy" =>
    \A o \in activeOrders :
      Ticket(o).goodTillCanceled \/ order[o].state = "SUBMITTED"

(* FixedPerTrade charges an order once, however many fills complete it.    *)
FixedCommissionOnce ==
  CommissionModel = "FixedPerTrade" =>
    \A o \in OrderIds :
      order[o].commissions = IF order[o].filled > 0 THEN CommissionAmount ELSE 0

(* Without setAllowNegativeCash no execution, commission included, leaves  *)
(* the account below zero, although the strategy may order more than it    *)
(* can pay and several orders draw on the same cash.                       *)
CashNeverNegative == AllowNegativeCash \/ cash >= 0

(* The orders of this broker follow the state chart every broker promises. *)
ImplementsLifecycle == Lifecycle!Spec

-----------------------------------------------------------------------------
(* What the account says and what the orders say *)

(* The shares that an order added to the account's of instrument i, the    *)
(* cash it moved, and the shares that the current bar executed of it.      *)
SignedFilled(i) ==
  [o \in OrderIds |->
     IF order[o].state = "INITIAL" \/ InstrumentOf(o) # i THEN 0
     ELSE IF IsBuy(Ticket(o)) THEN order[o].filled ELSE -order[o].filled]

CashMoved ==
  [o \in OrderIds |->
     IF order[o].state = "INITIAL" THEN 0
     ELSE (IF IsBuy(Ticket(o)) THEN -order[o].fillValue * 100 ELSE order[o].fillValue * 100)
            - order[o].commissions]

ExecutedNow(i) ==
  [o \in OrderIds |->
     IF order[o].state = "INITIAL" \/ InstrumentOf(o) # i \/ order[o].execution.time # clock THEN 0
     ELSE order[o].execution.quantity]

SharesMatchOrders ==
  \A i \in Instruments : shares[i] = InitialShares[i] + SumFunctionOnSet(SignedFilled(i), OrderIds)

CashMatchesOrders == cash = InitialCash + SumFunctionOnSet(CashMoved, OrderIds)

VolumeLimitRespected ==
  VolumeLimit # 0 =>
    \A i \in Instruments :
      bars[i] # NoBar => SumFunctionOnSet(ExecutedNow(i), OrderIds) <= UsableVolume(bars[i])

(* Whenever user code can look, the shares held of each instrument are     *)
(* what the orders say was executed, and the cash is the initial cash,     *)
(* plus what the orders report as sold and minus what they report as       *)
(* bought (average fill price by filled shares) and as commissions; and    *)
(* all the orders executed by one bar together took no more than the share *)
(* of its volume that the fill strategy allows.                            *)
AccountsMatchOrders == SharesMatchOrders /\ CashMatchesOrders /\ VolumeLimitRespected

=============================================================================
