----------------------- MODULE BacktestingBrokerProofs -----------------------
(***************************************************************************)
(* The backtesting broker's invariants, for every set of bars, every set   *)
(* of orders a strategy may build and every account.                       *)
(*                                                                         *)
(* IInv is what onBars keeps true at every point where it may be           *)
(* interrupted by a handler; it implies the safety properties of           *)
(* BacktestingBroker.  AccountInv adds the sums over orders.               *)
(*                                                                         *)
(* Whatever the venue, a behaviour is one of BacktestingBroker, so that    *)
(* its invariants hold; and the checks that the broker of Bitstamp makes   *)
(* when an order is created hold until it is executed, for any requests,   *)
(* any fee, any bars and any number of orders.                             *)
(***************************************************************************)
EXTENDS Venues, DataTheorems

-----------------------------------------------------------------------------
(* What the fill rules guarantee, for every bar that bar.BasicBar accepts  *)
(* and every order a strategy can build.                                   *)

(* The trigger price of a limit order (get_limit_price_trigger) lies in    *)
(* the bar and is not worse than the limit.                                *)
LEMMA LimitTrigger ==
  ASSUME NEW instruments, NEW t \in TicketsOn(instruments), NEW bar \in AllBars,
         LimitPenetrated(t, bar)
  PROVE  LET p == LimitTriggerPrice(t, bar) IN
         /\ p \in Price
         /\ bar.low <= p /\ p <= bar.high
         /\ IF IsBuy(t) THEN p <= t.limitPrice ELSE p >= t.limitPrice
BY DEF TicketsOn, AllBars, Price, WellFormedBar, LimitPenetrated, LimitTriggerPrice, IsBuy

(* The trigger price of a stop order (get_stop_price_trigger) lies in the  *)
(* bar.                                                                    *)
LEMMA StopTrigger ==
  ASSUME NEW instruments, NEW t \in TicketsOn(instruments), NEW bar \in AllBars,
         StopPenetrated(t, bar)
  PROVE  LET p == StopTriggerPrice(t, bar) IN
         p \in Price /\ bar.low <= p /\ p <= bar.high
BY DEF TicketsOn, AllBars, Price, WellFormedBar, StopPenetrated, StopTriggerPrice, IsBuy

(* Whenever DefaultStrategy fills an order, it does so at a price the bar  *)
(* traded at and not worse than the limit, whether the stop was hit by     *)
(* this bar or an earlier one.                                             *)
THEOREM FillPriceHonours ==
  ASSUME NEW instruments, NEW t \in TicketsOn(instruments), NEW bar \in AllBars,
         NEW hit \in BOOLEAN, Fillable(t, hit, bar)
  PROVE  FillPrice(t, hit, bar) \in Price /\ PriceHonours(t, bar, FillPrice(t, hit, bar))
<1> DEFINE p == FillPrice(t, hit, bar)
<1>1. bar.open \in Price /\ bar.close \in Price /\ bar.low \in Price /\ bar.high \in Price
      /\ WellFormedBar(bar) /\ t.limitPrice \in Nat
  BY DEF AllBars, Price, TicketsOn
<1>2. CASE t.type = "MARKET"
  BY <1>1, <1>2 DEF FillPrice, PriceHonours, WellFormedBar
<1>3. CASE t.type = "LIMIT"
  <2>1. p = LimitTriggerPrice(t, bar) /\ LimitPenetrated(t, bar)
    BY <1>3 DEF FillPrice, Fillable
  <2> QED BY <2>1, <1>3, LimitTrigger DEF PriceHonours
<1>4. CASE t.type = "STOP"
  <2>1. CASE hit
    BY <2>1, <1>1, <1>4 DEF FillPrice, PriceHonours, WellFormedBar
  <2>2. CASE ~hit
    <3>1. p = StopTriggerPrice(t, bar) /\ StopPenetrated(t, bar)
      BY <2>2, <1>4 DEF FillPrice, Fillable, HasStop, StopHitAfter
    <3> QED BY <3>1, <1>4, StopTrigger DEF PriceHonours
  <2> QED BY <2>1, <2>2
<1>5. CASE t.type = "STOP_LIMIT"
  <2>1. LimitPenetrated(t, bar)
    BY <1>5 DEF Fillable
  <2>2. CASE hit
    <3>1. p = LimitTriggerPrice(t, bar)
      BY <2>2, <1>5 DEF FillPrice
    <3> QED BY <3>1, <2>1, LimitTrigger DEF PriceHonours
  <2>3. CASE ~hit
    <3> DEFINE s == StopTriggerPrice(t, bar)
    <3>1. s \in Price /\ bar.low <= s /\ s <= bar.high
      BY <2>3, <1>5, StopTrigger DEF Fillable, HasStop, StopHitAfter
    <3>2. p = IF IsBuy(t) THEN Lower(s, t.limitPrice) ELSE Higher(s, t.limitPrice)
      BY <2>3, <1>5 DEF FillPrice
    <3>3. IF IsBuy(t) THEN t.limitPrice >= bar.low ELSE t.limitPrice <= bar.high
      BY <2>1, <1>1 DEF LimitPenetrated, WellFormedBar, Price
    <3> HIDE DEF s, p
    <3>4. p \in Price /\ PriceHonours(t, bar, p)
      BY <3>1, <3>2, <3>3, <1>1 DEF PriceHonours, Lower, Higher, Price, IsBuy
    <3> QED BY <3>4 DEF p
  <2> QED BY <2>2, <2>3
<1> QED BY <1>2, <1>3, <1>4, <1>5 DEF TicketsOn

(* A fill is never larger than what remains of the order or than the       *)
(* volume left, and an all-or-none order is filled whole or not at all.    *)
LEMMA FillSizeBounds ==
  ASSUME NEW remaining \in Nat, NEW maxVolume \in Nat, NEW allOrNone \in BOOLEAN
  PROVE  LET n == FillSize(remaining, allOrNone, maxVolume) IN
         /\ n \in 0 .. remaining
         /\ n <= maxVolume
         /\ allOrNone => n \in {0, remaining}
BY DEF FillSize, Lower

-----------------------------------------------------------------------------
(* The invariant *)

(* An order object is untouched until it is submitted.                     *)
Untouched(o) ==
  /\ order[o].state = "INITIAL" <=> o >= nextOrderId
  /\ order[o].state = "INITIAL" => order[o] = NewOrder
  /\ order[o].state # "INITIAL" => Ticket(o) \in Tickets

(* The dates of an order lie in the past, in order.                        *)
Dated(o) ==
  /\ order[o].submitted <= clock /\ order[o].accepted <= clock
  /\ order[o].execution.time <= clock
  /\ order[o].accepted # 0 => order[o].accepted > order[o].submitted
  /\ order[o].execution # NoExecution => order[o].execution.time > order[o].submitted

(* What each state of an order says of what was executed.                  *)
Sized(o) ==
  /\ order[o].execution = NoExecution <=> order[o].filled = 0
  /\ order[o].state \in {"SUBMITTED", "ACCEPTED"} => order[o].filled = 0
  /\ order[o].state = "PARTIALLY_FILLED" =>
       order[o].filled \in 1 .. Ticket(o).quantity - 1 /\ ~Ticket(o).allOrNone
  /\ order[o].state = "FILLED" => order[o].filled = Ticket(o).quantity
  /\ order[o].state = "CANCELED" =>
       order[o].filled \in 0 .. Ticket(o).quantity - 1 /\ (Ticket(o).allOrNone => order[o].filled = 0)

OrdersOK == \A o \in OrderIds : Untouched(o) /\ Dated(o) /\ Sized(o)

(* A bar may execute the order: it is older than the bar and this bar has  *)
(* not executed it yet.                                                    *)
Pending(o) ==
  /\ order[o].state \notin {"INITIAL", "FILLED"}
  /\ order[o].submitted < clock
  /\ order[o].execution.time < clock

(* Where onBars is.                                                        *)
Progress ==
  /\ \A o \in ordersToProcess : Pending(o) /\ o # current
  /\ stage = "strategy" => ordersToProcess = {}
  /\ stage \in {"strategy", "loop"} => current = 0
  /\ stage \in {"onAccepted", "process"} =>
       /\ current \in OrderIds /\ Pending(current) /\ order[current].state # "SUBMITTED"
       /\ BarOf(current) # NoBar
  /\ stage \in {"onFilled", "post", "onExpired"} =>
       current \in OrderIds /\ order[current].state \notin {"INITIAL", "SUBMITTED"}
  /\ stage = "onExpired" => order[current].state = "CANCELED"

IInv ==
  /\ VariablesOK
  /\ OrdersOK
  /\ RegistryConsistent
  /\ Progress

-----------------------------------------------------------------------------
(* Types of what __processOrder computes *)

USE DEF OrderIds

(* Every commission model charges a natural amount.                        *)
LEMMA CommissionType ==
  ASSUME NEW o, NEW price \in Nat, NEW quantity \in Nat
  PROVE  CommissionFor(o, price, quantity) \in Nat
<1>1. CommissionAmount \in Nat
  BY ConstantsAssumption
<1>2. price * quantity * CommissionAmount \in Nat
  BY <1>1
<1>3. CommissionModel \in {"NoCommission", "FixedPerTrade", "TradePercentage"}
  BY ConstantsAssumption
<1>4. 0 \in Nat
  OBVIOUS
<1> QED BY <1>1, <1>2, <1>3, <1>4, Zenon DEF CommissionFor

(* A submitted order was built by one of the createXXXOrder methods, and   *)
(* its bar, if there is one, is well formed.                               *)
LEMMA TicketType ==
  ASSUME NEW o \in OrderIds, VariablesOK, order[o].state # "INITIAL", Untouched(o)
  PROVE  /\ Ticket(o) \in TicketsOn(Instruments)
         /\ InstrumentOf(o) \in Instruments
         /\ Ticket(o).quantity \in Nat \ {0}
         /\ Ticket(o).allOrNone \in BOOLEAN /\ Ticket(o).goodTillCanceled \in BOOLEAN
         /\ BarOf(o) # NoBar => BarOf(o) \in AllBars
<1>1. Ticket(o) \in TicketsOn(Instruments)
  BY TicketsAssumption DEF Untouched
<1>2. InstrumentOf(o) \in Instruments
  BY <1>1 DEF TicketsOn, InstrumentOf
<1>3. BarOf(o) # NoBar => BarOf(o) \in AllBars
  BY <1>2, BarsAssumption DEF VariablesOK, BarOf
<1> QED BY <1>1, <1>2, <1>3 DEF TicketsOn

(* The dates and amounts of every order are numbers.                       *)
LEMMA OrderTypes ==
  ASSUME VariablesOK
  PROVE  \A o \in OrderIds :
           /\ order[o].submitted \in Nat /\ order[o].accepted \in Nat
           /\ order[o].filled \in Nat /\ order[o].execution.time \in Nat
BY DEF VariablesOK, OrderRecords

(* The invariant holds before the first bar.                               *)
LEMMA InitIInv == Init => IInv
BY ConstantsAssumption, TicketsAssumption
   DEF Init, IInv, VariablesOK, OrdersOK, Untouched, Dated, Sized, RegistryConsistent, Progress,
       OrderRecords, NewOrder, NoExecution, NoEvent, Lifecycle!States, Stages, ClientStages, EventTypes

-----------------------------------------------------------------------------
(* Every step keeps the invariant *)

(* submitOrder keeps it, from the strategy and from a handler: the new     *)
(* order is not in the list that onBars froze.                             *)
LEMMA SubmitOrderIInv ==
  ASSUME IInv, NEW t \in Tickets, SubmitOrder(t)
  PROVE  IInv'
<1> DEFINE n == nextOrderId
<1>1. n \in OrderIds /\ order[n].state = "INITIAL" /\ clock \in Nat
  BY ConstantsAssumption DEF IInv, SubmitOrder, OrdersOK, Untouched, VariablesOK
<1>2. order' = [order EXCEPT ![n] =
         [NewOrder EXCEPT !.state = "SUBMITTED", !.ticket = t, !.submitted = clock]]
      /\ n \notin ordersToProcess /\ (current # 0 => n # current)
  BY <1>1 DEF SubmitOrder, IInv, Progress, Pending, Stages, ClientStages, VariablesOK
<1>3. VariablesOK'
  <2>1. [NewOrder EXCEPT !.state = "SUBMITTED", !.ticket = t, !.submitted = clock] \in OrderRecords
    BY <1>1 DEF OrderRecords, NewOrder, NoExecution, Lifecycle!States
  <2>2. order' \in [OrderIds -> OrderRecords]
    BY <1>1, <1>2, <2>1 DEF IInv, VariablesOK
  <2>3. nextOrderId' \in 1 .. MaxOrders + 1 /\ activeOrders' \subseteq OrderIds
    BY <1>1, ConstantsAssumption DEF IInv, VariablesOK, SubmitOrder
  <2>4. event' \in [type : EventTypes, order : OrderIds \cup {0}]
    BY <1>1 DEF SubmitOrder, Emit, EventTypes
  <2> QED BY <2>2, <2>3, <2>4 DEF IInv, VariablesOK, SubmitOrder, feed, account
<1>4. OrdersOK'
  BY <1>1, <1>2 DEF IInv, VariablesOK, SubmitOrder, OrdersOK, Untouched, Dated, Sized, Ticket, NewOrder,
       NoExecution, feed, account
<1>5. RegistryConsistent'
  BY <1>1, <1>2 DEF IInv, VariablesOK, SubmitOrder, RegistryConsistent, NewOrder
<1>6. Progress'
  BY <1>1, <1>2 DEF IInv, VariablesOK, SubmitOrder, Progress, Pending, BarOf, InstrumentOf, Ticket, NewOrder, feed,
       ClientStages
<1> QED BY <1>3, <1>4, <1>5, <1>6 DEF IInv

(* Cancellation, by the strategy or by onBars.                             *)
LEMMA CancelActiveOrders ==
  ASSUME IInv, NEW o \in activeOrders, CancelActive(o), UNCHANGED <<feed, nextOrderId>>
  PROVE  /\ order' \in [OrderIds -> OrderRecords] /\ OrdersOK' /\ RegistryConsistent'
         /\ activeOrders' \subseteq OrderIds
         /\ event' \in [type : EventTypes, order : OrderIds \cup {0}]
         /\ \A p \in OrderIds : Pending(p) => Pending(p)'
         /\ \A p \in OrderIds : BarOf(p)' = BarOf(p)
         /\ \A p \in OrderIds : order'[p].state = IF p = o THEN "CANCELED" ELSE order[p].state
<1>1. o \in OrderIds /\ order[o].state \in {"SUBMITTED", "ACCEPTED", "PARTIALLY_FILLED"}
      /\ order[o] \in OrderRecords
  BY DEF IInv, RegistryConsistent, VariablesOK
<1>2. Ticket(o).quantity \in Nat \ {0}
  BY <1>1, TicketType DEF IInv, OrdersOK
<1>3. order' = [order EXCEPT ![o].state = "CANCELED"] /\ clock' = clock /\ bars' = bars
  BY DEF CancelActive, feed
<1>4. order' \in [OrderIds -> OrderRecords]
  BY <1>1, <1>3 DEF IInv, VariablesOK, OrderRecords, Lifecycle!States
<1>5. OrdersOK'
  BY <1>1, <1>2, <1>3 DEF IInv, VariablesOK, OrdersOK, Untouched, Dated, Sized, Ticket, feed
<1>6. RegistryConsistent'
  BY <1>1, <1>3 DEF CancelActive, Unregister, IInv, VariablesOK, RegistryConsistent
<1>7. \A p \in OrderIds : (Pending(p) => Pending(p)') /\ BarOf(p)' = BarOf(p)
  BY <1>1, <1>3 DEF Pending, BarOf, InstrumentOf, Ticket, IInv, VariablesOK
<1>8. event' \in [type : EventTypes, order : OrderIds \cup {0}] /\ activeOrders' \subseteq OrderIds
  BY <1>1 DEF CancelActive, Emit, EventTypes, Unregister, IInv, VariablesOK
<1>9. \A p \in OrderIds : order'[p].state = IF p = o THEN "CANCELED" ELSE order[p].state
  BY <1>1, <1>3 DEF IInv, VariablesOK
<1> QED BY <1>4, <1>5, <1>6, <1>7, <1>8, <1>9

(* cancelOrder keeps it, also for the order onBars is working on.          *)
LEMMA CancelOrderIInv ==
  ASSUME IInv, NEW o \in OrderIds, CancelOrder(o)
  PROVE  IInv'
<1>1. UNCHANGED <<feed, account, nextOrderId, ordersToProcess, current, stage>>
  BY DEF CancelOrder
<1>2. VariablesOK'
  BY <1>1, CancelActiveOrders DEF CancelOrder, IInv, VariablesOK, feed, account
<1>3. Progress'
  BY <1>1, CancelActiveOrders DEF CancelOrder, IInv, VariablesOK, Progress, ClientStages
<1> QED BY <1>1, <1>2, <1>3, CancelActiveOrders DEF CancelOrder, IInv

(* New bars keep it: every active order is older than they are and was not *)
(* executed by them.                                                       *)
LEMMA NewBarsIInv ==
  ASSUME IInv, NEW bs \in [Instruments -> Bars \cup {NoBar}], NewBars(bs)
  PROVE  IInv'
<1>1. \A i \in Instruments : bs[i] # NoBar => bs[i].volume \in Nat
  BY BarsAssumption DEF AllBars
<1>2. \A i \in Instruments : bs[i] # NoBar => UsableVolume(bs[i]) \in Nat
  BY <1>1, ConstantsAssumption DEF UsableVolume
<1>3. clock' = clock + 1 /\ clock \in Nat /\ order' = order /\ activeOrders' = activeOrders
      /\ nextOrderId' = nextOrderId /\ ordersToProcess' = activeOrders /\ current' = 0
      /\ stage' = "loop"
  BY ConstantsAssumption DEF NewBars, IInv, VariablesOK, Progress
<1>4. VariablesOK'
  <2>1. volumeLeft' \in [Instruments -> Nat] /\ volumeUsed' \in [Instruments -> Nat]
    BY <1>2 DEF NewBars, IInv, VariablesOK
  <2>2. clock' \in 0 .. MaxBars
    BY <1>3, ConstantsAssumption DEF NewBars, IInv, VariablesOK
  <2>3. event' \in [type : EventTypes, order : OrderIds \cup {0}]
    BY DEF NewBars, NoEvent, EventTypes
  <2> QED BY <2>1, <2>2, <2>3, <1>3 DEF NewBars, IInv, VariablesOK, Stages
<1>5. OrdersOK'
  BY <1>3, OrderTypes DEF IInv, OrdersOK, Untouched, Dated, Sized, Ticket
<1>6. RegistryConsistent'
  BY <1>3 DEF IInv, RegistryConsistent
<1>7. Progress'
  <2>1. \A o \in activeOrders : Pending(o)' /\ o # 0
    BY <1>3, OrderTypes DEF IInv, OrdersOK, Dated, RegistryConsistent, Pending
  <2> QED BY <1>3, <2>1 DEF Progress
<1> QED BY <1>4, <1>5, <1>6, <1>7 DEF IInv

(* The order that the loop takes was pending and leaves the list.          *)
LEMMA TakeOrderFacts ==
  ASSUME IInv, NEW o \in OrderIds, TakeOrder(o)
  PROVE  /\ Pending(o) /\ current = 0
         /\ ordersToProcess' = ordersToProcess \ {o} /\ ordersToProcess' \subseteq OrderIds
BY DEF TakeOrder, Unprocessed, Advance, IInv, VariablesOK, Progress

(* An order without a bar, or canceled in this loop, is passed over.       *)
LEMMA SkipOrderIInv ==
  ASSUME IInv, NEW o \in OrderIds, SkipOrder(o)
  PROVE  IInv'
<1>1. TakeOrder(o) /\ stage = "loop" /\ UNCHANGED <<feed, account, order, nextOrderId, activeOrders, current, stage, event>>
  BY DEF SkipOrder, TakeOrder
<1>2. VariablesOK'
  BY <1>1, TakeOrderFacts DEF IInv, VariablesOK, feed, account
<1>3. OrdersOK' /\ RegistryConsistent'
  BY <1>1 DEF IInv, OrdersOK, Untouched, Dated, Sized, Ticket, RegistryConsistent, feed
<1>4. Progress'
  BY <1>1, TakeOrderFacts DEF IInv, VariablesOK, Progress, Pending, feed
<1> QED BY <1>2, <1>3, <1>4 DEF IInv

(* Accepting an order, whose handlers run next, keeps the invariant.       *)
LEMMA AcceptOrderIInv ==
  ASSUME IInv, NEW o \in OrderIds, AcceptOrder(o)
  PROVE  IInv'
<1>1. Pending(o) /\ ordersToProcess' = ordersToProcess \ {o} /\ ordersToProcess' \subseteq OrderIds
  BY TakeOrderFacts DEF AcceptOrder
<1>2. order' = [order EXCEPT ![o].state = "ACCEPTED", ![o].accepted = clock]
      /\ UNCHANGED <<clock, bars, nextOrderId, activeOrders>> /\ current' = o /\ stage' = "onAccepted"
      /\ order[o].state = "SUBMITTED" /\ BarOf(o) # NoBar
  BY DEF AcceptOrder, feed
<1>3. clock \in Nat /\ order[o] \in OrderRecords
  BY ConstantsAssumption DEF IInv, VariablesOK
<1>4. VariablesOK'
  <2>1. order' \in [OrderIds -> OrderRecords]
    BY <1>2, <1>3 DEF IInv, VariablesOK, OrderRecords, Lifecycle!States
  <2> QED BY <2>1, <1>1, <1>2 DEF AcceptOrder, IInv, VariablesOK, Emit, EventTypes, Stages, ClientStages, account
<1>5. OrdersOK'
  <2>1. \A p \in OrderIds :
          /\ order'[p].state = IF p = o THEN "ACCEPTED" ELSE order[p].state
          /\ order'[p].accepted = IF p = o THEN clock ELSE order[p].accepted
          /\ order'[p].ticket = order[p].ticket /\ order'[p].submitted = order[p].submitted
          /\ order'[p].filled = order[p].filled /\ order'[p].execution = order[p].execution
          /\ p # o => order'[p] = order[p]
    BY <1>2, <1>3 DEF IInv, VariablesOK
  <2>2. order[o].filled = 0 /\ o < nextOrderId /\ Ticket(o) \in Tickets
    BY <1>2 DEF IInv, VariablesOK, OrdersOK, Untouched, Sized
  <2>3. clock' = clock /\ nextOrderId' = nextOrderId
    BY <1>2
  <2>4. o < nextOrderId => ~(o >= nextOrderId)
    BY DEF IInv, VariablesOK
  <2>5. Untouched(o)'
    BY <2>1, <2>2, <2>3, <2>4 DEF Untouched, Ticket
  <2>6. Dated(o)'
    <3>1. order[o].submitted < clock
      BY <1>1 DEF Pending
    <3> QED BY <1>3, <2>1, <2>3, <3>1, OrderTypes DEF IInv, OrdersOK, Dated
  <2>7. Sized(o)'
    BY <2>1, <2>2 DEF IInv, OrdersOK, Sized, Ticket
  <2>8. ASSUME NEW p \in OrderIds, p # o
        PROVE  Untouched(p)' /\ Dated(p)' /\ Sized(p)'
    <3>1. order'[p] = order[p] /\ UNCHANGED <<clock, nextOrderId>>
      BY <2>1, <2>3, <2>8
    <3> QED BY <3>1 DEF IInv, OrdersOK, Untouched, Dated, Sized, Ticket
  <2> QED BY <2>5, <2>6, <2>7, <2>8 DEF OrdersOK
<1>6. RegistryConsistent'
  BY <1>2, <1>3 DEF IInv, VariablesOK, RegistryConsistent
<1>7. Progress'
  BY <1>1, <1>2, <1>3 DEF IInv, VariablesOK, Progress, Pending, BarOf, InstrumentOf, Ticket, ClientStages
<1> QED BY <1>4, <1>5, <1>6, <1>7 DEF IInv

(* So does going on with an order accepted by an earlier bar.              *)
LEMMA ResumeOrderIInv ==
  ASSUME IInv, NEW o \in OrderIds, ResumeOrder(o)
  PROVE  IInv'
<1>1. Pending(o) /\ ordersToProcess' = ordersToProcess \ {o} /\ ordersToProcess' \subseteq OrderIds
  BY TakeOrderFacts DEF ResumeOrder
<1>2. UNCHANGED <<feed, account, order, nextOrderId, activeOrders, event>> /\ current' = o
      /\ stage' = "process" /\ order[o].state # "SUBMITTED" /\ BarOf(o) # NoBar
  BY DEF ResumeOrder
<1>3. VariablesOK'
  BY <1>1, <1>2 DEF IInv, VariablesOK, feed, account, Stages
<1>4. OrdersOK' /\ RegistryConsistent'
  BY <1>2 DEF IInv, OrdersOK, Untouched, Dated, Sized, Ticket, RegistryConsistent, feed
<1>5. Progress'
  BY <1>1, <1>2 DEF IInv, VariablesOK, Progress, Pending, BarOf, InstrumentOf, Ticket, feed
<1> QED BY <1>3, <1>4, <1>5 DEF IInv

(* The steps that only move on.                                            *)
LEMMA MoveOnIInv ==
  ASSUME IInv, LoopEnds \/ SkipInactive \/ KeepOrder \/ HandlersReturn
  PROVE  IInv'
<1>1. UNCHANGED <<feed, account, order, nextOrderId, activeOrders, ordersToProcess>>
  BY DEF LoopEnds, SkipInactive, KeepOrder, HandlersReturn
<1>2. /\ event' \in [type : EventTypes, order : OrderIds \cup {0}]
      /\ stage' \in Stages
      /\ current' \in {0, current}
  BY DEF LoopEnds, SkipInactive, KeepOrder, HandlersReturn, IInv, VariablesOK, NoEvent, EventTypes, Stages, ClientStages
<1>3. VariablesOK'
  BY <1>1, <1>2 DEF IInv, VariablesOK, feed, account
<1>4. OrdersOK' /\ RegistryConsistent'
  BY <1>1 DEF IInv, OrdersOK, Untouched, Dated, Sized, Ticket, RegistryConsistent, feed
<1>5. Progress'
  <2>1. \A o \in ordersToProcess' : Pending(o)' /\ o # current'
    BY <1>1, <1>2 DEF IInv, VariablesOK, Progress, Pending, feed
  <2>2. CASE LoopEnds
    BY <2>1, <2>2 DEF LoopEnds, Unprocessed, IInv, Progress
  <2>3. CASE SkipInactive
    BY <2>1, <2>3 DEF SkipInactive, Progress
  <2>4. CASE KeepOrder
    BY <2>1, <2>4 DEF KeepOrder, Progress
  <2>5. CASE HandlersReturn
    <3>1. CASE stage = "onAccepted"
      BY <1>1, <2>1, <2>5, <3>1 DEF HandlersReturn, IInv, Progress, Pending, BarOf, InstrumentOf, Ticket, feed
    <3>2. CASE stage = "onFilled"
      BY <1>1, <2>1, <2>5, <3>2 DEF HandlersReturn, IInv, Progress
    <3>3. CASE stage = "onExpired"
      BY <2>1, <2>5, <3>3 DEF HandlersReturn, Progress
    <3> QED BY <2>5, <3>1, <3>2, <3>3 DEF HandlersReturn
  <2> QED BY <2>2, <2>3, <2>4, <2>5
<1> QED BY <1>3, <1>4, <1>5 DEF IInv

(* onBars cancels an order that has expired, before or after its turn to   *)
(* be filled.                                                              *)
LEMMA ExpireIInv ==
  ASSUME IInv, ExpireBeforeFill \/ ExpireAfterBar
  PROVE  IInv'
<1>1. /\ current \in OrderIds /\ current \in activeOrders /\ CancelActive(current)
      /\ UNCHANGED <<feed, account, nextOrderId, ordersToProcess, current>>
      /\ stage' = "onExpired"
  <2>1. current \in OrderIds /\ order[current].state \notin {"INITIAL", "SUBMITTED"}
        /\ IsActive(current)
    BY DEF ExpireBeforeFill, ExpireAfterBar, IInv, Progress, Pending
  <2>2. order[current].state \in {"ACCEPTED", "PARTIALLY_FILLED"}
    BY <2>1 DEF IInv, VariablesOK, OrderRecords, Lifecycle!States, IsActive
  <2> QED BY <2>1, <2>2 DEF ExpireBeforeFill, ExpireAfterBar, IInv, RegistryConsistent
<1>2. UNCHANGED <<feed, nextOrderId>>
  BY <1>1
<1>3. VariablesOK'
  BY <1>1, <1>2, CancelActiveOrders DEF IInv, VariablesOK, feed, account, Stages, ClientStages
<1>4. order'[current].state = "CANCELED" /\ \A p \in OrderIds : Pending(p) => Pending(p)'
  BY <1>1, <1>2, CancelActiveOrders
<1>5. Progress'
  BY <1>1, <1>4 DEF IInv, VariablesOK, Progress
<1> QED BY <1>1, <1>2, <1>3, <1>5, CancelActiveOrders DEF IInv

(* An order that is not executed changes at most its stop flag.            *)
LEMMA LeaveOrderIInv ==
  ASSUME IInv, LeaveOrder
  PROVE  IInv'
<1> DEFINE hit == StopHitAfter(Ticket(current), order[current].stopHit, BarOf(current))
<1>1. /\ order' = [order EXCEPT ![current].stopHit = hit]
      /\ UNCHANGED <<feed, account, nextOrderId, activeOrders, ordersToProcess, current, event>>
      /\ stage' = "post" /\ stage = "process"
  BY DEF LeaveOrder
<1>2. current \in OrderIds /\ order[current].state \notin {"INITIAL", "SUBMITTED"}
  BY <1>1 DEF IInv, Progress, Pending
<1>3. order[current].stopHit \in BOOLEAN
  BY <1>2 DEF IInv, VariablesOK, OrderRecords
<1>4. hit \in BOOLEAN
  BY <1>3, Zenon DEF StopHitAfter
<1> HIDE DEF hit
<1>5. order' \in [OrderIds -> OrderRecords]
  <2>1. order[current] \in OrderRecords
    BY <1>2 DEF IInv, VariablesOK
  <2>2. [order[current] EXCEPT !.stopHit = hit] \in OrderRecords
    BY <1>4, <2>1 DEF OrderRecords
  <2>3. order' = [order EXCEPT ![current] = [order[current] EXCEPT !.stopHit = hit]]
    BY <1>1
  <2> QED BY <1>2, <2>2, <2>3 DEF IInv, VariablesOK
<1>6. VariablesOK'
  BY <1>1, <1>5 DEF IInv, VariablesOK, feed, account, Stages
<1>7. \A p \in OrderIds :
        /\ order'[p].state = order[p].state /\ order'[p].ticket = order[p].ticket
        /\ order'[p].submitted = order[p].submitted /\ order'[p].accepted = order[p].accepted
        /\ order'[p].filled = order[p].filled /\ order'[p].execution = order[p].execution
        /\ p # current => order'[p] = order[p]
  BY <1>1, <1>2 DEF IInv, VariablesOK
<1>8. UNCHANGED <<clock, bars, nextOrderId, activeOrders, ordersToProcess, current>>
  BY <1>1 DEF feed
<1>9. OrdersOK' /\ RegistryConsistent'
  BY <1>2, <1>7, <1>8 DEF IInv, OrdersOK, Untouched, Dated, Sized, Ticket, RegistryConsistent
<1>10. stage' = "post"
  BY <1>1
<1>11. Progress'
  BY <1>2, <1>7, <1>8, <1>10 DEF IInv, VariablesOK, Progress, Pending
<1> QED BY <1>6, <1>9, <1>11 DEF IInv

(* commitOrderExecution never fills more than remains of the order or of   *)
(* the volume, so that the order ends exactly when nothing remains.        *)
LEMMA FillableFacts ==
  ASSUME IInv, stage = "process", IsActive(current), HasFill(current)
  PROVE  LET n == Size(current)
             t == Ticket(current) IN
         /\ current \in OrderIds /\ Pending(current)
         /\ order[current].state \in {"ACCEPTED", "PARTIALLY_FILLED"}
         /\ t \in Tickets /\ InstrumentOf(current) \in Instruments
         /\ t.quantity \in Nat /\ t.allOrNone \in BOOLEAN
         /\ n \in 1 .. Remaining(current)
         /\ Remaining(current) = t.quantity - order[current].filled
         /\ t.allOrNone => n = t.quantity /\ order[current].filled = 0
         /\ VolumeAfterFill(volumeLeft[InstrumentOf(current)], n) \in Nat
         /\ PriceOf(current) \in Price
         /\ PriceHonours(t, BarOf(current), PriceOf(current))
         /\ CommissionFor(current, PriceOf(current), n) \in Nat
         /\ BarOf(current) # NoBar
<1> DEFINE n == Size(current)
           t == Ticket(current)
<1>1. current \in OrderIds /\ Pending(current) /\ BarOf(current) # NoBar
      /\ order[current].state \notin {"INITIAL", "SUBMITTED", "FILLED", "CANCELED"}
  BY DEF IInv, Progress, Pending, IsActive
<1>2. order[current].state \in {"ACCEPTED", "PARTIALLY_FILLED"}
  BY <1>1 DEF IInv, VariablesOK, OrderRecords, Lifecycle!States
<1>3. /\ t \in TicketsOn(Instruments) /\ InstrumentOf(current) \in Instruments
      /\ t.quantity \in Nat \ {0} /\ t.allOrNone \in BOOLEAN
      /\ BarOf(current) \in AllBars
  BY <1>1, TicketType DEF IInv, OrdersOK
<1>4. Remaining(current) \in Nat /\ Remaining(current) = t.quantity - order[current].filled
      /\ (t.allOrNone => order[current].filled = 0)
  <2>1. order[current].filled \in 0 .. t.quantity /\ (t.allOrNone => order[current].filled = 0)
    BY <1>1, <1>2, <1>3 DEF IInv, OrdersOK, Sized
  <2> QED BY <1>3, <2>1 DEF Remaining
<1>5. MaxVolume(current) \in Nat
  BY <1>3, <1>4 DEF MaxVolume, IInv, VariablesOK
<1>6. n \in 0 .. Remaining(current) /\ n <= MaxVolume(current)
      /\ (t.allOrNone => n \in {0, Remaining(current)})
  BY <1>3, <1>4, <1>5, FillSizeBounds DEF Size
<1>7. n # 0 /\ Fillable(t, order[current].stopHit, BarOf(current))
  BY DEF HasFill
<1>8. n \in 1 .. Remaining(current) /\ (t.allOrNone => n = t.quantity)
  BY <1>3, <1>4, <1>6, <1>7
<1>9. VolumeAfterFill(volumeLeft[InstrumentOf(current)], n) \in Nat
  BY <1>3, <1>4, <1>6, <1>8 DEF VolumeAfterFill, MaxVolume, IInv, VariablesOK
<1>10. order[current].stopHit \in BOOLEAN
  BY <1>1 DEF IInv, VariablesOK, OrderRecords
<1>11. PriceOf(current) \in Price /\ PriceHonours(t, BarOf(current), PriceOf(current))
  BY <1>3, <1>7, <1>10, FillPriceHonours DEF PriceOf
<1>12. CommissionFor(current, PriceOf(current), n) \in Nat
  BY <1>4, <1>8, <1>11, CommissionType DEF Price
<1>13. t \in Tickets
  BY <1>1 DEF IInv, OrdersOK, Untouched, Pending
<1> QED BY <1>1, <1>2, <1>3, <1>4, <1>8, <1>9, <1>11, <1>12, <1>13

(* The same of an execution.                                               *)
LEMMA FillFacts ==
  ASSUME IInv, FillOrder
  PROVE  LET n == Size(current)
             t == Ticket(current) IN
         /\ current \in OrderIds /\ Pending(current)
         /\ order[current].state \in {"ACCEPTED", "PARTIALLY_FILLED"}
         /\ t \in Tickets /\ InstrumentOf(current) \in Instruments
         /\ t.quantity \in Nat /\ t.allOrNone \in BOOLEAN
         /\ n \in 1 .. Remaining(current)
         /\ Remaining(current) = t.quantity - order[current].filled
         /\ t.allOrNone => n = t.quantity /\ order[current].filled = 0
         /\ VolumeAfterFill(volumeLeft[InstrumentOf(current)], n) \in Nat
         /\ PriceOf(current) \in Price
         /\ PriceHonours(t, BarOf(current), PriceOf(current))
         /\ CommissionFor(current, PriceOf(current), n) \in Nat
         /\ BarOf(current) # NoBar
BY FillableFacts DEF FillOrder

(* An execution keeps the invariant: the registry drops the order exactly  *)
(* when it is complete.                                                    *)
LEMMA FillOrderIInv ==
  ASSUME IInv, FillOrder
  PROVE  IInv'
<1>0. PICK o \in OrderIds : o = current
  BY FillFacts
<1> DEFINE n     == Size(o)
           price == PriceOf(o)
           fee   == CommissionFor(o, price, n)
           next  == StateAfterFill(Remaining(o), n)
           inst  == InstrumentOf(o)
           hit   == StopHitAfter(Ticket(o), order[o].stopHit, BarOf(o))
           rec   == AddExecutionInfo(o, n, price, fee)
<1>1. /\ Pending(o) /\ order[o].state \in {"ACCEPTED", "PARTIALLY_FILLED"}
      /\ Ticket(o) \in Tickets /\ inst \in Instruments
      /\ Ticket(o).quantity \in Nat /\ Ticket(o).allOrNone \in BOOLEAN
      /\ n \in 1 .. Remaining(o) /\ Remaining(o) = Ticket(o).quantity - order[o].filled
      /\ Ticket(o).allOrNone => n = Ticket(o).quantity /\ order[o].filled = 0
      /\ VolumeAfterFill(volumeLeft[inst], n) \in Nat
      /\ price \in Nat /\ fee \in Nat
  BY <1>0, FillFacts DEF Price
<1>2. order' = [order EXCEPT ![o] = rec]
  BY <1>0 DEF FillOrder, CommitExecution
<1>3. /\ cash' = ResultingCash(o)
      /\ shares' = [shares EXCEPT ![inst] = @ + SharesDelta(Ticket(o), n)]
      /\ volumeLeft' = [volumeLeft EXCEPT ![inst] = VolumeAfterFill(@, n)]
      /\ volumeUsed' = [volumeUsed EXCEPT ![inst] = @ + n]
      /\ activeOrders' = IF next = "FILLED" THEN Unregister(o) ELSE activeOrders
      /\ Emit(next, o) /\ stage' = "onFilled" /\ stage = "process"
      /\ UNCHANGED <<feed, nextOrderId, ordersToProcess, current>>
  BY <1>0 DEF FillOrder, CommitExecution
<1>4. order[o] \in OrderRecords /\ order[o].filled \in Nat /\ order[o].fillValue \in Nat
      /\ order[o].commissions \in Nat /\ hit \in BOOLEAN /\ clock \in Nat
  <2>1. order[o] \in OrderRecords
    BY DEF IInv, VariablesOK
  <2>2. order[o].stopHit \in BOOLEAN
    BY <2>1 DEF OrderRecords
  <2>3. hit \in BOOLEAN
    BY <2>2, Zenon DEF StopHitAfter
  <2>4. clock \in Nat
    BY ConstantsAssumption DEF IInv, VariablesOK
  <2> HIDE DEF hit
  <2> QED BY <2>1, <2>3, <2>4 DEF OrderRecords
<1>5. n \in Nat /\ price * n \in Nat
  BY <1>1, <1>4
<1>6. next \in {"FILLED", "PARTIALLY_FILLED"} /\ (next = "FILLED" <=> n = Remaining(o))
  BY DEF StateAfterFill
<1>7. cash' \in Int
  BY SMTT(20), <1>1, <1>3, <1>5 DEF ResultingCash, Proceeds, IInv, VariablesOK
<1>8. shares' \in [Instruments -> Int]
  BY SMTT(20), <1>1, <1>3, <1>5 DEF SharesDelta, IInv, VariablesOK
<1>9. rec \in OrderRecords
  <2> DEFINE exec == [price |-> price, quantity |-> n, commission |-> fee, time |-> clock]
  <2>1. exec \in [price : Nat, quantity : Nat, commission : Nat, time : Nat]
    BY <1>1, <1>4, <1>5
  <2>2. rec = [order[o] EXCEPT
                 !.state = next, !.filled = @ + n, !.fillValue = @ + price * n,
                 !.commissions = @ + fee, !.stopHit = hit, !.execution = exec]
    BY DEF AddExecutionInfo
  <2> HIDE DEF exec, n, price, fee, next, hit, rec
  <2>3. order[o].filled + n \in Nat /\ order[o].commissions + fee \in Nat
    BY <1>1, <1>4, <1>5
  <2>4. order[o].fillValue + price * n \in Nat
    BY <1>4, <1>5
  <2> QED BY <1>4, <1>6, <2>1, <2>2, <2>3, <2>4 DEF OrderRecords, Lifecycle!States
<1>10. order' \in [OrderIds -> OrderRecords]
  <2> HIDE DEF rec
  <2> QED BY <1>1, <1>2, <1>9 DEF IInv, VariablesOK
<1>11. VariablesOK'
  <2>1. volumeLeft' \in [Instruments -> Nat] /\ volumeUsed' \in [Instruments -> Nat]
    BY SMTT(20), <1>1, <1>3, <1>5 DEF IInv, VariablesOK
  <2>2. event' \in [type : EventTypes, order : OrderIds \cup {0}]
    BY <1>1, <1>3, <1>6 DEF Emit, EventTypes
  <2>3. activeOrders' \subseteq OrderIds /\ stage' \in Stages
    BY <1>1, <1>3 DEF Unregister, IInv, VariablesOK, Stages, ClientStages
  <2> QED BY <1>3, <1>7, <1>8, <1>10, <2>1, <2>2, <2>3 DEF IInv, VariablesOK, feed
<1>12. /\ order'[o].state = next /\ order'[o].ticket = order[o].ticket
       /\ order'[o].submitted = order[o].submitted /\ order'[o].accepted = order[o].accepted
       /\ order'[o].filled = order[o].filled + n
       /\ order'[o].execution.time = clock /\ order'[o].execution # NoExecution
  <2>1. order'[o] = rec
    BY <1>2 DEF IInv, VariablesOK
  <2> HIDE DEF n, price, fee, next
  <2> QED BY <1>1, <1>4, <1>5, <2>1 DEF AddExecutionInfo, OrderRecords, NoExecution, next
<1> HIDE DEF n, price, fee, next, rec
<1>13. ASSUME NEW p \in OrderIds, p # o
       PROVE  order'[p] = order[p]
  BY <1>1, <1>2, <1>13 DEF IInv, VariablesOK
<1>14. UNCHANGED <<clock, bars, nextOrderId, ordersToProcess, current>> /\ stage' = "onFilled"
  BY <1>3 DEF feed
<1>15. OrdersOK'
  <2>1. Untouched(o)'
    BY <1>1, <1>6, <1>12, <1>14 DEF IInv, OrdersOK, Untouched, Ticket
  <2>2. Dated(o)'
    BY <1>1, <1>4, <1>12, <1>14 DEF IInv, OrdersOK, Dated, Pending
  <2>3. Sized(o)'
    BY <1>1, <1>4, <1>5, <1>6, <1>12 DEF Sized, Ticket
  <2>4. ASSUME NEW p \in OrderIds, p # o
        PROVE  Untouched(p)' /\ Dated(p)' /\ Sized(p)'
    <3>1. order'[p] = order[p]
      BY <1>13, <2>4
    <3> QED BY <1>14, <3>1 DEF IInv, OrdersOK, Untouched, Dated, Sized, Ticket
  <2> QED BY <2>1, <2>2, <2>3, <2>4 DEF OrdersOK
<1>16. RegistryConsistent'
  BY <1>1, <1>3, <1>6, <1>12, <1>13 DEF Unregister, IInv, RegistryConsistent
<1>17. Progress'
  <2>1. \A p \in ordersToProcess : p \in OrderIds /\ p # o /\ Pending(p)
    BY <1>0 DEF IInv, VariablesOK, Progress
  <2>2. \A p \in ordersToProcess' : Pending(p)' /\ p # current'
    BY <1>0, <1>13, <1>14, <2>1 DEF Pending
  <2>3. current' \in OrderIds /\ order'[current'].state \notin {"INITIAL", "SUBMITTED"}
    BY <1>0, <1>1, <1>6, <1>12, <1>14
  <2> QED BY <1>14, <2>2, <2>3 DEF Progress
<1> QED BY <1>11, <1>15, <1>16, <1>17 DEF IInv

-----------------------------------------------------------------------------
(* Every step keeps the invariant.                                         *)
LEMMA StepIInv == IInv /\ [Next]_vars => IInv'
<1> SUFFICES ASSUME IInv, [Next]_vars PROVE IInv'
  OBVIOUS
<1>1. CASE Strategy
  BY <1>1, SubmitOrderIInv, CancelOrderIInv DEF Strategy
<1>2. CASE \E bs \in [Instruments -> Bars \cup {NoBar}] : NewBars(bs)
  BY <1>2, NewBarsIInv
<1>3. CASE OnBars
  BY <1>3, SkipOrderIInv, AcceptOrderIInv, ResumeOrderIInv, MoveOnIInv, ExpireIInv, FillOrderIInv,
     LeaveOrderIInv DEF OnBars
<1>4. CASE UNCHANGED vars
  BY <1>4 DEF vars, IInv, VariablesOK, OrdersOK, Untouched, Dated, Sized, RegistryConsistent, Progress,
     Pending, BarOf, InstrumentOf, Ticket
<1> QED BY <1>1, <1>2, <1>3, <1>4 DEF Next

(* The inductive invariant holds in every reachable state.                 *)
THEOREM Invariance == Spec => []IInv
BY InitIInv, StepIInv, PTL DEF Spec

(* The broker's variables always hold values of their kind; in particular  *)
(* neither the volume left in a bar nor what remains to be filled of an    *)
(* order ever goes below zero.                                             *)
THEOREM TypeCorrect == Spec => []TypeOK
<1>1. IInv => TypeOK
  <2> SUFFICES ASSUME IInv, NEW o \in OrderIds, order[o].state # "INITIAL"
               PROVE  Remaining(o) \in Nat
    BY DEF IInv, TypeOK
  <2>1. order[o].state \in Lifecycle!States /\ order[o].filled \in Nat /\ Sized(o)
    BY DEF IInv, VariablesOK, OrderRecords, OrdersOK
  <2>2. Ticket(o).quantity \in Nat \ {0}
    BY TicketType DEF IInv, OrdersOK
  <2>3. order[o].filled \in 0 .. Ticket(o).quantity
    BY <2>1, <2>2 DEF Sized, Lifecycle!States
  <2> QED BY <2>2, <2>3 DEF Remaining
<1> QED BY <1>1, Invariance, PTL

(* getActiveOrders and the states of the orders always agree, in the       *)
(* middle of onBars too.                                                   *)
THEOREM RegistryCorrect == Spec => []RegistryConsistent
BY Invariance, PTL DEF IInv

(* No order is accepted or executed by a bar the strategy had seen when it *)
(* submitted the order.                                                    *)
THEOREM NoLookAheadCorrect == Spec => []NoLookAhead
<1>1. IInv => NoLookAhead
  BY DEF IInv, OrdersOK, Dated, NoLookAhead
<1> QED BY <1>1, Invariance, PTL

(* An all-or-none order is never left partially filled.                    *)
THEOREM AllOrNoneCorrect == Spec => []AllOrNoneAtomic
<1>1. IInv => AllOrNoneAtomic
  <2> SUFFICES ASSUME IInv, NEW o \in OrderIds, order[o].state # "INITIAL", Ticket(o).allOrNone
               PROVE  order[o].filled \in {0, Ticket(o).quantity}
    BY DEF AllOrNoneAtomic
  <2>1. order[o].state \in Lifecycle!States /\ Sized(o)
    BY DEF IInv, VariablesOK, OrderRecords, OrdersOK
  <2> QED BY <2>1 DEF Sized, Lifecycle!States
<1> QED BY <1>1, Invariance, PTL

(* The assertion of __onBarsImpl never fails.                              *)
THEOREM UnprocessedCorrect == Spec => []UnprocessedNotFilled
<1>1. IInv => UnprocessedNotFilled
  BY DEF IInv, Progress, Pending, UnprocessedNotFilled
<1> QED BY <1>1, Invariance, PTL

-----------------------------------------------------------------------------
(* What a step may do to the executions of an order *)

(* Only FillOrder changes what was executed of an order, and of the        *)
(* current one only.                                                       *)
LEMMA Frame ==
  ASSUME IInv, [Next]_vars
  PROVE  /\ UNCHANGED <<clock, bars>> \/ clock' = clock + 1
         /\ \A o \in OrderIds :
              \/ FillOrder /\ o = current
              \/ /\ order'[o].filled = order[o].filled
                 /\ order'[o].execution = order[o].execution
                 /\ order'[o].commissions = order[o].commissions
                 /\ order'[o].fillValue = order[o].fillValue
                 /\ order[o].filled # 0 =>
                      order'[o].ticket = order[o].ticket /\ order'[o].accepted = order[o].accepted
<1> USE DEF IInv, VariablesOK
<1> DEFINE Kept(o) ==
             /\ order'[o].filled = order[o].filled
             /\ order'[o].execution = order[o].execution
             /\ order'[o].commissions = order[o].commissions
             /\ order'[o].fillValue = order[o].fillValue
             /\ order[o].filled # 0 =>
                  order'[o].ticket = order[o].ticket /\ order'[o].accepted = order[o].accepted
           SameBar == UNCHANGED <<clock, bars>>
<1>1. CASE Strategy
  <2>1. SameBar
    BY <1>1 DEF Strategy, SubmitOrder, CancelOrder, feed
  <2>2. ASSUME NEW t \in Tickets, SubmitOrder(t), NEW o \in OrderIds
        PROVE  Kept(o)
    <3>1. CASE o = nextOrderId
      <4>1. order[o] = NewOrder
        BY <3>1 DEF OrdersOK, Untouched
      <4>2. order'[o] = [NewOrder EXCEPT !.state = "SUBMITTED", !.ticket = t, !.submitted = clock]
        BY <2>2, <3>1 DEF SubmitOrder
      <4> QED BY <4>1, <4>2 DEF NewOrder
    <3>2. CASE o # nextOrderId
      BY <2>2, <3>2 DEF SubmitOrder
    <3> QED BY <3>1, <3>2
  <2>3. ASSUME NEW p \in OrderIds, CancelOrder(p), NEW o \in OrderIds
        PROVE  Kept(o)
    BY <2>3 DEF CancelOrder, CancelActive
  <2> QED BY <1>1, <2>1, <2>2, <2>3 DEF Strategy
<1>2. CASE \E bs \in [Instruments -> Bars \cup {NoBar}] : NewBars(bs)
  BY <1>2 DEF NewBars
<1>3. CASE OnBars
  <2>1. SameBar
    BY <1>3 DEF OnBars, SkipOrder, AcceptOrder, ResumeOrder, SkipInactive, ExpireBeforeFill, FillOrder,
         LeaveOrder, ExpireAfterBar, KeepOrder, HandlersReturn, LoopEnds, feed
  <2>2. CASE UNCHANGED order
    BY <2>1, <2>2
  <2>3. ASSUME NEW p \in OrderIds, AcceptOrder(p), NEW o \in OrderIds
        PROVE  Kept(o)
    <3>1. order[p].filled = 0
      BY <2>3 DEF AcceptOrder, OrdersOK, Sized
    <3> QED BY <2>3, <3>1 DEF AcceptOrder
  <2>4. ASSUME ExpireBeforeFill \/ ExpireAfterBar, NEW o \in OrderIds
        PROVE  Kept(o)
    <3>1. order' = [order EXCEPT ![current].state = "CANCELED"]
      BY <2>4 DEF ExpireBeforeFill, ExpireAfterBar, CancelActive
    <3> QED BY <3>1
  <2>5. ASSUME LeaveOrder, NEW o \in OrderIds
        PROVE  Kept(o)
    BY <2>5 DEF LeaveOrder
  <2>6. ASSUME FillOrder, NEW o \in OrderIds, o # current
        PROVE  Kept(o)
    BY <2>6 DEF FillOrder, CommitExecution
  <2> QED BY <1>3, <2>1, <2>2, <2>3, <2>4, <2>5, <2>6
       DEF OnBars, SkipOrder, ResumeOrder, SkipInactive, KeepOrder, HandlersReturn, LoopEnds
<1>4. CASE UNCHANGED vars
  BY <1>4 DEF vars
<1> QED BY <1>1, <1>2, <1>3, <1>4 DEF Next

(* A bar executes an order at most once, and only while it is active.      *)
THEOREM FilledOncePerBarCorrect == Spec => FilledOncePerBar
<1>1. IInv /\ [Next]_vars => FillsPendingOrder
  <2> SUFFICES ASSUME IInv, [Next]_vars, NEW o \in OrderIds, order'[o].filled # order[o].filled
               PROVE  /\ order[o].state \in {"ACCEPTED", "PARTIALLY_FILLED"}
                      /\ order[o].execution.time < clock
    BY DEF FillsPendingOrder
  <2>1. FillOrder /\ o = current
    BY Frame
  <2> QED BY <2>1, FillFacts DEF Pending
<1> QED BY <1>1, Invariance, PTL DEF Spec, FilledOncePerBar

(* The record that an execution leaves in the order.                       *)
LEMMA Execution ==
  ASSUME IInv, FillOrder
  PROVE  LET n   == Size(current)
             fee == CommissionFor(current, PriceOf(current), n) IN
         /\ order'[current].execution =
              [price |-> PriceOf(current), quantity |-> n, commission |-> fee, time |-> clock]
         /\ order'[current].filled = order[current].filled + n
         /\ order'[current].commissions = order[current].commissions + fee
         /\ order'[current].fillValue = order[current].fillValue + PriceOf(current) * n
         /\ order'[current].ticket = order[current].ticket
         /\ order'[current].accepted = order[current].accepted
         /\ UNCHANGED <<clock, bars>>
<1> DEFINE n     == Size(current)
           price == PriceOf(current)
           fee   == CommissionFor(current, price, n)
           rec   == AddExecutionInfo(current, n, price, fee)
           next  == StateAfterFill(Remaining(current), n)
           hit   == StopHitAfter(Ticket(current), order[current].stopHit, BarOf(current))
           exec  == [price |-> price, quantity |-> n, commission |-> fee, time |-> clock]
<1>1. order' = [order EXCEPT ![current] = rec] /\ UNCHANGED <<clock, bars>>
  BY DEF FillOrder, CommitExecution, feed
<1>2. rec = [order[current] EXCEPT
               !.state = next, !.filled = @ + n, !.fillValue = @ + price * n,
               !.commissions = @ + fee, !.stopHit = hit, !.execution = exec]
  BY DEF AddExecutionInfo
<1>3. current \in OrderIds
  BY FillFacts
<1> HIDE DEF n, price, fee, rec, next, hit, exec
<1>4. order'[current] = rec /\ order[current] \in OrderRecords
  BY <1>1, <1>3 DEF IInv, VariablesOK
<1>5. /\ order'[current].execution = exec
      /\ order'[current].filled = order[current].filled + n
      /\ order'[current].commissions = order[current].commissions + fee
      /\ order'[current].fillValue = order[current].fillValue + price * n
      /\ order'[current].ticket = order[current].ticket
      /\ order'[current].accepted = order[current].accepted
  BY <1>2, <1>4 DEF OrderRecords
<1> QED BY <1>1, <1>5 DEF exec, fee, price, n

(* Every execution takes place at a price of its bar that honours the      *)
(* order's limit.                                                          *)
THEOREM FillsHonourCorrect == Spec => []FillsHonourBarAndLimit
<1>1. Init => FillsHonourBarAndLimit
  BY DEF Init, NewOrder, FillsHonourBarAndLimit
<1>2. IInv /\ FillsHonourBarAndLimit /\ [Next]_vars => FillsHonourBarAndLimit'
  <2> SUFFICES ASSUME IInv, FillsHonourBarAndLimit, [Next]_vars, NEW o \in OrderIds,
                      order'[o].execution # NoExecution, order'[o].execution.time = clock'
               PROVE  BarOf(o)' # NoBar /\ PriceHonours(Ticket(o)', BarOf(o)', order'[o].execution.price)
    BY DEF FillsHonourBarAndLimit
  <2>1. CASE FillOrder /\ o = current
    <3>1. BarOf(o)' = BarOf(o) /\ Ticket(o)' = Ticket(o) /\ order'[o].execution.price = PriceOf(o)
      BY <2>1, Execution DEF BarOf, InstrumentOf, Ticket
    <3> QED BY <2>1, <3>1, FillFacts
  <2>2. CASE ~(FillOrder /\ o = current)
    <3>1. order'[o].execution = order[o].execution
          /\ (order[o].filled # 0 => order'[o].ticket = order[o].ticket)
      BY <2>2, Frame
    <3>2. order'[o].ticket = order[o].ticket
      BY <3>1 DEF IInv, OrdersOK, Sized
    <3>3. order[o].execution.time <= clock /\ order[o].execution.time \in Nat /\ clock \in Nat
      BY OrderTypes, ConstantsAssumption DEF IInv, OrdersOK, Dated, VariablesOK
    <3>4. UNCHANGED <<clock, bars>>
      BY <3>1, <3>3, Frame
    <3>5. BarOf(o)' = BarOf(o) /\ Ticket(o)' = Ticket(o)
      BY <3>2, <3>4 DEF BarOf, InstrumentOf, Ticket
    <3> QED BY <3>1, <3>4, <3>5 DEF FillsHonourBarAndLimit
  <2> QED BY <2>1, <2>2
<1> QED BY <1>1, <1>2, Invariance, PTL DEF Spec

(* A fixed commission is charged once for each order that is executed.     *)
THEOREM FixedCommissionCorrect == Spec => []FixedCommissionOnce
<1>1. Init => FixedCommissionOnce
  BY DEF Init, NewOrder, FixedCommissionOnce
<1>2. IInv /\ FixedCommissionOnce /\ [Next]_vars => FixedCommissionOnce'
  <2> SUFFICES ASSUME IInv, FixedCommissionOnce, [Next]_vars, NEW o \in OrderIds,
                      CommissionModel = "FixedPerTrade"
               PROVE  order'[o].commissions = IF order'[o].filled > 0 THEN CommissionAmount ELSE 0
    BY DEF FixedCommissionOnce
  <2>1. order[o].commissions = IF order[o].filled > 0 THEN CommissionAmount ELSE 0
    BY DEF FixedCommissionOnce
  <2>2. CASE FillOrder /\ o = current
    <3> DEFINE fee == CommissionFor(o, PriceOf(o), Size(o))
    <3>1. fee = IF order[o].execution = NoExecution THEN CommissionAmount ELSE 0
      BY Zenon DEF CommissionFor
    <3>2. order'[o].commissions = order[o].commissions + fee
          /\ order'[o].filled = order[o].filled + Size(o)
      BY <2>2, Execution
    <3>3. Size(o) > 0 /\ Size(o) \in Nat
      <4>1. Size(o) \in 1 .. Remaining(o)
        BY <2>2, FillFacts
      <4> QED BY <4>1
    <3>4. order[o].execution = NoExecution <=> order[o].filled = 0
      BY DEF IInv, OrdersOK, Sized
    <3> HIDE DEF fee
    <3> QED BY <2>1, <3>1, <3>2, <3>3, <3>4, OrderTypes, ConstantsAssumption DEF IInv
  <2>3. CASE ~(FillOrder /\ o = current)
    BY <2>1, <2>3, Frame
  <2> QED BY <2>2, <2>3
<1> QED BY <1>1, <1>2, Invariance, PTL DEF Spec

(* Commissions included, no step leaves less than no cash.                 *)
LEMMA StepCash == CashNeverNegative /\ [Next]_vars => CashNeverNegative'
<1> SUFFICES ASSUME CashNeverNegative, [Next]_vars PROVE CashNeverNegative'
  OBVIOUS
<1>1. CASE FillOrder
  BY <1>1 DEF FillOrder, CommitExecution, EnoughCash, CashNeverNegative
<1>2. CASE UNCHANGED cash
  BY <1>2 DEF CashNeverNegative
<1> QED BY <1>1, <1>2 DEF Next, Strategy, OnBars, SubmitOrder, CancelOrder, NewBars, SkipOrder, AcceptOrder,
     ResumeOrder, SkipInactive, ExpireBeforeFill, LeaveOrder, ExpireAfterBar, KeepOrder, HandlersReturn,
     LoopEnds, account, vars

(* Commissions included, no execution leaves less than no cash.            *)
THEOREM CashCorrect == Spec => []CashNeverNegative
<1>1. Init => CashNeverNegative
  BY ConstantsAssumption DEF Init, CashNeverNegative
<1> QED BY <1>1, StepCash, PTL DEF Spec

-----------------------------------------------------------------------------
(* Sessions *)

(* Later bars belong to the same session or to a later one.                *)
LEMMA DayMonotone ==
  ASSUME NEW a \in Nat, NEW b \in Nat, a <= b
  PROVE  Day(a) \in Nat /\ Day(b) \in Nat /\ Day(a) <= Day(b)
<1> DEFINE d == BarsPerDay
<1>1. d \in Nat \ {0}
  BY ConstantsAssumption
<1> HIDE DEF d
<1>2. /\ a \div d \in Nat /\ b \div d \in Nat /\ a \div d <= b \div d
  BY <1>1
<1> QED BY <1>2 DEF Day, d

(* An order that is not good till canceled is executed in the session that *)
(* accepted it or not at all.                                              *)
THEOREM SessionCorrect == Spec => []ExecutedInSession
<1>1. Init => ExecutedInSession
  BY DEF Init, NewOrder, ExecutedInSession
<1>2. IInv /\ ExecutedInSession /\ [Next]_vars => ExecutedInSession'
  <2> SUFFICES ASSUME IInv, ExecutedInSession, [Next]_vars, NEW o \in OrderIds,
                      order'[o].execution # NoExecution, ~order'[o].ticket.goodTillCanceled
               PROVE  Day(order'[o].execution.time) = Day(order'[o].accepted)
    BY DEF ExecutedInSession, Ticket, Day
  <2>1. CASE FillOrder /\ o = current
    <3>1. order'[o].execution.time = clock /\ order'[o].accepted = order[o].accepted
          /\ ~Ticket(o).goodTillCanceled
      BY <2>1, Execution DEF Ticket
    <3>2. ~(Day(clock) > Day(order[o].accepted))
      BY <2>1, <3>1 DEF FillOrder, HasExpired
    <3>3. order[o].accepted <= clock /\ order[o].accepted \in Nat /\ clock \in Nat
      BY OrderTypes, ConstantsAssumption DEF IInv, OrdersOK, Dated, VariablesOK
    <3>4. Day(order[o].accepted) = Day(clock)
      BY <3>2, <3>3, DayMonotone
    <3> QED BY <3>1, <3>4
  <2>2. CASE ~(FillOrder /\ o = current)
    <3>1. order'[o].execution = order[o].execution
          /\ (order[o].filled # 0 =>
                order'[o].ticket = order[o].ticket /\ order'[o].accepted = order[o].accepted)
      BY <2>2, Frame
    <3>2. order'[o].ticket = order[o].ticket /\ order'[o].accepted = order[o].accepted
      BY <3>1 DEF IInv, OrdersOK, Sized
    <3> QED BY <3>1, <3>2 DEF ExecutedInSession, Ticket
  <2> QED BY <2>1, <2>2
<1> QED BY <1>1, <1>2, Invariance, PTL DEF Spec

(* With daily bars the only accepted order that may still expire is the    *)
(* one onBars is working on.                                               *)
DayInv ==
  Frequency = "DAY" =>
    \A o \in activeOrders :
      Ticket(o).goodTillCanceled \/ order[o].state = "SUBMITTED" \/ o = current

(* With daily bars the strategy never sees an order that outlives its      *)
(* session.                                                                *)
THEOREM DayOrdersCorrect == Spec => []DayOrdersEndWithBar
<1>1. Init => DayInv
  BY DEF Init, DayInv
<1>2. IInv /\ IInv' /\ DayInv /\ [Next]_vars => DayInv'
  <2> SUFFICES ASSUME IInv, IInv', DayInv, [Next]_vars, Frequency = "DAY", NEW o \in activeOrders',
                      order'[o].state # "SUBMITTED", o # current', ~Ticket(o)'.goodTillCanceled
               PROVE  FALSE
    BY DEF DayInv
  <2>1. o \in OrderIds /\ order'[o].state \notin {"INITIAL", "FILLED", "CANCELED"}
    BY DEF IInv, RegistryConsistent
  <2>2. CASE Strategy
    <3>1. CASE \E t \in Tickets : SubmitOrder(t)
      <4>1. PICK t \in Tickets : SubmitOrder(t)
        BY <3>1
      <4>2. o # nextOrderId
        BY <2>1, <4>1 DEF SubmitOrder, IInv, VariablesOK
      <4>3. order'[o] = order[o] /\ o \in activeOrders /\ current' = current
        BY <2>1, <4>1, <4>2 DEF SubmitOrder
      <4> QED BY <4>3 DEF DayInv, Ticket
    <3>2. CASE \E p \in OrderIds : CancelOrder(p)
      <4>1. PICK p \in OrderIds : CancelOrder(p)
        BY <3>2
      <4>2. order'[o] = order[o] /\ o \in activeOrders /\ current' = current
        BY <2>1, <4>1 DEF CancelOrder, CancelActive, Unregister
      <4> QED BY <4>2 DEF DayInv, Ticket
    <3> QED BY <2>2, <3>1, <3>2 DEF Strategy
  <2>3. ASSUME UNCHANGED <<order, activeOrders>>, current' = current \/ current = 0
        PROVE  FALSE
    <3>1. o # current
      BY <2>1, <2>3
    <3> QED BY <2>3, <3>1 DEF DayInv, Ticket
  <2>4. CASE \E bs \in [Instruments -> Bars \cup {NoBar}] : NewBars(bs)
    BY <2>3, <2>4 DEF NewBars
  <2>5. ASSUME NEW p \in OrderIds, SkipOrder(p) \/ AcceptOrder(p) \/ ResumeOrder(p)
        PROVE  FALSE
    <3>1. current = 0
      BY <2>5, TakeOrderFacts DEF SkipOrder, AcceptOrder, ResumeOrder
    <3>2. CASE AcceptOrder(p)
      <4>1. o # p /\ o \in activeOrders
        BY <3>2 DEF AcceptOrder
      <4>2. order'[o] = order[o]
        BY <2>1, <3>2, <4>1 DEF AcceptOrder, IInv, VariablesOK
      <4> QED BY <2>1, <3>1, <4>1, <4>2 DEF DayInv, Ticket
    <3> QED BY <2>3, <2>5, <3>1, <3>2 DEF SkipOrder, ResumeOrder
  <2>6. CASE SkipInactive \/ (HandlersReturn /\ stage = "onExpired")
    <3>1. ~IsActive(current) /\ UNCHANGED <<order, activeOrders>>
      BY <2>6 DEF SkipInactive, HandlersReturn, IInv, Progress, IsActive
    <3>2. o # current
      BY <2>1, <3>1 DEF IsActive
    <3> QED BY <3>1, <3>2 DEF DayInv, Ticket
  <2>7. CASE KeepOrder
    <3>1. UNCHANGED <<order, activeOrders>>
      BY <2>7 DEF KeepOrder
    <3>2. o = current
      BY <3>1 DEF DayInv, Ticket
    <3>3. order[o].accepted <= clock /\ order[o].accepted \in Nat /\ clock \in Nat
      BY <2>1, OrderTypes, ConstantsAssumption DEF IInv, OrdersOK, Dated, VariablesOK
    <3>4. Day(clock) >= Day(order[o].accepted)
      BY <3>3, DayMonotone
    <3>5. IsActive(o) /\ ~Ticket(o).goodTillCanceled
      BY <2>1, <3>1 DEF IsActive, Ticket
    <3> QED BY <2>7, <3>2, <3>4, <3>5 DEF KeepOrder, ExpiresWithBar, IsIntraday
  <2>8. CASE ExpireBeforeFill \/ ExpireAfterBar
    <3>1. order' = [order EXCEPT ![current].state = "CANCELED"] /\ current' = current
          /\ o \in activeOrders /\ o # current
      BY <2>8 DEF ExpireBeforeFill, ExpireAfterBar, CancelActive, Unregister
    <3>2. order'[o] = order[o]
      BY <2>1, <3>1
    <3> QED BY <3>1, <3>2 DEF DayInv, Ticket
  <2>9. CASE FillOrder \/ LeaveOrder
    <3>1. PICK rec : order' = [order EXCEPT ![current] = rec]
      BY <2>9 DEF FillOrder, LeaveOrder, CommitExecution
    <3>2. current' = current /\ o \in activeOrders
      BY <2>9 DEF FillOrder, LeaveOrder, CommitExecution, Unregister
    <3>3. order'[o] = order[o]
      BY <2>1, <3>1, <3>2
    <3> QED BY <3>2, <3>3 DEF DayInv, Ticket
  <2>10. CASE HandlersReturn /\ stage # "onExpired"
    BY <2>3, <2>10 DEF HandlersReturn
  <2>11. CASE LoopEnds
    BY <2>3, <2>11 DEF LoopEnds
  <2>12. CASE UNCHANGED vars
    BY <2>3, <2>12 DEF vars
  <2> QED BY <2>2, <2>4, <2>5, <2>6, <2>7, <2>8, <2>9, <2>10, <2>11, <2>12 DEF Next, OnBars
<1>3. IInv /\ DayInv => DayOrdersEndWithBar
  BY DEF IInv, VariablesOK, Progress, DayInv, DayOrdersEndWithBar
<1> QED BY <1>1, <1>2, <1>3, Invariance, PTL DEF Spec

-----------------------------------------------------------------------------
(* The refinement of the state chart that every broker promises *)

(* The state chart allows the changes of state that this broker makes.     *)
LEMMA Transitions ==
  /\ "SUBMITTED" \in Lifecycle!ValidTransitions["INITIAL"]
  /\ "ACCEPTED" \in Lifecycle!ValidTransitions["SUBMITTED"]
  /\ \A s \in {"SUBMITTED", "ACCEPTED", "PARTIALLY_FILLED"} : "CANCELED" \in Lifecycle!ValidTransitions[s]
  /\ \A s \in {"ACCEPTED", "PARTIALLY_FILLED"} :
       {"PARTIALLY_FILLED", "FILLED"} \subseteq Lifecycle!ValidTransitions[s]
<1> USE DEF Lifecycle!ValidTransitions, Lifecycle!States
<1>1. Lifecycle!ValidTransitions["INITIAL"] = {"SUBMITTED", "CANCELED"}
  BY Zenon
<1>2. Lifecycle!ValidTransitions["SUBMITTED"] = {"ACCEPTED", "CANCELED"}
  BY Zenon
<1>3. Lifecycle!ValidTransitions["ACCEPTED"] = {"PARTIALLY_FILLED", "FILLED", "CANCELED"}
  BY Zenon
<1>4. Lifecycle!ValidTransitions["PARTIALLY_FILLED"] = {"PARTIALLY_FILLED", "FILLED", "CANCELED"}
  BY Zenon
<1> HIDE DEF Lifecycle!ValidTransitions
<1> QED BY <1>1, <1>2, <1>3, <1>4

(* What the state chart sees of a step that changes one order at most.     *)
LEMMA Abstracted ==
  ASSUME VariablesOK, NEW o \in OrderIds, NEW s, NEW n, s # "INITIAL", order[o].state # "INITIAL",
         order'[o].state = s, order'[o].filled = n, order'[o].ticket = order[o].ticket,
         \A p \in OrderIds : p # o => order'[p] = order[p]
  PROVE  /\ [p \in OrderIds |-> order'[p].state] =
              [[p \in OrderIds |-> order[p].state] EXCEPT ![o] = s]
         /\ [p \in OrderIds |-> order'[p].filled] =
              [[p \in OrderIds |-> order[p].filled] EXCEPT ![o] = n]
         /\ [p \in OrderIds |-> IF order'[p].state = "INITIAL" THEN 0 ELSE order'[p].ticket.quantity] =
              [p \in OrderIds |-> IF order[p].state = "INITIAL" THEN 0 ELSE order[p].ticket.quantity]
OBVIOUS

(* Every behaviour of this broker is one of the state chart that every     *)
(* broker promises.                                                        *)
THEOREM LifecycleRefinement == Spec => ImplementsLifecycle
<1>1. Init => Lifecycle!Init
  BY DEF Init, Lifecycle!Init, NewOrder
<1>2. IInv /\ [Next]_vars => [Lifecycle!Next]_Lifecycle!vars
  <2> SUFFICES ASSUME IInv, [Next]_vars PROVE [Lifecycle!Next]_Lifecycle!vars
    OBVIOUS
  <2> USE DEF Lifecycle!Next, Lifecycle!SwitchState
  <2>1. ASSUME NEW t \in Tickets, SubmitOrder(t)
        PROVE  \E o \in OrderIds : Lifecycle!Submit(o)
    <3>1. PICK o \in OrderIds : o = nextOrderId
      BY <2>1, ConstantsAssumption DEF IInv, SubmitOrder, VariablesOK
    <3> DEFINE new == [NewOrder EXCEPT !.state = "SUBMITTED", !.ticket = t, !.submitted = clock]
    <3>2. order[o].state = "INITIAL" /\ order[o] = NewOrder
      BY <3>1 DEF IInv, OrdersOK, Untouched, VariablesOK
    <3>3. order'[o] = new /\ \A p \in OrderIds : p # o => order'[p] = order[p]
      BY <2>1, <3>1 DEF SubmitOrder, IInv, VariablesOK
    <3>4. order'[o].state = "SUBMITTED" /\ order'[o].ticket = t /\ order'[o].filled = 0 /\ order[o].filled = 0
      BY <3>2, <3>3 DEF NewOrder
    <3> HIDE DEF new
    <3>5. [p \in OrderIds |-> order'[p].state] =
            [[p \in OrderIds |-> order[p].state] EXCEPT ![o] = "SUBMITTED"]
      BY <3>3, <3>4
    <3>6. [p \in OrderIds |-> order'[p].filled] = [p \in OrderIds |-> order[p].filled]
      BY <3>3, <3>4
    <3>7. [p \in OrderIds |-> IF order'[p].state = "INITIAL" THEN 0 ELSE order'[p].ticket.quantity] =
            [[p \in OrderIds |-> IF order[p].state = "INITIAL" THEN 0 ELSE order[p].ticket.quantity]
               EXCEPT ![o] = t.quantity]
      BY <3>3, <3>4
    <3>8. Lifecycle!Submit(o)
      BY <3>2, <3>5, <3>6, <3>7, Transitions DEF Lifecycle!Submit
    <3> QED BY <3>8
  <2>2. ASSUME NEW o \in activeOrders, CancelActive(o)
        PROVE  \E p \in OrderIds : Lifecycle!Cancel(p)
    <3>1. o \in OrderIds /\ order[o].state \in {"SUBMITTED", "ACCEPTED", "PARTIALLY_FILLED"}
      BY DEF IInv, RegistryConsistent
    <3>2. /\ order'[o].state = "CANCELED" /\ order'[o].filled = order[o].filled
          /\ order'[o].ticket = order[o].ticket
          /\ \A p \in OrderIds : p # o => order'[p] = order[p]
      BY <2>2, <3>1 DEF CancelActive, IInv, VariablesOK, OrderRecords
    <3>3. Lifecycle!Cancel(o)
      BY <3>1, <3>2, Transitions, Abstracted DEF Lifecycle!Cancel, IInv
    <3> QED BY <3>1, <3>3
  <2>3. ASSUME NEW o \in OrderIds, AcceptOrder(o)
        PROVE  Lifecycle!Accept(o)
    <3>1. order[o].state = "SUBMITTED"
      BY <2>3 DEF AcceptOrder
    <3>2. /\ order'[o].state = "ACCEPTED" /\ order'[o].filled = order[o].filled
          /\ order'[o].ticket = order[o].ticket
          /\ \A p \in OrderIds : p # o => order'[p] = order[p]
      BY <2>3 DEF AcceptOrder, IInv, VariablesOK, OrderRecords
    <3> QED BY <3>1, <3>2, Transitions, Abstracted DEF Lifecycle!Accept, IInv
  <2>4. ASSUME FillOrder
        PROVE  \E o \in OrderIds : Lifecycle!Execute(o)
    <3>1. PICK o \in OrderIds : o = current
      BY <2>4, FillFacts
    <3> DEFINE n     == Size(o)
               price == PriceOf(o)
               rec   == AddExecutionInfo(o, n, price, CommissionFor(o, price, n))
               next  == StateAfterFill(Remaining(o), n)
    <3>2. /\ order[o].state \in {"ACCEPTED", "PARTIALLY_FILLED"} /\ n \in 1 .. Remaining(o)
          /\ Remaining(o) = order[o].ticket.quantity - order[o].filled
      BY <2>4, <3>1, FillFacts DEF Ticket
    <3>3. next = IF n = Remaining(o) THEN "FILLED" ELSE "PARTIALLY_FILLED"
      BY DEF StateAfterFill
    <3>4. order' = [order EXCEPT ![o] = rec]
      BY <2>4, <3>1 DEF FillOrder, CommitExecution
    <3>5. rec.state = next /\ rec.ticket = order[o].ticket
      BY DEF AddExecutionInfo, IInv, VariablesOK, OrderRecords
    <3>6. order'[o].filled = order[o].filled + n
      BY <2>4, <3>1, Execution
    <3> HIDE DEF n, rec, next
    <3>7. /\ order'[o].state = next /\ order'[o].ticket = order[o].ticket
          /\ \A p \in OrderIds : p # o => order'[p] = order[p]
      BY <3>4, <3>5 DEF IInv, VariablesOK
    <3>8. next \in {"PARTIALLY_FILLED", "FILLED"}
      BY <3>3
    <3>9. [p \in OrderIds |-> order'[p].state] = [[p \in OrderIds |-> order[p].state] EXCEPT ![o] = next]
      BY <3>7
    <3>10. /\ [p \in OrderIds |-> order'[p].filled] =
               [[p \in OrderIds |-> order[p].filled] EXCEPT ![o] = order[o].filled + n]
           /\ [p \in OrderIds |-> IF order'[p].state = "INITIAL" THEN 0 ELSE order'[p].ticket.quantity] =
               [p \in OrderIds |-> IF order[p].state = "INITIAL" THEN 0 ELSE order[p].ticket.quantity]
      BY <3>2, <3>6, <3>7, <3>8, Abstracted DEF IInv
    <3>11. Lifecycle!Remaining(o) = Remaining(o)
      BY <3>2 DEF Lifecycle!Remaining
    <3>12. next \in Lifecycle!ValidTransitions[order[o].state]
      BY <3>2, <3>8, Transitions
    <3>13. Lifecycle!Execute(o)
      BY <3>2, <3>3, <3>9, <3>10, <3>11, <3>12 DEF Lifecycle!Execute
    <3> QED BY <3>13
  <2>5. ASSUME LeaveOrder \/ UNCHANGED order
        PROVE  UNCHANGED Lifecycle!vars
    <3>1. \A o \in OrderIds : /\ order'[o].state = order[o].state /\ order'[o].filled = order[o].filled
                             /\ order'[o].ticket = order[o].ticket
      <4>1. CASE UNCHANGED order
        BY <4>1
      <4>2. CASE LeaveOrder
        <5>1. PICK h : order' = [order EXCEPT ![current].stopHit = h]
          BY <4>2 DEF LeaveOrder
        <5>2. order \in [OrderIds -> OrderRecords]
          BY DEF IInv, VariablesOK
        <5> QED BY <5>1, <5>2 DEF OrderRecords
      <4> QED BY <2>5, <4>1, <4>2
    <3> QED BY <3>1 DEF Lifecycle!vars
  <2>6. CASE Strategy
    BY <2>1, <2>2, <2>6 DEF Strategy, CancelOrder
  <2>7. CASE \E bs \in [Instruments -> Bars \cup {NoBar}] : NewBars(bs)
    BY <2>5, <2>7 DEF NewBars
  <2>8. CASE OnBars
    <3>1. CASE ExpireBeforeFill \/ ExpireAfterBar
      <4>1. current \in OrderIds /\ IsActive(current) /\ CancelActive(current)
            /\ order[current].state \notin {"INITIAL", "SUBMITTED"}
        BY <3>1 DEF ExpireBeforeFill, ExpireAfterBar, IInv, Progress, Pending
      <4>2. current \in activeOrders
        BY <4>1 DEF IInv, VariablesOK, OrderRecords, Lifecycle!States, IsActive, RegistryConsistent
      <4> QED BY <2>2, <4>1, <4>2
    <3> QED BY <2>3, <2>4, <2>5, <2>8, <3>1
         DEF OnBars, SkipOrder, ResumeOrder, SkipInactive, KeepOrder, HandlersReturn, LoopEnds
  <2>9. CASE UNCHANGED vars
    BY <2>5, <2>9 DEF vars
  <2> QED BY <2>6, <2>7, <2>8, <2>9 DEF Next
<1> QED BY <1>1, <1>2, Invariance, PTL DEF Spec, ImplementsLifecycle, Lifecycle!Spec

-----------------------------------------------------------------------------
(* The account agrees with the orders.  An execution changes one order,    *)
(* one summand of each sum; any other step leaves the summands alone,      *)
(* because an order that was not executed adds nothing whatever its ticket *)
(* becomes.                                                                *)

(* What was not executed has moved no cash.                                *)
NothingMoved ==
  \A o \in OrderIds :
    order[o].filled = 0 => order[o].fillValue = 0 /\ order[o].commissions = 0

(* What is left of the bar's volume is what the orders did not take.       *)
VolumeShared ==
  VolumeLimit # 0 =>
    \A i \in Instruments :
      bars[i] # NoBar =>
        SumFunctionOnSet(ExecutedNow(i), OrderIds) + volumeLeft[i] = UsableVolume(bars[i])

AccountInv ==
  /\ NothingMoved
  /\ SharesMatchOrders /\ CashMatchesOrders
  /\ VolumeShared

-----------------------------------------------------------------------------
(* There are finitely many orders, so that sums over them are defined.     *)
LEMMA OrdersFinite == IsFiniteSet(OrderIds)
BY FS_Interval, ConstantsAssumption

(* What an order contributes to the account is a number.                   *)
LEMMA SummandTypes ==
  ASSUME VariablesOK, OrdersOK, NEW i \in Instruments, NEW o \in OrderIds
  PROVE  SignedFilled(i)[o] \in Int /\ CashMoved[o] \in Int /\ ExecutedNow(i)[o] \in Int
<1>1. /\ order[o].filled \in Nat /\ order[o].fillValue \in Nat /\ order[o].commissions \in Nat
      /\ order[o].execution.quantity \in Nat
  BY DEF VariablesOK, OrderRecords
<1> QED BY <1>1 DEF SignedFilled, CashMoved, ExecutedNow

(* Also after a step.                                                      *)
LEMMA SummandTypesNext ==
  ASSUME IInv', NEW i \in Instruments, NEW o \in OrderIds
  PROVE  SignedFilled(i)'[o] \in Int /\ CashMoved'[o] \in Int /\ ExecutedNow(i)'[o] \in Int
<1>1. /\ order'[o].filled \in Nat /\ order'[o].fillValue \in Nat /\ order'[o].commissions \in Nat
      /\ order'[o].execution.quantity \in Nat
  BY DEF IInv, VariablesOK, OrderRecords
<1> QED BY <1>1 DEF SignedFilled, CashMoved, ExecutedNow

(* An order that has not been executed is no part of any sum.              *)
LEMMA NoSummand ==
  ASSUME VariablesOK, OrdersOK, NothingMoved, NEW i, NEW o \in OrderIds, order[o].filled = 0
  PROVE  SignedFilled(i)[o] = 0 /\ CashMoved[o] = 0 /\ ExecutedNow(i)[o] = 0
<1>1. order[o].execution = NoExecution /\ order[o].fillValue = 0 /\ order[o].commissions = 0
  BY DEF OrdersOK, Sized, NothingMoved
<1>2. order[o].execution.quantity = 0
  BY <1>1 DEF NoExecution
<1> QED BY <1>1, <1>2 DEF SignedFilled, CashMoved, ExecutedNow

(* Also after a step.                                                      *)
LEMMA NoSummandNext ==
  ASSUME IInv', NothingMoved', NEW i, NEW o \in OrderIds, order'[o].filled = 0
  PROVE  SignedFilled(i)'[o] = 0 /\ CashMoved'[o] = 0 /\ ExecutedNow(i)'[o] = 0
<1>1. order'[o].execution = NoExecution /\ order'[o].fillValue = 0 /\ order'[o].commissions = 0
  BY DEF IInv, OrdersOK, Sized, NothingMoved
<1>2. order'[o].execution.quantity = 0
  BY <1>1 DEF NoExecution
<1> QED BY <1>1, <1>2 DEF SignedFilled, CashMoved, ExecutedNow

(* A step leaves orders that were not executed without a value or a fee.   *)
LEMMA MovedNext ==
  ASSUME IInv, NothingMoved, [Next]_vars
  PROVE  NothingMoved'
<1> SUFFICES ASSUME NEW o \in OrderIds, order'[o].filled = 0
             PROVE  order'[o].fillValue = 0 /\ order'[o].commissions = 0
  BY DEF NothingMoved
<1>1. CASE FillOrder /\ o = current
  <2>1. order'[o].filled = order[o].filled + Size(o) /\ Size(o) \in 1 .. Remaining(o)
    BY <1>1, Execution, FillFacts
  <2>2. order[o].filled \in Nat
    BY OrderTypes DEF IInv
  <2>3. Size(o) \in Int /\ Size(o) >= 1
    BY <2>1
  <2> QED BY <2>1, <2>2, <2>3
<1>2. CASE ~(FillOrder /\ o = current)
  BY <1>2, Frame DEF NothingMoved
<1> QED BY <1>1, <1>2

(* A step keeps the summand of every order it does not execute.            *)
LEMMA SummandKept ==
  ASSUME IInv, IInv', NothingMoved, NothingMoved', [Next]_vars, NEW i,
         NEW o \in OrderIds, ~(FillOrder /\ o = current)
  PROVE  /\ SignedFilled(i)'[o] = SignedFilled(i)[o]
         /\ CashMoved'[o] = CashMoved[o]
         /\ clock' = clock => ExecutedNow(i)'[o] = ExecutedNow(i)[o]
         /\ clock' # clock => ExecutedNow(i)'[o] = 0
<1>1. /\ order'[o].filled = order[o].filled /\ order'[o].execution = order[o].execution
      /\ order'[o].commissions = order[o].commissions /\ order'[o].fillValue = order[o].fillValue
      /\ order[o].filled # 0 => order'[o].ticket = order[o].ticket
  BY Frame
<1>2. CASE order[o].filled = 0
  BY <1>1, <1>2, NoSummand, NoSummandNext DEF IInv
<1>3. CASE order[o].filled # 0
  <2>1. order[o].state # "INITIAL"
    BY <1>3 DEF IInv, OrdersOK, Untouched, NewOrder
  <2>2. order'[o].state # "INITIAL"
    BY <1>1, <1>3 DEF IInv, OrdersOK, Untouched, NewOrder
  <2>3. Ticket(o)' = Ticket(o) /\ InstrumentOf(o)' = InstrumentOf(o)
    BY <1>1, <1>3 DEF Ticket, InstrumentOf
  <2>4. SignedFilled(i)'[o] = SignedFilled(i)[o] /\ CashMoved'[o] = CashMoved[o]
    BY <1>1, <2>1, <2>2, <2>3 DEF SignedFilled, CashMoved, IsBuy
  <2>5. clock' = clock => ExecutedNow(i)'[o] = ExecutedNow(i)[o]
    BY <1>1, <2>1, <2>2, <2>3 DEF ExecutedNow
  <2>6. clock' # clock => order'[o].execution.time # clock'
    <3>1. order[o].execution.time \in Nat /\ order[o].execution.time <= clock
      BY OrderTypes DEF IInv, OrdersOK, Dated
    <3>2. clock \in Nat
      BY ConstantsAssumption DEF IInv, VariablesOK
    <3>3. clock' # clock => clock' = clock + 1
      BY Frame
    <3> QED BY <1>1, <3>1, <3>2, <3>3
  <2> QED BY <2>4, <2>5, <2>6 DEF ExecutedNow
<1> QED BY <1>2, <1>3

(* The sums of a step that executes no order.                              *)
LEMMA SumsKept ==
  ASSUME IInv, IInv', NothingMoved, NothingMoved', [Next]_vars, NEW i, ~FillOrder
  PROVE  /\ SumFunctionOnSet(SignedFilled(i)', OrderIds) = SumFunctionOnSet(SignedFilled(i), OrderIds)
         /\ SumFunctionOnSet(CashMoved', OrderIds) = SumFunctionOnSet(CashMoved, OrderIds)
         /\ clock' = clock =>
              SumFunctionOnSet(ExecutedNow(i)', OrderIds) = SumFunctionOnSet(ExecutedNow(i), OrderIds)
         /\ clock' # clock => SumFunctionOnSet(ExecutedNow(i)', OrderIds) = 0
<1>1. IsFiniteSet(OrderIds)
  BY OrdersFinite
<1>2. \A o \in OrderIds : SignedFilled(i)'[o] = SignedFilled(i)[o] /\ CashMoved'[o] = CashMoved[o]
  BY SummandKept
<1>3. clock' = clock => \A o \in OrderIds : ExecutedNow(i)'[o] = ExecutedNow(i)[o]
  BY SummandKept
<1>4. clock' # clock => \A o \in OrderIds : ExecutedNow(i)'[o] = 0
  BY SummandKept
<1> DEFINE f == SignedFilled(i)
           f2 == SignedFilled(i)'
           g == CashMoved
           g2 == CashMoved'
           h == ExecutedNow(i)
           h2 == ExecutedNow(i)'
<1> HIDE DEF f, f2, g, g2, h, h2
<1>5. SumFunctionOnSet(f2, OrderIds) = SumFunctionOnSet(f, OrderIds)
  BY <1>1, <1>2, SumEqual DEF f, f2
<1>6. SumFunctionOnSet(g2, OrderIds) = SumFunctionOnSet(g, OrderIds)
  BY <1>1, <1>2, SumEqual DEF g, g2
<1>7. clock' = clock => SumFunctionOnSet(h2, OrderIds) = SumFunctionOnSet(h, OrderIds)
  BY <1>1, <1>3, SumEqual DEF h, h2
<1>8. clock' # clock => SumFunctionOnSet(h2, OrderIds) = 0
  BY <1>1, <1>4, SumZero DEF h2
<1> QED BY <1>5, <1>6, <1>7, <1>8 DEF f, f2, g, g2, h, h2

(* The sums of an execution.                                               *)
LEMMA SumsExecuted ==
  ASSUME IInv, IInv', NothingMoved, NothingMoved', [Next]_vars, NEW i \in Instruments, FillOrder
  PROVE  LET c == current IN
         /\ SumFunctionOnSet(SignedFilled(i)', OrderIds) =
              SumFunctionOnSet(SignedFilled(i), OrderIds) + SignedFilled(i)'[c] - SignedFilled(i)[c]
         /\ SumFunctionOnSet(CashMoved', OrderIds) =
              SumFunctionOnSet(CashMoved, OrderIds) + CashMoved'[c] - CashMoved[c]
         /\ SumFunctionOnSet(ExecutedNow(i)', OrderIds) =
              SumFunctionOnSet(ExecutedNow(i), OrderIds) + ExecutedNow(i)'[c] - ExecutedNow(i)[c]
         /\ SumFunctionOnSet(SignedFilled(i), OrderIds) \in Int
         /\ SumFunctionOnSet(CashMoved, OrderIds) \in Int
         /\ SumFunctionOnSet(ExecutedNow(i), OrderIds) \in Int
<1>1. IsFiniteSet(OrderIds) /\ current \in OrderIds /\ clock' = clock
  BY OrdersFinite, FillFacts, Execution
<1> DEFINE f == SignedFilled(i)
           f2 == SignedFilled(i)'
           g == CashMoved
           g2 == CashMoved'
           h == ExecutedNow(i)
           h2 == ExecutedNow(i)'
<1>2. \A o \in OrderIds :
        /\ f[o] \in Int /\ g[o] \in Int /\ h[o] \in Int
        /\ f2[o] \in Int /\ g2[o] \in Int /\ h2[o] \in Int
  BY SummandTypes, SummandTypesNext DEF IInv
<1>3. \A o \in OrderIds \ {current} : f[o] = f2[o] /\ g[o] = g2[o] /\ h[o] = h2[o]
  BY <1>1, SummandKept
<1> HIDE DEF f, f2, g, g2, h, h2
<1>4. SumFunctionOnSet(f2, OrderIds) = SumFunctionOnSet(f, OrderIds) + f2[current] - f[current]
  <2>1. \A o \in OrderIds : f[o] \in Int /\ f2[o] \in Int
    BY <1>2
  <2>2. \A o \in OrderIds \ {current} : f[o] = f2[o]
    BY <1>3
  <2> QED BY ZenonT(60), <1>1, <2>1, <2>2, SumChange
<1>5. SumFunctionOnSet(g2, OrderIds) = SumFunctionOnSet(g, OrderIds) + g2[current] - g[current]
  <2>1. \A o \in OrderIds : g[o] \in Int /\ g2[o] \in Int
    BY <1>2
  <2>2. \A o \in OrderIds \ {current} : g[o] = g2[o]
    BY <1>3
  <2> QED BY ZenonT(60), <1>1, <2>1, <2>2, SumChange
<1>6. SumFunctionOnSet(h2, OrderIds) = SumFunctionOnSet(h, OrderIds) + h2[current] - h[current]
  <2>1. \A o \in OrderIds : h[o] \in Int /\ h2[o] \in Int
    BY <1>2
  <2>2. \A o \in OrderIds \ {current} : h[o] = h2[o]
    BY <1>3
  <2> QED BY ZenonT(60), <1>1, <2>1, <2>2, SumChange
<1>7. SumFunctionOnSet(f, OrderIds) \in Int
  BY <1>1, <1>2, SumType
<1>8. SumFunctionOnSet(g, OrderIds) \in Int
  BY <1>1, <1>2, SumType
<1>9. SumFunctionOnSet(h, OrderIds) \in Int
  BY <1>1, <1>2, SumType
<1> QED BY <1>4, <1>5, <1>6, <1>7, <1>8, <1>9 DEF f, f2, g, g2, h, h2

(* What an execution of n shares at a price adds to the summands of its    *)
(* order: what commitOrderExecution adds to the account.                   *)
LEMMA SummandExecuted ==
  ASSUME IInv, IInv', FillOrder, NEW i \in Instruments
  PROVE  LET c     == current
             n     == Size(c)
             price == PriceOf(c)
             on    == InstrumentOf(c) = i IN
         /\ SignedFilled(i)'[c] - SignedFilled(i)[c] = IF on THEN SharesDelta(Ticket(c), n) ELSE 0
         /\ CashMoved'[c] - CashMoved[c] =
              Proceeds(Ticket(c), price, n) - CommissionFor(c, price, n)
         /\ ExecutedNow(i)'[c] - ExecutedNow(i)[c] = IF on THEN n ELSE 0
<1>0. PICK c \in OrderIds : c = current
  BY FillFacts
<1> DEFINE n     == Size(c)
           price == PriceOf(c)
           fee   == CommissionFor(c, price, n)
<1>1. /\ c \in OrderIds /\ order[c].state # "INITIAL" /\ order[c].execution.time < clock
      /\ n \in Nat /\ price \in Nat /\ fee \in Nat
  <2>1. n \in 1 .. Remaining(c) /\ PriceOf(c) \in Price
    BY <1>0, FillFacts
  <2> QED BY <1>0, <2>1, FillFacts DEF Price, Pending
<1>2. /\ order[c].filled \in Nat /\ order[c].fillValue \in Nat /\ order[c].commissions \in Nat
      /\ order[c].execution.time \in Nat
  BY <1>1 DEF IInv, VariablesOK, OrderRecords
<1>3. /\ order'[c].execution.quantity = n /\ order'[c].execution.time = clock /\ clock' = clock
      /\ order'[c].filled = order[c].filled + n
      /\ order'[c].commissions = order[c].commissions + fee
      /\ order'[c].fillValue = order[c].fillValue + price * n
      /\ order'[c].ticket = order[c].ticket
  BY <1>0, Execution
<1>4. order'[c].state # "INITIAL"
  <2>1. order'[c].execution.time # 0
    BY <1>1, <1>2, <1>3
  <2> QED BY <2>1 DEF IInv, OrdersOK, Untouched, NewOrder, NoExecution
<1>5. clock \in Nat
  BY ConstantsAssumption DEF IInv, VariablesOK
<1>6. Ticket(c)' = Ticket(c) /\ InstrumentOf(c)' = InstrumentOf(c)
  BY <1>3 DEF Ticket, InstrumentOf
<1> DEFINE value == price * n
<1>7. value \in Nat
  BY <1>1
<1>8. price * n * 100 = value * 100
  OBVIOUS
<1> HIDE DEF n, price, fee, value
<1>9. SignedFilled(i)'[c] - SignedFilled(i)[c] =
        IF InstrumentOf(c) = i THEN SharesDelta(Ticket(c), n) ELSE 0
  BY <1>1, <1>2, <1>3, <1>4, <1>6 DEF SignedFilled, SharesDelta, IsBuy
<1>10. ExecutedNow(i)'[c] - ExecutedNow(i)[c] = IF InstrumentOf(c) = i THEN n ELSE 0
  BY <1>1, <1>2, <1>3, <1>4, <1>5, <1>6 DEF ExecutedNow
<1>11. CashMoved'[c] - CashMoved[c] = Proceeds(Ticket(c), price, n) - fee
  <2>1. order'[c].fillValue * 100 = order[c].fillValue * 100 + value * 100
    BY <1>2, <1>3, <1>7 DEF value
  <2> QED BY <1>1, <1>2, <1>3, <1>4, <1>6, <1>7, <1>8, <2>1 DEF CashMoved, Proceeds, IsBuy
<1> QED BY <1>0, <1>9, <1>10, <1>11 DEF n, price, fee

-----------------------------------------------------------------------------
(* With new bars all their usable volume is left: no order was executed by *)
(* them yet.                                                               *)
LEMMA NewBarsVolume ==
  ASSUME IInv, IInv', AccountInv, NothingMoved', NEW bs \in [Instruments -> Bars \cup {NoBar}], NewBars(bs)
  PROVE  VolumeShared'
<1> SUFFICES ASSUME NEW i \in Instruments, bs[i] # NoBar
             PROVE  SumFunctionOnSet(ExecutedNow(i)', OrderIds) + volumeLeft'[i] = UsableVolume(bs[i])
  BY DEF VolumeShared, NewBars, UsableVolume
<1>1. volumeLeft'[i] = UsableVolume(bs[i])
  BY DEF NewBars
<1>2. clock' # clock /\ ~FillOrder
  BY ConstantsAssumption DEF NewBars, FillOrder, IInv, VariablesOK
<1>3. [Next]_vars
  BY DEF Next
<1>4. SumFunctionOnSet(ExecutedNow(i)', OrderIds) = 0
  BY <1>2, <1>3, SumsKept DEF AccountInv
<1>5. volumeLeft'[i] \in Int
  BY DEF IInv, VariablesOK
<1> QED BY <1>1, <1>4, <1>5

(* An execution changes the cash, the shares and the volume left by what   *)
(* it changes in the sums over the orders.                                 *)
LEMMA FillOrderAccounts ==
  ASSUME IInv, IInv', AccountInv, NothingMoved', FillOrder
  PROVE  AccountInv'
<1>0. PICK c \in OrderIds : c = current
  BY FillFacts
<1> DEFINE n     == Size(c)
           price == PriceOf(c)
           inst  == InstrumentOf(c)
           Delta(i) == IF inst = i THEN SharesDelta(Ticket(c), n) ELSE 0
           Taken(i) == IF inst = i THEN n ELSE 0
           Moved    == Proceeds(Ticket(c), price, n) - CommissionFor(c, price, n)
<1>1. [Next]_vars /\ UNCHANGED <<clock, bars>>
  BY Execution DEF Next, OnBars
<1>2. /\ cash' = ResultingCash(c)
      /\ shares' = [shares EXCEPT ![inst] = @ + SharesDelta(Ticket(c), n)]
      /\ volumeLeft' = [volumeLeft EXCEPT ![inst] = VolumeAfterFill(@, n)]
  BY <1>0 DEF FillOrder, CommitExecution
<1>3. inst \in Instruments /\ n \in Nat /\ price \in Nat /\ CommissionFor(c, price, n) \in Nat
      /\ BarOf(c) # NoBar
  <2>1. n \in 1 .. Remaining(c) /\ price \in Price
    BY <1>0, FillFacts
  <2> QED BY <1>0, <2>1, FillFacts DEF Price
<1>4. ASSUME NEW i \in Instruments
      PROVE  /\ SumFunctionOnSet(SignedFilled(i)', OrderIds) =
                  SumFunctionOnSet(SignedFilled(i), OrderIds) + Delta(i)
             /\ SumFunctionOnSet(CashMoved', OrderIds) = SumFunctionOnSet(CashMoved, OrderIds) + Moved
             /\ SumFunctionOnSet(ExecutedNow(i)', OrderIds) =
                  SumFunctionOnSet(ExecutedNow(i), OrderIds) + Taken(i)
             /\ SumFunctionOnSet(SignedFilled(i), OrderIds) \in Int
             /\ SumFunctionOnSet(CashMoved, OrderIds) \in Int
             /\ SumFunctionOnSet(ExecutedNow(i), OrderIds) \in Int
  <2>1. /\ SignedFilled(i)[c] \in Int /\ CashMoved[c] \in Int /\ ExecutedNow(i)[c] \in Int
        /\ SignedFilled(i)'[c] \in Int /\ CashMoved'[c] \in Int /\ ExecutedNow(i)'[c] \in Int
    BY SummandTypes, SummandTypesNext DEF IInv
  <2>2. /\ SignedFilled(i)'[c] - SignedFilled(i)[c] = Delta(i)
        /\ CashMoved'[c] - CashMoved[c] = Moved
        /\ ExecutedNow(i)'[c] - ExecutedNow(i)[c] = Taken(i)
    BY <1>0, SummandExecuted
  <2>3. /\ SumFunctionOnSet(SignedFilled(i)', OrderIds) =
             SumFunctionOnSet(SignedFilled(i), OrderIds) + SignedFilled(i)'[c] - SignedFilled(i)[c]
        /\ SumFunctionOnSet(CashMoved', OrderIds) =
             SumFunctionOnSet(CashMoved, OrderIds) + CashMoved'[c] - CashMoved[c]
        /\ SumFunctionOnSet(ExecutedNow(i)', OrderIds) =
             SumFunctionOnSet(ExecutedNow(i), OrderIds) + ExecutedNow(i)'[c] - ExecutedNow(i)[c]
        /\ SumFunctionOnSet(SignedFilled(i), OrderIds) \in Int
        /\ SumFunctionOnSet(CashMoved, OrderIds) \in Int
        /\ SumFunctionOnSet(ExecutedNow(i), OrderIds) \in Int
    BY <1>0, <1>1, SumsExecuted DEF AccountInv
  <2> HIDE DEF Delta, Moved, Taken
  <2> QED BY <2>1, <2>2, <2>3
<1>5. SharesMatchOrders'
  <2> SUFFICES ASSUME NEW i \in Instruments
               PROVE  shares'[i] = InitialShares[i] + SumFunctionOnSet(SignedFilled(i)', OrderIds)
    BY DEF SharesMatchOrders
  <2>1. shares[i] = InitialShares[i] + SumFunctionOnSet(SignedFilled(i), OrderIds)
    BY DEF AccountInv, SharesMatchOrders
  <2>2. SharesDelta(Ticket(c), n) \in Int
    BY <1>3 DEF SharesDelta
  <2>3. shares \in [Instruments -> Int] /\ InitialShares[i] \in Int
    BY ConstantsAssumption DEF IInv, VariablesOK
  <2>4. Delta(i) \in Int /\ shares'[i] = shares[i] + Delta(i)
    <3> DEFINE d == SharesDelta(Ticket(c), n)
    <3>1. d \in Int /\ shares' = [shares EXCEPT ![inst] = @ + d] /\ Delta(i) = IF inst = i THEN d ELSE 0
      BY <1>2, <2>2
    <3> HIDE DEF d, inst, Delta
    <3> QED BY <1>3, <2>3, <3>1
  <2> HIDE DEF Delta
  <2> QED BY <1>4, <2>1, <2>3, <2>4
<1>6. CashMatchesOrders'
  <2>1. cash = InitialCash + SumFunctionOnSet(CashMoved, OrderIds)
    BY DEF AccountInv, CashMatchesOrders
  <2>2. Proceeds(Ticket(c), price, n) \in Int
    <3> DEFINE value == price * n
    <3>1. value \in Nat
      BY <1>3
    <3>2. value * 100 \in Nat
      BY <3>1
    <3> QED BY <1>3, <3>2 DEF Proceeds
  <2>3. cash' = cash + Moved /\ Moved \in Int
    BY <1>2, <1>3, <2>2 DEF ResultingCash, IInv, VariablesOK
  <2>4. inst \in Instruments /\ InitialCash \in Nat
    BY <1>3, ConstantsAssumption
  <2> HIDE DEF Moved
  <2>5. SumFunctionOnSet(CashMoved', OrderIds) = SumFunctionOnSet(CashMoved, OrderIds) + Moved
        /\ SumFunctionOnSet(CashMoved, OrderIds) \in Int
    BY <1>4, <2>4
  <2> QED BY <2>1, <2>3, <2>4, <2>5 DEF CashMatchesOrders
<1>7. VolumeShared'
  <2> SUFFICES ASSUME NEW i \in Instruments, bars[i] # NoBar, VolumeLimit # 0
               PROVE  SumFunctionOnSet(ExecutedNow(i)', OrderIds) + volumeLeft'[i] = UsableVolume(bars[i])
    BY <1>1 DEF VolumeShared, UsableVolume
  <2>1. SumFunctionOnSet(ExecutedNow(i), OrderIds) + volumeLeft[i] = UsableVolume(bars[i])
    BY DEF AccountInv, VolumeShared
  <2>2. volumeLeft'[i] = volumeLeft[i] - Taken(i) /\ volumeLeft[i] \in Int /\ Taken(i) \in Int
    <3>1. volumeLeft \in [Instruments -> Nat]
      BY DEF IInv, VariablesOK
    <3>2. volumeLeft' = [volumeLeft EXCEPT ![inst] = @ - n] /\ Taken(i) = IF inst = i THEN n ELSE 0
      BY <1>2 DEF VolumeAfterFill
    <3> HIDE DEF n, inst, Taken
    <3> QED BY <1>3, <3>1, <3>2
  <2> HIDE DEF Taken
  <2> QED BY <1>4, <2>1, <2>2
<1> QED BY <1>5, <1>6, <1>7 DEF AccountInv

(* Every step keeps the account equal to the sums.                         *)
LEMMA StepAccounts ==
  ASSUME IInv, IInv', AccountInv, [Next]_vars
  PROVE  AccountInv'
<1>1. NothingMoved'
  BY MovedNext DEF AccountInv
<1>2. CASE FillOrder
  BY <1>1, <1>2, FillOrderAccounts
<1>3. CASE ~FillOrder
  <2>1. UNCHANGED <<cash, shares>> /\ (UNCHANGED <<clock, bars, volumeLeft>>
          \/ \E bs \in [Instruments -> Bars \cup {NoBar}] : NewBars(bs))
    BY <1>3 DEF Next, Strategy, OnBars, SubmitOrder, CancelOrder, NewBars, SkipOrder, AcceptOrder, ResumeOrder,
         SkipInactive, ExpireBeforeFill, LeaveOrder, ExpireAfterBar, KeepOrder, HandlersReturn, LoopEnds,
         feed, account, vars
  <2>2. ASSUME NEW i
        PROVE  /\ SumFunctionOnSet(SignedFilled(i)', OrderIds) = SumFunctionOnSet(SignedFilled(i), OrderIds)
               /\ SumFunctionOnSet(CashMoved', OrderIds) = SumFunctionOnSet(CashMoved, OrderIds)
               /\ clock' = clock => SumFunctionOnSet(ExecutedNow(i)', OrderIds) =
                                      SumFunctionOnSet(ExecutedNow(i), OrderIds)
    BY <1>1, <1>3, SumsKept DEF AccountInv
  <2>3. SharesMatchOrders'
    BY <2>1, <2>2 DEF AccountInv, SharesMatchOrders
  <2>4. CashMatchesOrders'
    BY <2>1, <2>2 DEF AccountInv, CashMatchesOrders
  <2>5. VolumeShared'
    <3>1. CASE \E bs \in [Instruments -> Bars \cup {NoBar}] : NewBars(bs)
      BY <1>1, <3>1, NewBarsVolume
    <3>2. CASE UNCHANGED <<clock, bars, volumeLeft>>
      BY <2>2, <3>2 DEF AccountInv, VolumeShared, UsableVolume
    <3> QED BY <2>1, <3>1, <3>2
  <2> QED BY <1>1, <2>3, <2>4, <2>5 DEF AccountInv
<1> QED BY <1>2, <1>3

(* Before the first order the sums are zero.                               *)
LEMMA InitAccounts == Init => AccountInv
<1> SUFFICES ASSUME Init PROVE AccountInv
  OBVIOUS
<1>1. \A o \in OrderIds : order[o] = NewOrder
  BY DEF Init
<1>2. NothingMoved
  BY <1>1 DEF NothingMoved, NewOrder
<1>3. \A o \in OrderIds : CashMoved[o] = 0 /\ \A i : SignedFilled(i)[o] = 0 /\ ExecutedNow(i)[o] = 0
  BY <1>1 DEF CashMoved, SignedFilled, ExecutedNow, NewOrder
<1>4. SumFunctionOnSet(CashMoved, OrderIds) = 0
  BY <1>3, OrdersFinite, SumZero
<1>5. \A i : SumFunctionOnSet(SignedFilled(i), OrderIds) = 0
  <2> SUFFICES ASSUME NEW i PROVE SumFunctionOnSet(SignedFilled(i), OrderIds) = 0
    OBVIOUS
  <2> QED BY <1>3, OrdersFinite, SumZero
<1>6. SharesMatchOrders /\ CashMatchesOrders
  BY <1>4, <1>5, ConstantsAssumption DEF Init, SharesMatchOrders, CashMatchesOrders
<1>7. VolumeShared
  BY DEF Init, VolumeShared
<1> QED BY <1>2, <1>6, <1>7 DEF AccountInv

(* Whenever user code can look, the shares and the cash are what the       *)
(* orders report, and the orders executed by a bar took no more of its     *)
(* volume than the fill strategy allows.                                   *)
THEOREM AccountsCorrect == Spec => []AccountsMatchOrders
<1>1. IInv /\ IInv' /\ AccountInv /\ [Next]_vars => AccountInv'
  BY StepAccounts
<1>2. IInv /\ AccountInv => AccountsMatchOrders
  <2> SUFFICES ASSUME IInv, AccountInv, VolumeLimit # 0, NEW i \in Instruments, bars[i] # NoBar
               PROVE  SumFunctionOnSet(ExecutedNow(i), OrderIds) <= UsableVolume(bars[i])
    BY DEF AccountInv, AccountsMatchOrders, VolumeLimitRespected
  <2>1. SumFunctionOnSet(ExecutedNow(i), OrderIds) \in Int
    <3>1. \A o \in OrderIds : ExecutedNow(i)[o] \in Int
      BY SummandTypes DEF IInv
    <3> QED BY <3>1, OrdersFinite, SumType
  <2>2. volumeLeft[i] \in Nat
    BY DEF IInv, VariablesOK
  <2> QED BY <2>1, <2>2 DEF AccountInv, VolumeShared
<1> QED BY <1>1, <1>2, InitAccounts, Invariance, PTL DEF Spec

-----------------------------------------------------------------------------
(* The brokers for backtesting side by side                                *)

USE DEF OrderIds

(* The orders of Bitstamp's broker are limit orders of bitcoins that stay  *)
(* until they are canceled, and so no order ever expires.                  *)
LimitsOnly ==
  /\ created \in [Made -> Nat]
  /\ \A o \in OrderIds :
       order[o].state # "INITIAL" => Ticket(o).type = "LIMIT" /\ Ticket(o).goodTillCanceled
  /\ stage # "onExpired"

(* The account has what the last n units of an order take: cash, with the  *)
(* fee, at the limit price, or coins.                                      *)
Backed(t, n) ==
  IF IsBuy(t) THEN t.limitPrice * n * (100 + CommissionAmount) <= cash
              ELSE n <= shares[BtcSymbol]

(* Of the orders created and not submitted there is one on each side, and  *)
(* the account has all of it.                                              *)
WaitingBacked ==
  \A t \in Waiting :
    /\ created[t] = 1 /\ Backed(t, t.quantity)
    /\ \A u \in Waiting : IsBuy(t) = IsBuy(u) => t = u

(* On each side there is one order, created or active, and the account has *)
(* all that is left of it.                                                 *)
AllBacked ==
  /\ shares[BtcSymbol] >= 0
  /\ \A o \in activeOrders :
       /\ Backed(Ticket(o), Remaining(o))
       /\ \A p \in activeOrders : IsBuy(Ticket(o)) = IsBuy(Ticket(p)) => o = p
       /\ \A t \in Waiting : IsBuy(Ticket(o)) # IsBuy(t)
  /\ WaitingBacked

BitstampOK == LimitsOnly /\ (~contended => AllBacked)

VenueInv ==
  /\ IInv
  /\ CashNeverNegative
  /\ contended \in BOOLEAN /\ venue \in {"any", "bitstamp"}
  /\ venue = "bitstamp" => BitstampOK

-----------------------------------------------------------------------------
(* What requests become *)

(* An order made of a request is a limit order of bitcoins, and is on the  *)
(* same side once submitted, among those the broker behind knows.          *)
LEMMA MadeFacts ==
  ASSUME NEW t \in Made
  PROVE  /\ t \in TicketsOn({BtcSymbol}) /\ t.type = "LIMIT"
         /\ t.limitPrice \in Nat /\ t.quantity \in Nat \ {0}
         /\ Overridden(t) \in Tickets /\ Overridden(t) \in TicketsOn({BtcSymbol})
         /\ Overridden(t).type = "LIMIT" /\ Overridden(t).goodTillCanceled
         /\ Overridden(t).limitPrice = t.limitPrice /\ Overridden(t).quantity = t.quantity
         /\ IsBuy(Overridden(t)) = IsBuy(t)
<1>1. PICK r \in Requests : t = Mapped(r)
  BY DEF Made
<1>2. r \in TicketsOn({BtcSymbol}) /\ r.type = "LIMIT"
  BY RequestsAssumption
<1>3. t \in TicketsOn({BtcSymbol}) /\ t.type = "LIMIT"
  BY <1>1, <1>2 DEF Mapped, TicketsOn
<1>4. t.limitPrice \in Nat /\ t.quantity \in Nat \ {0}
  BY <1>3 DEF TicketsOn
<1>5. Overridden(t) \in Tickets
  BY <1>1, BitstampAssumption
<1>6. /\ Overridden(t) \in TicketsOn({BtcSymbol}) /\ Overridden(t).type = "LIMIT"
      /\ Overridden(t).goodTillCanceled
      /\ Overridden(t).limitPrice = t.limitPrice /\ Overridden(t).quantity = t.quantity
      /\ Overridden(t).action = t.action
  BY <1>3 DEF Overridden, TicketsOn
<1>7. IsBuy(Overridden(t)) = IsBuy(t)
  BY <1>6 DEF IsBuy
<1> QED BY <1>3, <1>4, <1>5, <1>6, <1>7

-----------------------------------------------------------------------------
(* Every venue is a broker of BacktestingBroker *)

(* Created orders are data of the strategy until they are submitted: a     *)
(* step of either venue is one of BacktestingBroker, or changes nothing.   *)
LEMMA StepRefines ==
  ASSUME [SessionsNext]_sessionVars
  PROVE  [Next]_vars
<1>1. CASE \E t \in Tickets : SubmitOrder(t)
  BY <1>1 DEF Next, Strategy
<1>2. CASE venue = "bitstamp" /\ Ordering
  <2>1. ASSUME NEW r \in Requests, CreateLimitOrder(r) PROVE UNCHANGED vars
    BY <2>1 DEF CreateLimitOrder
  <2>2. ASSUME NEW t \in Made, SubmitLimitOrder(t) PROVE Next
    <3>1. Overridden(t) \in Tickets
      BY MadeFacts
    <3>2. SubmitOrder(Overridden(t))
      BY <2>2 DEF SubmitLimitOrder
    <3> QED BY <3>1, <3>2 DEF Next, Strategy
  <2> QED BY <1>2, <2>1, <2>2 DEF Ordering
<1>3. CASE Inherited
  BY <1>3 DEF Inherited, Next, Strategy
<1>4. CASE UNCHANGED sessionVars
  BY <1>4 DEF sessionVars
<1> QED BY <1>1, <1>2, <1>3, <1>4 DEF SessionsNext

-----------------------------------------------------------------------------
(* What the steps do to orders and to the account *)

(* The account's coins are a number, and so is what an order still needs.  *)
LEMMA AccountTypes ==
  ASSUME IInv
  PROVE  /\ cash \in Int /\ shares[BtcSymbol] \in Int /\ CommissionAmount \in 0 .. 99
         /\ activeOrders \subseteq OrderIds
         /\ \A o \in activeOrders :
              /\ order[o].state \notin {"INITIAL", "FILLED", "CANCELED"}
              /\ Ticket(o) \in TicketsOn(Instruments) /\ InstrumentOf(o) = BtcSymbol
              /\ Ticket(o).limitPrice \in Nat /\ Remaining(o) \in Nat
<1>1. BtcSymbol \in Instruments /\ Instruments = {BtcSymbol}
  BY BitstampAssumption
<1>2. CommissionAmount \in 0 .. 99
  BY ConstantsAssumption, BitstampAssumption
<1>3. cash \in Int /\ shares[BtcSymbol] \in Int /\ activeOrders \subseteq OrderIds
  BY <1>1 DEF IInv, VariablesOK
<1>4. ASSUME NEW o \in activeOrders
      PROVE  /\ order[o].state \notin {"INITIAL", "FILLED", "CANCELED"}
             /\ Ticket(o) \in TicketsOn(Instruments) /\ InstrumentOf(o) = BtcSymbol
             /\ Ticket(o).limitPrice \in Nat /\ Remaining(o) \in Nat
  <2>1. o \in OrderIds /\ order[o].state \in {"SUBMITTED", "ACCEPTED", "PARTIALLY_FILLED"}
    BY <1>3 DEF IInv, RegistryConsistent
  <2>2. Ticket(o) \in TicketsOn(Instruments) /\ InstrumentOf(o) = BtcSymbol
        /\ Ticket(o).quantity \in Nat \ {0}
    BY <1>1, <2>1, TicketType DEF IInv, OrdersOK
  <2>3. order[o].filled \in 0 .. Ticket(o).quantity
    BY <2>1, <2>2 DEF IInv, OrdersOK, Sized
  <2>4. Remaining(o) \in Nat
    BY <2>2, <2>3 DEF Remaining
  <2>5. Ticket(o).limitPrice \in Nat
    BY <2>2 DEF TicketsOn
  <2> QED BY <2>1, <2>2, <2>4, <2>5
<1> QED BY <1>2, <1>3, <1>4

(* A step that executes nothing keeps the account, what there is left of   *)
(* the orders, and makes none active.                                      *)
LEMMA NoExecutionStep ==
  ASSUME IInv, Inherited, ~FillOrder
  PROVE  /\ cash' = cash /\ shares' = shares /\ nextOrderId' = nextOrderId
         /\ activeOrders' \subseteq activeOrders
         /\ \A o \in OrderIds : order'[o].ticket = order[o].ticket /\ order'[o].filled = order[o].filled
<1> DEFINE Kept == \A o \in OrderIds : order'[o].ticket = order[o].ticket
                                       /\ order'[o].filled = order[o].filled
<1>1. order \in [OrderIds -> OrderRecords] /\ current \in OrderIds \cup {0}
  BY DEF IInv, VariablesOK
<1>2. ASSUME NEW p \in OrderIds, CancelOrder(p)
      PROVE  UNCHANGED account /\ nextOrderId' = nextOrderId
             /\ activeOrders' \subseteq activeOrders /\ Kept
  BY <1>1, <1>2 DEF CancelOrder, CancelActive, Unregister
<1>3. ASSUME NEW bs, NewBars(bs)
      PROVE  UNCHANGED <<cash, shares, nextOrderId, activeOrders, order>>
  BY <1>3 DEF NewBars
<1>4. ASSUME NEW p \in OrderIds, AcceptOrder(p)
      PROVE  UNCHANGED account /\ UNCHANGED <<nextOrderId, activeOrders>> /\ Kept
  BY <1>1, <1>4 DEF AcceptOrder
<1>5. ASSUME NEW p \in OrderIds, SkipOrder(p) \/ ResumeOrder(p)
      PROVE  UNCHANGED account /\ UNCHANGED <<nextOrderId, activeOrders, order>>
  BY <1>5 DEF SkipOrder, ResumeOrder
<1>6. CASE SkipInactive \/ KeepOrder \/ HandlersReturn \/ LoopEnds
  <2>1. UNCHANGED account /\ UNCHANGED <<nextOrderId, activeOrders, order>>
    BY <1>6 DEF SkipInactive, KeepOrder, HandlersReturn, LoopEnds
  <2> QED BY <2>1 DEF account
<1>7. CASE LeaveOrder
  <2>1. UNCHANGED account /\ UNCHANGED <<nextOrderId, activeOrders>>
        /\ \E hit : order' = [order EXCEPT ![current].stopHit = hit]
    BY <1>7 DEF LeaveOrder
  <2>2. Kept
    BY <1>1, <2>1
  <2> QED BY <2>1, <2>2 DEF account
<1>8. CASE ExpireBeforeFill \/ ExpireAfterBar
  <2>1. UNCHANGED account /\ nextOrderId' = nextOrderId /\ activeOrders' \subseteq activeOrders
        /\ order' = [order EXCEPT ![current].state = "CANCELED"]
    BY <1>8 DEF ExpireBeforeFill, ExpireAfterBar, CancelActive, Unregister
  <2>2. Kept
    BY <1>1, <2>1
  <2> QED BY <2>1, <2>2 DEF account
<1> QED BY <1>2, <1>3, <1>4, <1>5, <1>6, <1>7, <1>8 DEF Inherited, OnBars, account

(* Paying n of r units at p, not above the limit l, and the fee c - 100    *)
(* leaves enough for the rest.                                             *)
LEMMA PaidInParts ==
  ASSUME NEW l \in Nat, NEW p \in Nat, p <= l, NEW r \in Nat, NEW n \in 0 .. r, NEW c \in Nat
  PROVE  l * (r - n) * c <= l * r * c - p * n * c
<1>1. l * r * c = l * (r - n) * c + l * n * c
  <2>1. l * r = l * (r - n) + l * n
    OBVIOUS
  <2>2. l * (r - n) \in Int /\ l * n \in Int
    OBVIOUS
  <2> QED BY <2>1, <2>2
<1>2. p * n * c <= l * n * c
  <2>1. p * n <= l * n
    OBVIOUS
  <2>2. p * n \in Nat /\ l * n \in Nat
    OBVIOUS
  <2> QED BY <2>1, <2>2
<1> QED BY <1>1, <1>2

-----------------------------------------------------------------------------
(* The steps of the broker behind, at the venue "bitstamp" *)

(* Without an execution, what was backed still is.                         *)
LEMMA NoExecutionBacked ==
  ASSUME IInv, Inherited, ~FillOrder, AllBacked
  PROVE  AllBacked'
<1>1. /\ cash' = cash /\ shares' = shares /\ created' = created
      /\ activeOrders' \subseteq activeOrders /\ activeOrders \subseteq OrderIds
      /\ \A o \in OrderIds : order'[o].ticket = order[o].ticket /\ order'[o].filled = order[o].filled
  BY NoExecutionStep, AccountTypes DEF Inherited, bitstamp
<1>2. \A o \in activeOrders : Ticket(o)' = Ticket(o) /\ Remaining(o)' = Remaining(o)
  BY <1>1 DEF Ticket, Remaining
<1>3. \A o \in activeOrders : Backed(Ticket(o), Remaining(o))' = Backed(Ticket(o), Remaining(o))
  BY <1>1, <1>2 DEF Backed
<1>4. Waiting' = Waiting /\ \A t \in Waiting : Backed(t, t.quantity)' = Backed(t, t.quantity)
  BY <1>1 DEF Backed, Waiting
<1>5. WaitingBacked'
  BY <1>1, <1>4 DEF WaitingBacked, AllBacked
<1> QED BY <1>1, <1>2, <1>3, <1>4, <1>5 DEF AllBacked

(* An execution of the order of a side: on its own side it takes no more   *)
(* than what was there for it, and to the other side it only adds.         *)
LEMMA FillBacked ==
  ASSUME IInv, FillOrder, UNCHANGED bitstamp, LimitsOnly, AllBacked
  PROVE  AllBacked'
<1> DEFINE c == 100 + CommissionAmount
<1>1. PICK o \in OrderIds : o = current
  BY FillFacts
<1>2. PICK n \in Nat : n = Size(current)
  BY FillFacts, AccountTypes
<1>3. PICK p \in Nat : p = PriceOf(current)
  BY FillFacts DEF Price
<1>4. o \in activeOrders /\ Ticket(o).type = "LIMIT" /\ n \in 1 .. Remaining(o)
      /\ IF IsBuy(Ticket(o)) THEN p <= Ticket(o).limitPrice ELSE TRUE
  BY <1>1, <1>2, <1>3, FillFacts DEF IInv, RegistryConsistent, LimitsOnly, PriceHonours
<1>5. /\ cash \in Int /\ shares[BtcSymbol] \in Int /\ CommissionAmount \in 0 .. 99
      /\ InstrumentOf(o) = BtcSymbol /\ Ticket(o).limitPrice \in Nat /\ Remaining(o) \in Nat
      /\ p * n \in Nat
  BY <1>4, AccountTypes
<1>7. /\ IsBuy(Ticket(o)) => cash' = cash - p * n * c
      /\ ~IsBuy(Ticket(o)) => cash' >= cash
      /\ cash' \in Int
  <2>1. CommissionFor(o, p, n) = p * n * CommissionAmount
    BY BitstampAssumption DEF CommissionFor
  <2>2. cash' = cash + Proceeds(Ticket(o), p, n) - CommissionFor(o, p, n)
    BY <1>1, <1>2, <1>3 DEF FillOrder, CommitExecution, ResultingCash
  <2>3. PICK m \in Nat, a \in 0 .. 99 : m = p * n /\ a = CommissionAmount
    BY <1>5
  <2>4. m * a <= m * 100 /\ m * (100 + a) = m * 100 + m * a /\ m * a \in Nat
    BY <2>3
  <2> QED BY <1>5, <2>1, <2>2, <2>3, <2>4 DEF Proceeds
<1>8. shares'[BtcSymbol] = IF IsBuy(Ticket(o)) THEN shares[BtcSymbol] + n ELSE shares[BtcSymbol] - n
  BY <1>1, <1>2, <1>5, BitstampAssumption DEF FillOrder, CommitExecution, SharesDelta, IInv, VariablesOK
<1>9. /\ activeOrders' \subseteq activeOrders /\ activeOrders \subseteq OrderIds
      /\ created' = created /\ Waiting' = Waiting
  BY AccountTypes DEF FillOrder, CommitExecution, Unregister, bitstamp, Waiting
<1>10. Ticket(o)' = Ticket(o) /\ Remaining(o)' = Remaining(o) - n
  <2>1. order'[o].ticket = order[o].ticket /\ order'[o].filled = order[o].filled + n
    BY <1>1, <1>2, Execution
  <2>2. order[o].filled \in Nat /\ Ticket(o).quantity \in Nat
    BY <1>1, OrderTypes, FillFacts DEF IInv
  <2> QED BY <1>2, <2>1, <2>2 DEF Ticket, Remaining
<1>11. ASSUME NEW q \in activeOrders, q # o
       PROVE  Ticket(q)' = Ticket(q) /\ Remaining(q)' = Remaining(q)
              /\ Remaining(q) \in Nat /\ IsBuy(Ticket(q)) # IsBuy(Ticket(o))
  <2>1. order'[q] = order[q]
    BY <1>1, <1>9, <1>11 DEF FillOrder, CommitExecution, IInv, VariablesOK
  <2> QED BY <1>4, <1>11, <2>1, AccountTypes DEF Ticket, Remaining, AllBacked
<1>12. Backed(Ticket(o), Remaining(o))'
  <2>1. CASE IsBuy(Ticket(o))
    <3>1. Ticket(o).limitPrice * Remaining(o) * c <= cash
      BY <1>4, <2>1 DEF AllBacked, Backed
    <3>2. Ticket(o).limitPrice * (Remaining(o) - n) * c
            <= Ticket(o).limitPrice * Remaining(o) * c - p * n * c
      BY <1>4, <1>5, <2>1, PaidInParts
    <3> QED BY <1>5, <1>7, <1>10, <2>1, <3>1, <3>2 DEF Backed
  <2>2. CASE ~IsBuy(Ticket(o))
    <3>1. Remaining(o) <= shares[BtcSymbol]
      BY <1>4, <2>2 DEF AllBacked, Backed
    <3> QED BY <1>5, <1>8, <1>10, <2>2, <3>1 DEF Backed
  <2> QED BY <2>1, <2>2
<1>13. ASSUME NEW t, NEW m \in Int, IsBuy(t) # IsBuy(Ticket(o)), Backed(t, m), t.limitPrice \in Nat
       PROVE  /\ IsBuy(t) => t.limitPrice * m * c <= cash'
              /\ ~IsBuy(t) => m <= shares'[BtcSymbol]
  <2>1. CASE IsBuy(t)
    <3>1. t.limitPrice * m * c <= cash /\ cash' >= cash
      BY <1>7, <1>13, <2>1 DEF Backed
    <3>2. PICK x \in Int : x = t.limitPrice * m * c
      BY <1>5, <1>13
    <3> QED BY <1>5, <1>7, <2>1, <3>1, <3>2
  <2>2. CASE ~IsBuy(t)
    <3>1. IsBuy(Ticket(o)) /\ m <= shares[BtcSymbol]
      BY <1>13, <2>2 DEF IsBuy, Backed
    <3>2. shares'[BtcSymbol] = shares[BtcSymbol] + n
      BY <1>8, <3>1
    <3> QED BY <1>2, <1>5, <2>2, <3>1, <3>2
  <2> QED BY <2>1, <2>2
<1>14. ASSUME NEW q \in activeOrders, q # o PROVE Backed(Ticket(q), Remaining(q))'
  <2>1. Backed(Ticket(q), Remaining(q)) /\ Ticket(q).limitPrice \in Nat
    BY AccountTypes DEF AllBacked
  <2> QED BY <1>11, <1>13, <1>14, <2>1 DEF Backed
<1>15. WaitingBacked'
  <2>1. ASSUME NEW t \in Waiting PROVE Backed(t, t.quantity)'
    <3>1. t.limitPrice \in Nat /\ t.quantity \in Int
      BY MadeFacts DEF Waiting
    <3>2. IsBuy(t) # IsBuy(Ticket(o)) /\ Backed(t, t.quantity)
      BY <1>4, <2>1 DEF AllBacked, WaitingBacked
    <3> QED BY <1>13, <3>1, <3>2 DEF Backed
  <2> QED BY <1>9, <2>1 DEF AllBacked, WaitingBacked
<1>16. shares'[BtcSymbol] >= 0
  <2>1. ~IsBuy(Ticket(o)) => n <= shares[BtcSymbol]
    BY <1>4, <1>5 DEF AllBacked, Backed
  <2> QED BY <1>2, <1>5, <1>8, <2>1 DEF AllBacked
<1>17. \A q \in activeOrders : IsBuy(Ticket(q))' = IsBuy(Ticket(q))
  BY <1>10, <1>11 DEF IsBuy
<1>18. \A q \in activeOrders' :
         /\ Backed(Ticket(q), Remaining(q))'
         /\ \A r \in activeOrders' : IsBuy(Ticket(q))' = IsBuy(Ticket(r))' => q = r
         /\ \A t \in Waiting : IsBuy(Ticket(q))' # IsBuy(t)
  BY <1>9, <1>12, <1>14, <1>17 DEF AllBacked
<1> QED BY <1>9, <1>15, <1>16, <1>18 DEF AllBacked

(* No order of Bitstamp's broker expires: what it submits stays until it   *)
(* is canceled.                                                            *)
LEMMA InheritedLimits ==
  ASSUME IInv, IInv', Inherited, LimitsOnly
  PROVE  LimitsOnly'
<1>1. created' = created
  BY DEF Inherited, bitstamp
<1>2. ~ExpireBeforeFill /\ ~ExpireAfterBar
  <2> SUFFICES ASSUME stage \in {"process", "post"}
               PROVE  ~HasExpired(current) /\ ~ExpiresWithBar(current)
    BY DEF ExpireBeforeFill, ExpireAfterBar
  <2>1. current \in OrderIds /\ order[current].state # "INITIAL"
    BY DEF IInv, Progress, Pending
  <2> QED BY <2>1 DEF LimitsOnly, HasExpired, ExpiresWithBar
<1>3. stage' # "onExpired"
  <2>1. CASE HandlersReturn
    <3>1. stage' \in {"process", "post", "loop"}
      BY <2>1 DEF HandlersReturn
    <3> QED BY <3>1
  <2>2. CASE UNCHANGED stage
    BY <2>2 DEF LimitsOnly
  <2>3. CASE stage' \in {"strategy", "loop", "process", "post", "onAccepted", "onFilled"}
    BY <2>3
  <2>4. HandlersReturn \/ UNCHANGED stage
        \/ stage' \in {"strategy", "loop", "process", "post", "onAccepted", "onFilled"}
    BY <1>2 DEF Inherited, OnBars, CancelOrder, NewBars, SkipOrder, AcceptOrder, ResumeOrder, SkipInactive,
       FillOrder, LeaveOrder, KeepOrder, LoopEnds
  <2> QED BY <2>1, <2>2, <2>3, <2>4
<1>4. nextOrderId' = nextOrderId /\ \A o \in OrderIds : order'[o].ticket = order[o].ticket
  <2>1. CASE FillOrder
    <3>1. nextOrderId' = nextOrderId /\ order'[current].ticket = order[current].ticket
      BY <2>1, Execution DEF FillOrder
    <3>2. \A o \in OrderIds : o # current => order'[o] = order[o]
      BY <2>1 DEF FillOrder, CommitExecution, IInv, VariablesOK
    <3> QED BY <3>1, <3>2
  <2> QED BY <2>1, NoExecutionStep
<1>5. \A o \in OrderIds : order'[o].state # "INITIAL" <=> order[o].state # "INITIAL"
  BY <1>4 DEF IInv, OrdersOK, Untouched
<1> QED BY <1>1, <1>3, <1>4, <1>5 DEF LimitsOnly, Ticket

(* What the broker behind does, at the venue "bitstamp".                   *)
LEMMA InheritedOK ==
  ASSUME IInv, IInv', Inherited, BitstampOK
  PROVE  BitstampOK'
<1>1. UNCHANGED bitstamp /\ contended' = contended
  BY DEF Inherited, bitstamp
<1>2. CASE FillOrder
  BY <1>1, <1>2, FillBacked, InheritedLimits DEF BitstampOK
<1>3. CASE ~FillOrder
  BY <1>1, <1>3, NoExecutionBacked, InheritedLimits DEF BitstampOK
<1> QED BY <1>2, <1>3

-----------------------------------------------------------------------------
(* Creating and submitting orders *)

(* createLimitOrder backs the order with what it checks.                   *)
LEMMA CreateOK ==
  ASSUME IInv, NEW request \in Requests, CreateLimitOrder(request), contended \in BOOLEAN, BitstampOK
  PROVE  BitstampOK'
<1>1. PICK t \in Made : t = Mapped(request)
  BY DEF Made
<1>2. created' = [created EXCEPT ![t] = @ + 1] /\ UNCHANGED vars /\ created \in [Made -> Nat]
  BY <1>1 DEF CreateLimitOrder, BitstampOK, LimitsOnly
<1>3. LimitsOnly'
  <2>1. created' \in [Made -> Nat]
    BY <1>2
  <2> QED BY <1>2, <2>1 DEF BitstampOK, LimitsOnly, Ticket, vars
<1>4. ASSUME ~contended' PROVE AllBacked'
  <2>1. /\ ~contended
        /\ \A o \in activeOrders : IsBuy(Ticket(o)) # IsBuy(t)
        /\ \A u \in Waiting : IsBuy(u) # IsBuy(t)
    BY <1>1, <1>4 DEF CreateLimitOrder
  <2>2. AllBacked
    BY <2>1 DEF BitstampOK
  <2>3. Backed(t, t.quantity)
    <3>1. /\ cash \in Int /\ shares[BtcSymbol] \in Int /\ CommissionAmount \in 0 .. 99
          /\ t.limitPrice \in Nat /\ t.quantity \in Nat
      BY AccountTypes, MadeFacts
    <3>2. CASE IsBuy(t)
      <4>1. t.limitPrice * t.quantity * 100 + Fee(t) <= CashWithoutShort
        BY <1>1, <3>2 DEF CreateLimitOrder, CashSuffices
      <4>2. CashWithoutShort = cash
        BY <2>2, <3>1 DEF CashWithoutShort, AllBacked
      <4>3. Fee(t) = t.limitPrice * t.quantity * CommissionAmount
        BY BitstampAssumption DEF Fee, CommissionFor
      <4>4. PICK m \in Nat, a \in 0 .. 99 : m = t.limitPrice * t.quantity /\ a = CommissionAmount
        BY <3>1
      <4>5. m * (100 + a) = m * 100 + m * a /\ m * a \in Nat
        BY <4>4
      <4> QED BY <3>1, <3>2, <4>1, <4>2, <4>3, <4>4, <4>5 DEF Backed
    <3>3. CASE ~IsBuy(t)
      BY <1>1, <3>3 DEF CreateLimitOrder, CoinsSuffice, Backed
    <3> QED BY <3>2, <3>3
  <2>4. \A o \in activeOrders : Ticket(o)' = Ticket(o) /\ Remaining(o)' = Remaining(o)
    BY <1>2 DEF Ticket, Remaining, vars
  <2>5. /\ cash' = cash /\ shares' = shares /\ activeOrders' = activeOrders
    BY <1>2 DEF vars
  <2>6. \A o \in activeOrders : Backed(Ticket(o), Remaining(o))'
    BY <2>2, <2>4, <2>5 DEF Backed, AllBacked
  <2>7. \A u \in Made : Backed(u, u.quantity)' = Backed(u, u.quantity)
    BY <2>5 DEF Backed
  <2>8. t \notin Waiting /\ Waiting' = Waiting \cup {t} /\ created'[t] = 1
        /\ \A u \in Waiting : created'[u] = created[u]
    <3>1. t \notin Waiting
      BY <2>1
    <3>2. created[t] = 0
      BY <1>2, <3>1 DEF Waiting
    <3>3. created'[t] = 1 /\ \A u \in Made : u # t => created'[u] = created[u]
      BY <1>2, <3>2
    <3> QED BY <3>1, <3>3 DEF Waiting
  <2>9. WaitingBacked'
    <3>1. Waiting \subseteq Made
      BY DEF Waiting
    <3> QED BY <2>1, <2>2, <2>3, <2>7, <2>8, <3>1 DEF AllBacked, WaitingBacked
  <2> QED BY <2>1, <2>2, <2>4, <2>5, <2>6, <2>8, <2>9 DEF AllBacked
<1> QED BY <1>3, <1>4 DEF BitstampOK

(* submitOrder only overrides what the checks did not look at.             *)
LEMMA SubmitOK ==
  ASSUME IInv, NEW t \in Made, SubmitLimitOrder(t), BitstampOK
  PROVE  BitstampOK'
<1>1. /\ t \in Waiting /\ created \in [Made -> Nat]
      /\ created' = [created EXCEPT ![t] = @ - 1]
  BY DEF SubmitLimitOrder, BitstampOK, LimitsOnly
<1>2. PICK n \in OrderIds : n = nextOrderId
  BY ConstantsAssumption DEF SubmitLimitOrder, SubmitOrder, IInv, VariablesOK
<1>3. /\ contended' = contended /\ cash' = cash /\ shares' = shares
      /\ stage' = stage /\ activeOrders' = activeOrders \cup {n}
      /\ order' = [order EXCEPT ![n] =
            [NewOrder EXCEPT !.state = "SUBMITTED", !.ticket = Overridden(t), !.submitted = clock]]
  BY <1>2 DEF SubmitLimitOrder, SubmitOrder, account
<1>4. order'[n].ticket = Overridden(t) /\ order'[n].filled = 0
      /\ \A o \in OrderIds : o # n => order'[o] = order[o]
  BY <1>3 DEF NewOrder, IInv, VariablesOK
<1>5. activeOrders \subseteq OrderIds /\ n \notin activeOrders
  BY <1>2 DEF IInv, VariablesOK, OrdersOK, Untouched, RegistryConsistent
<1>6. LimitsOnly'
  <2>1. created' \in [Made -> Nat]
    BY <1>1 DEF Waiting
  <2> QED BY <1>3, <1>4, <2>1, MadeFacts DEF BitstampOK, LimitsOnly, Ticket
<1>7. ASSUME ~contended PROVE AllBacked'
  <2>1. AllBacked /\ created[t] = 1 /\ Backed(t, t.quantity)
    BY <1>1, <1>7 DEF BitstampOK, AllBacked, WaitingBacked
  <2>2. \A o \in activeOrders : Ticket(o)' = Ticket(o) /\ Remaining(o)' = Remaining(o)
    BY <1>4, <1>5 DEF Ticket, Remaining
  <2>3. Ticket(n)' = Overridden(t) /\ Remaining(n)' = t.quantity
    BY <1>4, MadeFacts DEF Ticket, Remaining
  <2>4. Backed(Ticket(n), Remaining(n))'
    BY <1>1, <1>3, <2>1, <2>3, MadeFacts DEF Backed, AllBacked
  <2>5. \A o \in activeOrders : Backed(Ticket(o), Remaining(o))'
    BY <1>3, <2>1, <2>2 DEF Backed, AllBacked
  <2>6. \A o \in activeOrders : IsBuy(Ticket(o))' # IsBuy(Ticket(n))'
    BY <1>1, <2>1, <2>2, <2>3, MadeFacts DEF AllBacked
  <2>7. \A o \in activeOrders, p \in activeOrders : IsBuy(Ticket(o))' = IsBuy(Ticket(p))' => o = p
    BY <2>1, <2>2 DEF AllBacked
  <2>8. \A o \in activeOrders' :
          /\ Backed(Ticket(o), Remaining(o))'
          /\ \A p \in activeOrders' : IsBuy(Ticket(o))' = IsBuy(Ticket(p))' => o = p
    BY <1>3, <2>4, <2>5, <2>6, <2>7
  <2>9. Waiting' = Waiting \ {t} /\ \A u \in Waiting \ {t} : created'[u] = created[u]
    <3>1. created'[t] = 0 /\ \A u \in Made : u # t => created'[u] = created[u]
      BY <1>1, <2>1
    <3> QED BY <3>1 DEF Waiting
  <2>10. WaitingBacked'
    <3>1. \A u \in Waiting : Backed(u, u.quantity)' = Backed(u, u.quantity)
      BY <1>3 DEF Backed
    <3> QED BY <2>1, <2>9, <3>1 DEF AllBacked, WaitingBacked
  <2>11. ASSUME NEW o \in activeOrders', NEW u \in Waiting' PROVE IsBuy(Ticket(o))' # IsBuy(u)
    <3>1. u \in Waiting /\ u # t
      BY <2>9
    <3>2. IsBuy(u) # IsBuy(t)
      BY <1>1, <2>1, <3>1 DEF AllBacked, WaitingBacked
    <3>3. CASE o = n
      BY <2>3, <3>2, <3>3, MadeFacts
    <3>4. CASE o # n
      <4>1. o \in activeOrders /\ Ticket(o)' = Ticket(o)
        BY <1>3, <2>2, <3>4
      <4>2. IsBuy(Ticket(o)) # IsBuy(u)
        BY <2>1, <3>1, <4>1 DEF AllBacked
      <4> QED BY <4>1, <4>2 DEF IsBuy
    <3> QED BY <3>3, <3>4
  <2> QED BY <1>3, <2>1, <2>8, <2>10, <2>11 DEF AllBacked
<1> QED BY <1>3, <1>6, <1>7 DEF BitstampOK

-----------------------------------------------------------------------------
(* The theorems *)

(* While the account has enough for the order of each side, an order that  *)
(* is executed is paid for.                                                *)
LEMMA BackedIsPaidFor ==
  ASSUME VenueInv, venue = "bitstamp"
  PROVE  ChecksHoldUntilFilled
<1>1. /\ IInv /\ CashNeverNegative /\ LimitsOnly
      /\ ~contended => AllBacked
  BY DEF VenueInv, BitstampOK
<1>2. ASSUME AllBacked, stage = "process", IsActive(current), HasFill(current)
      PROVE  EnoughCash(current)
  <2>1. PICK o \in OrderIds : o = current
    BY <1>1, <1>2, FillableFacts
  <2>2. o \in activeOrders /\ Ticket(o).type = "LIMIT"
    BY <1>1, <1>2, <2>1, FillableFacts DEF IInv, RegistryConsistent, LimitsOnly
  <2>3. /\ cash \in Int /\ CommissionAmount \in 0 .. 99
        /\ Ticket(o).limitPrice \in Nat /\ Remaining(o) \in Nat
    BY <1>1, <2>2, AccountTypes
  <2>4. PICK p \in Nat, n \in 1 .. Remaining(o) : p = PriceOf(o) /\ n = Size(o)
    BY <1>1, <1>2, <2>1, FillableFacts DEF Price
  <2>5. IsBuy(Ticket(o)) => p <= Ticket(o).limitPrice
    BY <1>1, <1>2, <2>1, <2>2, <2>4, FillableFacts DEF PriceHonours
  <2>6. ResultingCash(o) = cash + Proceeds(Ticket(o), p, n) - p * n * CommissionAmount
    BY <2>4, BitstampAssumption DEF ResultingCash, CommissionFor
  <2>7. PICK m \in Nat, a \in 0 .. 99 : m = p * n /\ a = CommissionAmount
    BY <2>3, <2>4
  <2>8. m * a <= m * 100 /\ m * (100 + a) = m * 100 + m * a /\ m * a \in Nat
    BY <2>7
  <2>9. CASE IsBuy(Ticket(o))
    <3>1. PICK l \in Nat, r \in Nat, c \in Nat :
            l = Ticket(o).limitPrice /\ r = Remaining(o) /\ c = 100 + CommissionAmount
      BY <2>3
    <3>2. l * r * c <= cash
      BY <1>2, <2>2, <2>9, <3>1 DEF AllBacked, Backed
    <3>3. l * (r - n) * c <= l * r * c - p * n * c /\ l * (r - n) * c >= 0
      <4>1. l * (r - n) \in Nat
        BY <2>4, <3>1
      <4>2. l * (r - n) * c \in Nat
        BY <3>1, <4>1
      <4> QED BY <2>4, <2>5, <2>9, <3>1, <4>2, PaidInParts
    <3>4. l * r * c \in Nat /\ p * n * c = m * 100 + m * a
      BY <2>7, <2>8, <3>1
    <3>5. ResultingCash(o) >= 0
      BY <2>3, <2>6, <2>7, <2>8, <2>9, <3>2, <3>3, <3>4 DEF Proceeds
    <3> QED BY <2>1, <3>5 DEF EnoughCash
  <2>10. CASE ~IsBuy(Ticket(o))
    <3>1. ResultingCash(o) >= cash
      BY <2>3, <2>6, <2>7, <2>8, <2>10 DEF Proceeds
    <3>2. ResultingCash(o) \in Int
      BY <2>3, <2>6, <2>7, <2>8, <2>10 DEF Proceeds
    <3> QED BY <1>1, <2>1, <2>3, <3>1, <3>2 DEF EnoughCash, CashNeverNegative
  <2> QED BY <2>9, <2>10
<1> QED BY <1>1, <1>2 DEF ChecksHoldUntilFilled, BuyIsPaidFor, LimitsOnly, AllBacked

(* The invariant of both venues holds at the start.                        *)
LEMMA InitVenueInv == SessionsInit => VenueInv
<1> SUFFICES ASSUME SessionsInit PROVE VenueInv
  OBVIOUS
<1>1. IInv
  BY InitIInv DEF SessionsInit
<1>2. CashNeverNegative
  BY ConstantsAssumption DEF SessionsInit, Init, CashNeverNegative
<1>3. LimitsOnly
  BY DEF SessionsInit, Init, BitstampInit, NewOrder, LimitsOnly
<1>4. AllBacked
  <2>1. Waiting = {}
    BY DEF SessionsInit, BitstampInit, Waiting
  <2> QED BY <2>1, BitstampAssumption DEF SessionsInit, Init, AllBacked, WaitingBacked
<1> QED BY <1>1, <1>2, <1>3, <1>4 DEF VenueInv, SessionsInit, BitstampInit, BitstampOK

(* Every step keeps it.                                                    *)
LEMMA StepVenueInv ==
  ASSUME VenueInv, [SessionsNext]_sessionVars
  PROVE  VenueInv'
<1>1. [Next]_vars
  BY StepRefines
<1>2. IInv'
  BY <1>1, StepIInv DEF VenueInv
<1>3. CashNeverNegative'
  BY <1>1, StepCash DEF VenueInv
<1>4. contended' \in BOOLEAN /\ venue' = venue
  BY DEF VenueInv, SessionsNext, sessionVars, bitstamp, Ordering, CreateLimitOrder, SubmitLimitOrder, Inherited
<1>5. ASSUME venue = "bitstamp" PROVE BitstampOK'
  <2>1. IInv /\ BitstampOK /\ contended \in BOOLEAN
    BY <1>5 DEF VenueInv
  <2>2. CASE Ordering
    BY <2>1, <2>2, CreateOK, SubmitOK DEF Ordering
  <2>3. CASE Inherited
    BY <1>2, <2>1, <2>3, InheritedOK
  <2>4. CASE UNCHANGED sessionVars
    BY <2>1, <2>4 DEF sessionVars, vars, bitstamp, BitstampOK, LimitsOnly, AllBacked, WaitingBacked, Waiting,
       Backed, Ticket, Remaining
  <2> QED BY <1>5, <2>2, <2>3, <2>4 DEF SessionsNext
<1> QED BY <1>2, <1>3, <1>4, <1>5 DEF VenueInv

(* Every behaviour of either venue is one of BacktestingBroker.            *)
THEOREM SessionsImplementBroker == SessionsSpec => Init /\ [][Next]_vars
<1>1. SessionsSpec => []VenueInv
  BY InitVenueInv, StepVenueInv, PTL DEF SessionsSpec
<1>2. VenueInv /\ [SessionsNext]_sessionVars => [Next]_vars
  BY StepRefines
<1>3. SessionsInit => Init
  BY DEF SessionsInit
<1> QED BY <1>1, <1>2, <1>3, PTL DEF SessionsSpec

(* What createLimitOrder checked still holds when the order is executed,   *)
(* in parts and bars later, unless an order of its side was active when it *)
(* was created, or created and not submitted; and no order of Bitstamp's   *)
(* broker ends with its session.                                           *)
THEOREM BitstampChecksCorrect == SessionsSpec => []BitstampChecksHold
<1>1. SessionsSpec => []VenueInv
  BY InitVenueInv, StepVenueInv, PTL DEF SessionsSpec
<1>2. VenueInv => BitstampChecksHold
  BY BackedIsPaidFor DEF BitstampChecksHold
<1> QED BY <1>1, <1>2, PTL

=============================================================================
