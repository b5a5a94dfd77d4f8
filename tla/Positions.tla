----------------------------- MODULE Positions ------------------------------
(***************************************************************************)
(* strategy/position.py and the part of strategy/__init__.py that links    *)
(* orders to positions.                                                    *)
(*                                                                         *)
(* One thread runs everything, and calls nest: submitting or canceling an  *)
(* order emits an event before the call returns, its handlers run the      *)
(* strategy's callbacks, and these may exit or cancel positions in turn.   *)
(* "stack" is the part of the call stack that still has work to do; when   *)
(* it is empty the broker is free to execute or expire orders.             *)
(*                                                                         *)
(* The broker is anything that respects the state chart of OrderLifecycle. *)
(* What a position is worth (PositionTracker) is left out.                 *)
(***************************************************************************)
EXTENDS Integers, Sequences, FiniteSets, Functions

CONSTANTS
  MaxPositions,    (* bound: how many positions the strategy enters              *)
  MaxOrders,       (* bound: how many orders the broker takes                    *)
  Quantity,        (* the quantity of an entry order                             *)
  Sides,           (* subset of {1, -1}: LongPosition and ShortPosition          *)
  ActsIn           (* the callbacks in which the strategy acts on positions      *)

PositionIds == 1 .. MaxPositions
OrderIds    == 1 .. MaxOrders
Callbacks   ==
  {"onBars", "onOrderUpdated", "onEnterOk", "onEnterCanceled", "onExitOk", "onExitCanceled"}

ASSUME PositionsAssumption ==
  /\ MaxPositions \in Nat /\ MaxOrders \in Nat /\ Quantity \in Nat \ {0}
  /\ Sides \subseteq {1, -1} /\ ActsIn \subseteq Callbacks

VARIABLES
  state,            (* Order.__state                                             *)
  quantity,         (* Order.__quantity                                          *)
  filled,           (* Order.__filled                                            *)
  position,         (* the attributes of each Position                           *)
  activePositions,  (* BaseStrategy.__activePositions                            *)
  orderToPosition,  (* BaseStrategy.__orderToPosition, 0 for no entry            *)
  stack,            (* the calls that have not returned, the innermost first     *)
  failure,          (* the assertion or exception that ended the run             *)
  owner,            (* history: the position that built each order               *)
  heard             (* history: the callbacks each position caused               *)

order == <<state, quantity, filled>>
links == <<activePositions, orderToPosition>>
vars  == <<order, position, links, stack, failure, owner, heard>>

Broker == INSTANCE OrderLifecycle WITH Orders <- OrderIds, Quantities <- 1 .. Quantity

NoPosition ==
  [state |-> "None", side |-> 1, shares |-> 0, entryOrder |-> 0, exitOrder |-> 0,
   activeOrders |-> {}]

Running     == failure = "none"
IsActive(o) == o # 0 /\ state[o] \notin {"CANCELED", "FILLED"}

-----------------------------------------------------------------------------
(* The stack *)

Frame(at, p, o, type, n) ==
  [at |-> at, position |-> p, order |-> o, type |-> type, quantity |-> n]
Callback(name, p) == Frame(name, p, 0, "NONE", 0)
Top == Head(stack)

(* An event reaches BaseStrategy.__onOrderEvent: onOrderUpdated runs, then *)
(* the position is told.                                                   *)
Handlers(o, type, n) ==
  <<Callback("onOrderUpdated", 0), Frame("notify", 0, o, type, n)>>

Fail(what) ==
  /\ failure' = what
  /\ UNCHANGED <<order, position, links, stack, owner, heard>>

-----------------------------------------------------------------------------
(* The broker, between two calls of the strategy *)

BrokerRuns == Running /\ stack = <<>>

AcceptOrder(o) ==
  /\ BrokerRuns
  /\ Broker!Accept(o)
  /\ stack' = Handlers(o, "ACCEPTED", 0)
  /\ UNCHANGED <<position, links, failure, owner, heard>>

FillOrder(o) ==
  /\ BrokerRuns
  /\ Broker!Execute(o)
  /\ stack' = Handlers(o, state'[o], filled'[o] - filled[o])
  /\ UNCHANGED <<position, links, failure, owner, heard>>

ExpireOrder(o) ==
  /\ BrokerRuns
  /\ state[o] # "INITIAL"
  /\ Broker!Cancel(o)
  /\ stack' = Handlers(o, "CANCELED", 0)
  /\ UNCHANGED <<position, links, failure, owner, heard>>

NewBars ==
  /\ BrokerRuns
  /\ stack' = <<Callback("onBars", 0)>>
  /\ UNCHANGED <<order, position, links, failure, owner, heard>>

-----------------------------------------------------------------------------
(* Calls of the broker by positions; "rest" is what they return to *)

NextOrder == Cardinality({o \in OrderIds : state[o] # "INITIAL"}) + 1

(* Position.__submitAndRegisterOrder, up to the event that submitOrder     *)
(* emits.                                                                  *)
SubmitOrder(p, n, rest) ==
  /\ NextOrder \in OrderIds
  /\ Broker!SwitchState(NextOrder, "SUBMITTED")
  /\ quantity' = [quantity EXCEPT ![NextOrder] = n]
  /\ filled' = filled
  /\ owner' = [owner EXCEPT ![NextOrder] = p]
  /\ stack' = Handlers(NextOrder, "SUBMITTED", 0)
                \o <<Frame("register", p, NextOrder, "NONE", 0)>> \o rest

CancelOrder(o, rest) ==
  /\ Broker!Cancel(o)
  /\ stack' = Handlers(o, "CANCELED", 0) \o rest

-----------------------------------------------------------------------------
(* The strategy *)

Acts == Running /\ stack # <<>> /\ Top.at \in ActsIn

Return ==
  /\ Running /\ stack # <<>> /\ Top.at \in Callbacks
  /\ stack' = Tail(stack)
  /\ UNCHANGED <<order, position, links, failure, owner, heard>>

(* A position the strategy has: the constructor has returned.              *)
Known(p) == position[p].entryOrder # 0

(* enterLong, enterShort: the constructor of Position.                     *)
Enter(p, side) ==
  /\ Acts
  /\ position[p].state = "None" /\ \A q \in PositionIds : q < p => position[q].state # "None"
  /\ position' = [position EXCEPT ![p] = [NoPosition EXCEPT !.state = "WaitingEntry", !.side = side]]
  /\ SubmitOrder(p, Quantity, stack)
  /\ UNCHANGED <<links, failure, heard>>

CancelEntry(p) ==
  /\ Acts /\ Known(p)
  /\ IsActive(position[p].entryOrder)
  /\ CancelOrder(position[p].entryOrder, stack)
  /\ UNCHANGED <<position, links, failure, owner, heard>>

CancelExit(p) ==
  /\ Acts /\ Known(p)
  /\ IsActive(position[p].exitOrder)
  /\ CancelOrder(position[p].exitOrder, stack)
  /\ UNCHANGED <<position, links, failure, owner, heard>>

(* buildExitOrder: a long position sells what it holds, a short one buys   *)
(* it back.                                                                *)
HoldsItsSide(p) == position[p].shares * position[p].side > 0
ExitQuantity(p) == position[p].shares * position[p].side

(* exitMarket and its like, by state.  A closed position ignores them, and *)
(* an active exit order makes OpenState.exit raise before it does anything.*)
ExitWaiting(p) ==
  /\ Acts /\ Known(p)
  /\ position[p].state = "WaitingEntry"
  /\ IF position[p].shares = 0 /\ IsActive(position[p].entryOrder)
     THEN /\ CancelOrder(position[p].entryOrder, stack)
          /\ UNCHANGED <<position, links, failure, owner, heard>>
     ELSE Fail("WaitingEntryState.exit")

EntryLeftAlone(p) == FALSE                  \* mutant: the entry order is not canceled
EntryToCancel(p) == IsActive(position[p].entryOrder)

ExitOpen(p) ==
  /\ Acts /\ Known(p)
  /\ position[p].state = "Open"
  /\ ~IsActive(position[p].exitOrder)
  /\ IF position[p].shares = 0 \/ (~EntryToCancel(p) /\ ~HoldsItsSide(p))
     THEN Fail("OpenState.exit")
     ELSE /\ IF EntryToCancel(p)
             THEN /\ CancelOrder(position[p].entryOrder, <<Callback("exit", p)>> \o stack)
                  /\ owner' = owner
             ELSE SubmitOrder(p, ExitQuantity(p), stack)
          /\ UNCHANGED <<position, links, failure, heard>>

-----------------------------------------------------------------------------
(* What calls do once the events they caused have been handled *)

(* _submitExitOrder, after the entry order was canceled.                   *)
SubmitExit ==
  LET p == Top.position IN
  /\ Running /\ stack # <<>> /\ Top.at = "exit"
  /\ IF IsActive(position[p].exitOrder) \/ ~HoldsItsSide(p)
        \/ position[p].state = "Closed"
     THEN Fail("Position._submitExitOrder")
     ELSE /\ SubmitOrder(p, ExitQuantity(p), Tail(stack))
          /\ UNCHANGED <<position, links, failure, heard>>

(* After submitOrder: the order is registered with the position and the    *)
(* strategy, and becomes the entry or the exit order.                      *)
RegisterOrder ==
  LET p == Top.position
      o == Top.order
      isEntry == position[p].entryOrder = 0 IN
  /\ Running /\ stack # <<>> /\ Top.at = "register"
  /\ IF ~IsActive(o) THEN Fail("BaseStrategy.registerPositionOrder")
     ELSE /\ position' = [position EXCEPT
               ![p].activeOrders = @ \cup {o},
               ![p].entryOrder = IF isEntry THEN o ELSE @,
               ![p].exitOrder = IF isEntry THEN @ ELSE o]
          /\ activePositions' = activePositions \cup {p}
          /\ orderToPosition' = [orderToPosition EXCEPT ![o] = p]
          /\ stack' = Tail(stack)
          /\ UNCHANGED <<order, failure, owner, heard>>

-----------------------------------------------------------------------------
(* Position.onOrderEvent *)

IsFill(type) == type \in {"PARTIALLY_FILLED", "FILLED"}

(* The position after it dropped an order that is not active anymore and   *)
(* updated its shares.  Entry orders buy for a long position and sell for  *)
(* a short one, exit orders do the opposite.                               *)
FinalFillsOnly(p, o, type, n) ==           \* mutant: partial fills are not counted
  IF type # "FILLED" THEN 0
  ELSE IF o = position[p].entryOrder THEN position[p].side * n ELSE -position[p].side * n
SharesMoved(p, o, type, n) ==
  IF ~IsFill(type) THEN 0
  ELSE IF o = position[p].entryOrder THEN position[p].side * n ELSE -position[p].side * n

StillActive(p, o) ==
  IF IsActive(o) THEN position[p].activeOrders ELSE position[p].activeOrders \ {o}

Updated(p) ==
  [position[p] EXCEPT
     !.shares = @ + SharesMoved(p, Top.order, Top.type, Top.quantity),
     !.activeOrders = StillActive(p, Top.order)]

Notified(p) ==
  /\ Running /\ stack # <<>> /\ Top.at = "notify"
  /\ p = orderToPosition[Top.order]
Unlink == [orderToPosition EXCEPT ![Top.order] = IF IsActive(Top.order) THEN @ ELSE 0]

(* No position, or it was already told that the order ended.               *)
NotLinked ==
  /\ Notified(0)
  /\ stack' = Tail(stack)
  /\ UNCHANGED <<order, position, links, failure, owner, heard>>

NotSwitched(p, new, callback) ==                      \* mutant: switchState is missing
  /\ position' = [position EXCEPT ![p] = Updated(p)]
  /\ orderToPosition' = Unlink
  /\ stack' = <<Callback(callback, p)>> \o Tail(stack)
  /\ heard' = [heard EXCEPT ![p] = Append(@, callback)]
  /\ UNCHANGED <<order, activePositions, failure, owner>>
(* The position ends up in a state and calls the strategy back.            *)
Switch(p, new, callback) ==
  /\ position' = [position EXCEPT ![p] = [Updated(p) EXCEPT !.state = new]]
  /\ activePositions' = IF new = "Closed" THEN activePositions \ {p} ELSE activePositions
  /\ orderToPosition' = Unlink
  /\ stack' = <<Callback(callback, p)>> \o Tail(stack)
  /\ heard' = [heard EXCEPT ![p] = Append(@, callback)]
  /\ UNCHANGED <<order, failure, owner>>

Stay(p) ==
  /\ position' = [position EXCEPT ![p] = Updated(p)]
  /\ orderToPosition' = Unlink
  /\ stack' = Tail(stack)
  /\ UNCHANGED <<order, activePositions, failure, owner, heard>>

WaitingEntryState(p) ==
  /\ Notified(p) /\ position[p].state = "WaitingEntry"
  /\ CASE IsFill(Top.type) -> Switch(p, "Open", "onEnterOk")
       [] Top.type = "CANCELED" ->
            IF filled[Top.order] = 0 /\ Updated(p).shares = 0
            THEN Switch(p, "Closed", "onEnterCanceled")
            ELSE Fail("WaitingEntryState.onOrderEvent")
       [] OTHER -> Stay(p)

(* The exit order is looked at first.                                      *)
ClosesOnAnyFill(p) == IsFill(Top.type)     \* mutant: a partial fill of the exit closes
Closes(p) == Top.type = "FILLED" /\ Updated(p).shares = 0

OpenStateExit(p) ==
  /\ Notified(p) /\ position[p].state = "Open"
  /\ position[p].exitOrder = Top.order
  /\ CASE Closes(p) -> Switch(p, "Closed", "onExitOk")
       [] Top.type = "CANCELED" ->
            IF Updated(p).shares # 0 THEN Switch(p, "Open", "onExitCanceled")
            ELSE Fail("OpenState.onOrderEvent")
       [] OTHER -> Stay(p)

(* Of its other orders an open position expects events of the entry order  *)
(* only, and a closed one expects none at all.                             *)
LateEvent(p) ==
  /\ Notified(p)
  /\ \/ position[p].state = "Closed"
     \/ position[p].state = "Open" /\ position[p].exitOrder # Top.order
  /\ IF /\ position[p].state = "Open"
        /\ position[p].entryOrder = Top.order /\ Updated(p).shares # 0
     THEN Stay(p) ELSE Fail("PositionState.onOrderEvent")

-----------------------------------------------------------------------------

Init ==
  /\ Broker!Init
  /\ position = [p \in PositionIds |-> NoPosition]
  /\ activePositions = {}
  /\ orderToPosition = [o \in OrderIds |-> 0]
  /\ stack = <<>>
  /\ failure = "none"
  /\ owner = [o \in OrderIds |-> 0]
  /\ heard = [p \in PositionIds |-> <<>>]

BrokerSteps ==
  \/ \E o \in OrderIds : AcceptOrder(o) \/ FillOrder(o) \/ ExpireOrder(o)
  \/ NewBars

Strategy ==
  \/ Return
  \/ \E p \in PositionIds :
       \/ \E side \in Sides : Enter(p, side)
       \/ CancelEntry(p) \/ CancelExit(p) \/ ExitWaiting(p) \/ ExitOpen(p)

Library ==
  \/ SubmitExit \/ RegisterOrder \/ NotLinked
  \/ \E p \in PositionIds :
       WaitingEntryState(p) \/ OpenStateExit(p) \/ LateEvent(p)

Next == BrokerSteps \/ Strategy \/ Library

Spec == Init /\ [][Next]_vars

-----------------------------------------------------------------------------
(* Properties *)

(* None of the assertions of position.py and of registerPositionOrder      *)
(* fails, and no event reaches a position that does not expect it, however *)
(* the callbacks nest.                                                     *)
NoAssertionFails == Running

OrdersOf(p) == {o \in OrderIds : owner[o] = p}
FilledBy(p) == [o \in OrderIds |-> IF o = position[p].entryOrder THEN filled[o] ELSE -filled[o]]

(* Whenever the broker runs, the shares of a position are what its entry   *)
(* order bought less what all its exit orders sold (the other way around   *)
(* for a short one).                                                       *)
SharesMatchOrders ==
  BrokerRuns =>
    \A p \in PositionIds :
      position[p].shares = position[p].side * SumFunctionOnSet(FilledBy(p), OrdersOf(p))

Pending == [o \in OrderIds |-> IF IsActive(o) THEN quantity[o] - filled[o] ELSE 0]

NeverReversed ==
  \A p \in PositionIds :
    LET exits == OrdersOf(p) \ {position[p].entryOrder} IN
    /\ SumFunctionOnSet(Pending, exits) <= position[p].shares * position[p].side
    /\ (\E o \in exits : IsActive(o)) => ~IsActive(position[p].entryOrder)

StateMatches ==
  \A p \in PositionIds :
    LET pos == position[p] IN
    /\ pos.state = "WaitingEntry" => IsActive(pos.entryOrder) /\ filled[pos.entryOrder] = 0
    /\ pos.state = "Open" => pos.shares # 0
    /\ pos.state = "Closed" => pos.shares = 0 /\ \A o \in OrdersOf(p) : ~IsActive(o)

TablesMatch ==
  /\ activePositions = {p \in PositionIds : position[p].state \in {"WaitingEntry", "Open"}}
  /\ \A o \in OrderIds :
       orderToPosition[o] = IF IsActive(o) THEN owner[o] ELSE 0
  /\ \A p \in PositionIds : position[p].activeOrders = {o \in OrdersOf(p) : IsActive(o)}

(* Whenever the broker runs, the state of a position tells what there is   *)
(* of it: it waits for an entry order that has not been filled at all, or  *)
(* it is open and holds shares, or it is closed and holds nothing, and     *)
(* then none of its orders is active.  It is never reversed: what the exit *)
(* orders may still trade is no more than the shares held, and while exit  *)
(* orders are active the entry order is not.  The strategy's tables hold   *)
(* the open positions and the active orders of positions and nothing else, *)
(* so nothing leaks over a long run.                                       *)
StateMatchesOrders == BrokerRuns => StateMatches /\ NeverReversed /\ TablesMatch

(* The callbacks of a position come in the order their names promise: one  *)
(* onEnterCanceled and nothing else, or one onEnterOk, then onExitCanceled *)
(* any number of times, then at most one onExitOk and nothing after it.    *)
CallbacksInOrder ==
  \A p \in PositionIds :
    \/ heard[p] = <<"onEnterCanceled">>
    \/ \A i \in 1 .. Len(heard[p]) :
         /\ heard[p][i] = "onEnterOk" <=> i = 1
         /\ heard[p][i] = "onExitOk" => i = Len(heard[p])
         /\ heard[p][i] # "onEnterCanceled"

=============================================================================
