-------------------------- MODULE PositionsProofs ---------------------------
(***************************************************************************)
(* Positions, for every number of them and of orders, every quantity and   *)
(* every nesting of calls, as long as the strategy leaves positions alone  *)
(* in onOrderUpdated: there the position has yet to be told what happened. *)
(***************************************************************************)
EXTENDS Positions, DataTheorems

Types == {"NONE", "SUBMITTED", "ACCEPTED", "CANCELED", "PARTIALLY_FILLED", "FILLED"}
Frames == [at : Callbacks \cup {"notify", "register", "exit", "none"}, position : PositionIds \cup {0},
           order : OrderIds \cup {0}, type : Types, quantity : Nat]
PositionRecords ==
  [state : {"None", "WaitingEntry", "Open", "Closed"}, side : {1, -1}, shares : Int,
   entryOrder : OrderIds \cup {0}, exitOrder : OrderIds \cup {0}, activeOrders : SUBSET OrderIds]

(* Every variable holds a value of its kind.                               *)
TypeOK ==
  /\ state \in [OrderIds -> Broker!States] /\ quantity \in [OrderIds -> Nat] /\ filled \in [OrderIds -> Nat]
  /\ position \in [PositionIds -> PositionRecords]
  /\ activePositions \subseteq PositionIds
  /\ orderToPosition \in [OrderIds -> PositionIds \cup {0}]
  /\ stack \in Seq(Frames)
  /\ owner \in [OrderIds -> PositionIds \cup {0}]
  /\ heard \in [PositionIds -> Seq(Callbacks)]

-----------------------------------------------------------------------------
(* The stack: onOrderUpdated may be on top, then an event that a position  *)
(* has yet to be told of, then a call that waits for it, and then nothing  *)
(* but callbacks that have not returned.                                   *)

NoFrame == Callback("none", 0)
Starts(s, names) == s # <<>> /\ Head(s).at \in names

Rest(s)   == IF Starts(s, {"onOrderUpdated"}) THEN Tail(s) ELSE s
Event(s)  == IF Starts(Rest(s), {"notify"}) THEN Head(Rest(s)) ELSE NoFrame
Caller(s) == IF Starts(Rest(s), {"notify"}) THEN Tail(Rest(s)) ELSE Rest(s)
Call(s)   == IF Starts(Caller(s), {"register", "exit"}) THEN Head(Caller(s)) ELSE NoFrame
Below(s)  == IF Starts(Caller(s), {"register", "exit"}) THEN Tail(Caller(s)) ELSE Caller(s)

Plain(s)  == \A i \in DOMAIN s : s[i].at \in Callbacks \ {"onOrderUpdated"}

StackOK == Plain(Below(stack)) /\ (Starts(stack, {"onOrderUpdated"}) => Starts(Rest(stack), {"notify"}))

-----------------------------------------------------------------------------
(* What positions know, while an event e has yet to reach its position and *)
(* a call c has yet to register its order.                                 *)

KnownActive(o, e, c) == o \in OrderIds /\ owner[o] # 0 /\ o # c.order /\ (IsActive(o) \/ o = e.order)
KnownFilled(o, e)    == filled[o] - (IF o = e.order THEN e.quantity ELSE 0)
Held(p)              == position[p].shares * position[p].side

(* The orders, by the state chart.                                         *)
OrdersOK ==
  \A o \in OrderIds :
    /\ owner[o] = 0 <=> state[o] = "INITIAL"
    /\ state[o] \in {"INITIAL", "SUBMITTED", "ACCEPTED"} => filled[o] = 0
    /\ state[o] # "INITIAL" => quantity[o] >= 1 /\ filled[o] <= quantity[o]
    /\ state[o] # "INITIAL" => (state[o] = "FILLED" <=> filled[o] = quantity[o])

EventOK(e, c) ==
  e # NoFrame =>
    /\ e.at = "notify" /\ e.order \in OrderIds /\ owner[e.order] # 0
    /\ e.type = state[e.order] /\ e.quantity \in Nat /\ e.quantity <= filled[e.order]
    /\ IF IsFill(e.type) THEN e.quantity >= 1 ELSE e.quantity = 0
    /\ e.type = "SUBMITTED" <=> e.order = c.order

CallOK(e, c) ==
  LET p == c.position IN
  /\ c.at = "register" =>
       /\ p \in PositionIds /\ c.order \in OrderIds
       /\ owner[c.order] = p /\ state[c.order] = "SUBMITTED"
       /\ e # NoFrame => e.order = c.order
  /\ c.at = "exit" =>
       /\ p \in PositionIds /\ c.order = 0
       /\ position[p].state = "Open" /\ ~IsActive(position[p].entryOrder) /\ ~IsActive(position[p].exitOrder)
       /\ e # NoFrame => e.order = position[p].entryOrder /\ e.type = "CANCELED"
  /\ c = NoFrame => (e # NoFrame => e.type # "SUBMITTED")

(* The tables of the strategy.                                             *)
TablesOK(e, c) ==
  /\ activePositions =
       {p \in PositionIds : position[p].state \in {"WaitingEntry", "Open"} /\ position[p].entryOrder # 0}
  /\ \A o \in OrderIds : orderToPosition[o] = IF KnownActive(o, e, c) THEN owner[o] ELSE 0

(* A position knows its orders: of those it knows to be active ...         *)
HasOrders(p, e, c) ==
  /\ position[p].activeOrders = {o \in OrdersOf(p) : KnownActive(o, e, c)}
  /\ position[p].entryOrder # 0 => owner[position[p].entryOrder] = p /\ position[p].entryOrder # c.order
  /\ position[p].exitOrder # 0 => /\ owner[position[p].exitOrder] = p /\ position[p].exitOrder # c.order
                                  /\ position[p].exitOrder # position[p].entryOrder
  /\ \A o \in OrdersOf(p) : KnownActive(o, e, c) => o \in {position[p].entryOrder, position[p].exitOrder}

(* ... and by its state.                                                   *)
IsNone(p)    == OrdersOf(p) = {} /\ position[p] = NoPosition /\ heard[p] = <<>>

IsWaiting(p, e, c) ==
  /\ position[p].shares = 0 /\ position[p].exitOrder = 0 /\ heard[p] = <<>>
  /\ IF position[p].entryOrder = 0
     THEN OrdersOf(p) = {c.order}
     ELSE /\ OrdersOf(p) = {position[p].entryOrder}
          /\ KnownActive(position[p].entryOrder, e, c) /\ KnownFilled(position[p].entryOrder, e) = 0

HeardOpen(s) == /\ Len(s) >= 1 /\ s[1] = "onEnterOk"
                /\ \A i \in 2 .. Len(s) : s[i] = "onExitCanceled"

IsOpen(p, e, c) ==
  /\ position[p].entryOrder # 0 /\ Held(p) >= 1
  /\ KnownActive(position[p].exitOrder, e, c) =>
       /\ ~KnownActive(position[p].entryOrder, e, c)
       /\ Held(p) = quantity[position[p].exitOrder] - KnownFilled(position[p].exitOrder, e)
  /\ c.order \in OrdersOf(p) =>
       /\ position[p].activeOrders = {} /\ Held(p) = quantity[c.order]
  /\ HeardOpen(heard[p])

IsClosed(p, e, c) ==
  /\ position[p].entryOrder # 0 /\ position[p].shares = 0
  /\ position[p].activeOrders = {} /\ c.order \notin OrdersOf(p)
  /\ \/ heard[p] = <<"onEnterCanceled">>
     \/ \E s \in Seq(Callbacks) : HeardOpen(s) /\ heard[p] = Append(s, "onExitOk")

StateOK(p, e, c) ==
  /\ position[p].state = "None" => IsNone(p)
  /\ position[p].state = "WaitingEntry" => IsWaiting(p, e, c)
  /\ position[p].state = "Open" => IsOpen(p, e, c)
  /\ position[p].state = "Closed" => IsClosed(p, e, c)

KnownFilledBy(p, e) ==
  [o \in OrderIds |-> IF o = position[p].entryOrder THEN KnownFilled(o, e) ELSE -KnownFilled(o, e)]
SharesOK(p, e) ==
  position[p].shares = position[p].side * SumFunctionOnSet(KnownFilledBy(p, e), OrdersOf(p))

Matches(e, c) ==
  /\ OrdersOK /\ EventOK(e, c) /\ CallOK(e, c) /\ TablesOK(e, c)
  /\ \A p \in PositionIds : HasOrders(p, e, c) /\ StateOK(p, e, c) /\ SharesOK(p, e)

IInv == Running /\ TypeOK /\ StackOK /\ Matches(Event(stack), Call(stack))

-----------------------------------------------------------------------------
(* Stacks *)

(* Zero is no order and no position, and there are finitely many orders.   *)
LEMMA Zero == 0 \notin OrderIds /\ 0 \notin PositionIds /\ IsFiniteSet(OrderIds)
<1>1. MaxOrders \in Nat /\ MaxPositions \in Nat
  BY PositionsAssumption
<1>2. IsFiniteSet(1 .. MaxOrders)
  BY <1>1, FS_Interval
<1> QED BY <1>1, <1>2 DEF OrderIds, PositionIds

(* What a frame put on a stack changes.                                    *)
LEMMA Cons ==
  ASSUME NEW S, NEW a \in S, NEW s \in Seq(S)
  PROVE  /\ <<a>> \o s \in Seq(S) /\ <<a>> \o s # <<>>
         /\ Head(<<a>> \o s) = a /\ Tail(<<a>> \o s) = s
OBVIOUS

(* Two frames put on a stack are one put on top of the other ...           *)
LEMMA TwoOnTop ==
  ASSUME NEW S, NEW a \in S, NEW b \in S, NEW s \in Seq(S)
  PROVE  <<a, b>> \o s = <<a>> \o (<<b>> \o s)
<1>1. <<a, b>> = <<a>> \o <<b>>
  <2>1. <<a, b>> \in Seq(S) /\ Len(<<a, b>>) = 2 /\ <<a, b>>[1] = a /\ <<a, b>>[2] = b
    OBVIOUS
  <2>2. PICK l \in Seq(S) : l = <<a>> \o <<b>>
    <3>1. <<b>> \in Seq(S)
      OBVIOUS
    <3> QED BY <3>1, Cons
  <2>3. Len(l) = 2 /\ l[1] = a /\ l[2] = b
    BY <2>2
  <2>4. PICK k \in Seq(S) : k = <<a, b>>
    BY <2>1
  <2>5. Len(k) = Len(l) /\ \A i \in 1 .. Len(k) : k[i] = l[i]
    BY <2>1, <2>3, <2>4
  <2>6. k = l
    BY <2>5
  <2> QED BY <2>2, <2>4, <2>6
<1>2. <<a>> \o <<b>> \o s = <<a>> \o (<<b>> \o s)
  OBVIOUS
<1> QED BY <1>1, <1>2

(* ... and so are three.                                                   *)
LEMMA ThreeOnTop ==
  ASSUME NEW S, NEW a \in S, NEW b \in S, NEW c \in S, NEW s \in Seq(S)
  PROVE  <<a, b>> \o <<c>> \o s = <<a, b>> \o (<<c>> \o s)
OBVIOUS

(* What a frame holds.                                                     *)
LEMMA FrameIs ==
  ASSUME NEW at, NEW p, NEW o, NEW type, NEW n
  PROVE  LET f == Frame(at, p, o, type, n) IN
         f.at = at /\ f.position = p /\ f.order = o /\ f.type = type /\ f.quantity = n
BY DEF Frame

(* The frame that stands for none concerns no order.                       *)
LEMMA NoFrameIs ==
  /\ NoFrame \in Frames /\ NoFrame.at = "none" /\ NoFrame.order = 0 /\ NoFrame.quantity = 0
BY DEF NoFrame, Callback, Frame, Frames, Types

(* The call of a callback is a frame.                                      *)
LEMMA CallbackIn ==
  ASSUME NEW name \in Callbacks, NEW p \in PositionIds \cup {0}
  PROVE  Callback(name, p) \in Frames /\ Callback(name, p).at = name
BY DEF Callback, Frame, Frames, Types

(* Nothing waits in a stack of callbacks.                                  *)
LEMMA PlainStack ==
  ASSUME NEW s \in Seq(Frames), Plain(s)
  PROVE  /\ Rest(s) = s /\ Event(s) = NoFrame /\ Caller(s) = s /\ Call(s) = NoFrame /\ Below(s) = s
         /\ ~Starts(s, {"onOrderUpdated"}) /\ ~Starts(s, {"notify"}) /\ ~Starts(s, {"register", "exit"})
<1>1. s # <<>> => Head(s).at \in Callbacks \ {"onOrderUpdated"}
  BY DEF Plain
<1>2. ~Starts(s, {"onOrderUpdated"}) /\ ~Starts(s, {"notify"}) /\ ~Starts(s, {"register", "exit"})
  BY <1>1 DEF Starts, Callbacks
<1>3. Rest(s) = s
  BY <1>2 DEF Rest
<1>4. Event(s) = NoFrame /\ Caller(s) = s
  BY <1>2, <1>3 DEF Event, Caller
<1>5. Call(s) = NoFrame /\ Below(s) = s
  BY <1>2, <1>4 DEF Call, Below
<1> QED BY <1>2, <1>3, <1>4, <1>5

(* A call waits on top of it.                                              *)
LEMMA CallStack ==
  ASSUME NEW s \in Seq(Frames), Plain(s), NEW c \in Frames, c.at \in {"register", "exit"},
         NEW t, t = <<c>> \o s
  PROVE  /\ t \in Seq(Frames) /\ Rest(t) = t /\ Event(t) = NoFrame /\ Caller(t) = t /\ Call(t) = c /\ Below(t) = s
         /\ ~Starts(t, {"onOrderUpdated"}) /\ ~Starts(t, {"notify"})
<1>1. t \in Seq(Frames) /\ t # <<>> /\ Head(t) = c /\ Tail(t) = s
  BY Cons
<1>2. ~Starts(t, {"onOrderUpdated"}) /\ ~Starts(t, {"notify"}) /\ Starts(t, {"register", "exit"})
  BY <1>1 DEF Starts
<1>3. Rest(t) = t
  BY <1>2 DEF Rest
<1>4. Event(t) = NoFrame /\ Caller(t) = t
  BY <1>2, <1>3 DEF Event, Caller
<1>5. Call(t) = c /\ Below(t) = s
  BY <1>1, <1>2, <1>4 DEF Call, Below
<1> QED BY <1>1, <1>2, <1>3, <1>4, <1>5

(* What the broker puts on top of a stack t when it announces an event.    *)
Announcing(o, type, n, t) == Handlers(o, type, n) \o t

(* The event then waits, and what waited below it still does.              *)
LEMMA EventStack ==
  ASSUME NEW t \in Seq(Frames), NEW o \in OrderIds, NEW type \in Types, NEW n \in Nat, NEW s,
         ~Starts(t, {"onOrderUpdated"}), ~Starts(t, {"notify"}), Plain(Below(t)),
         s = Announcing(o, type, n, t)
  PROVE  /\ s \in Seq(Frames) /\ Plain(Below(s)) /\ Starts(Rest(s), {"notify"})
         /\ Event(s) = Frame("notify", 0, o, type, n) /\ Call(s) = Call(t)
<1>1. PICK a \in Frames : a = Callback("onOrderUpdated", 0) /\ a.at = "onOrderUpdated"
  BY CallbackIn DEF Callbacks
<1>2. PICK b \in Frames : b = Frame("notify", 0, o, type, n) /\ b.at = "notify"
  <2>1. Frame("notify", 0, o, type, n) \in Frames
    BY DEF Frames, Frame
  <2> QED BY <2>1, FrameIs
<1>3. s = <<a>> \o (<<b>> \o t)
  <2>1. Handlers(o, type, n) = <<a, b>>
    BY <1>1, <1>2 DEF Handlers
  <2>2. <<a, b>> \o t = <<a>> \o (<<b>> \o t)
    BY TwoOnTop
  <2> QED BY <2>1, <2>2 DEF Announcing
<1>4. /\ <<b>> \o t \in Seq(Frames) /\ <<b>> \o t # <<>> /\ Head(<<b>> \o t) = b /\ Tail(<<b>> \o t) = t
  BY Cons
<1>5. /\ s \in Seq(Frames) /\ s # <<>> /\ Head(s) = a /\ Tail(s) = <<b>> \o t
  BY <1>3, <1>4, Cons
<1>6. Rest(s) = <<b>> \o t
  BY <1>1, <1>5 DEF Rest, Starts
<1>7. Starts(Rest(s), {"notify"})
  BY <1>2, <1>4, <1>6 DEF Starts
<1>8. Event(s) = b /\ Caller(s) = t
  BY <1>4, <1>6, <1>7 DEF Event, Caller
<1>9. Rest(t) = t
  BY DEF Rest
<1>10. Caller(t) = t
  BY <1>9 DEF Caller
<1>11. Call(s) = Call(t) /\ Below(s) = Below(t)
  BY <1>8, <1>10 DEF Call, Below
<1> QED BY <1>2, <1>5, <1>7, <1>8, <1>11

(* The stack without its top frame.                                        *)
LEMMA Popped ==
  ASSUME NEW s \in Seq(Frames), s # <<>>, Plain(Below(s)),
         Starts(s, {"onOrderUpdated"}) => Starts(Rest(s), {"notify"})
  PROVE  /\ Tail(s) \in Seq(Frames) /\ Head(s) \in Frames
         /\ Plain(Below(Tail(s))) /\ ~Starts(Tail(s), {"onOrderUpdated"})
         /\ Head(s).at = "onOrderUpdated" => Event(Tail(s)) = Event(s) /\ Call(Tail(s)) = Call(s)
         /\ Head(s).at = "notify" => Event(s) = Head(s) /\ Event(Tail(s)) = NoFrame /\ Call(Tail(s)) = Call(s)
         /\ Head(s).at \in {"register", "exit"} =>
              Event(s) = NoFrame /\ Call(s) = Head(s) /\ Plain(Tail(s))
         /\ Head(s).at \in Callbacks \ {"onOrderUpdated"} => Plain(s) /\ Plain(Tail(s))
<1>1. Tail(s) \in Seq(Frames) /\ Head(s) \in Frames
  OBVIOUS
<1>2. Head(s).at \in Callbacks \cup {"notify", "register", "exit", "none"}
  BY <1>1 DEF Frames
<1>3. CASE Head(s).at = "onOrderUpdated"
  <2>1. Starts(s, {"onOrderUpdated"}) /\ Rest(s) = Tail(s) /\ Starts(Tail(s), {"notify"})
    BY <1>3 DEF Starts, Rest
  <2>2. ~Starts(Tail(s), {"onOrderUpdated"})
    BY <2>1 DEF Starts
  <2>3. Rest(Tail(s)) = Rest(s)
    BY <2>1, <2>2 DEF Rest
  <2>4. Event(Tail(s)) = Event(s) /\ Caller(Tail(s)) = Caller(s)
    BY <2>3 DEF Event, Caller
  <2>5. Call(Tail(s)) = Call(s) /\ Below(Tail(s)) = Below(s)
    BY <2>4 DEF Call, Below
  <2> QED BY <1>1, <1>3, <2>2, <2>4, <2>5 DEF Callbacks
<1>4. CASE Head(s).at = "notify"
  <2>1. ~Starts(s, {"onOrderUpdated"}) /\ Rest(s) = s /\ Starts(s, {"notify"})
    BY <1>4 DEF Starts, Rest
  <2>2. Event(s) = Head(s) /\ Caller(s) = Tail(s)
    BY <2>1 DEF Event, Caller
  <2>3. ~Starts(Tail(s), {"onOrderUpdated"}) /\ ~Starts(Tail(s), {"notify"})
    <3>1. CASE Starts(Tail(s), {"register", "exit"})
      BY <3>1 DEF Starts
    <3>2. CASE ~Starts(Tail(s), {"register", "exit"})
      <4>1. Plain(Tail(s))
        BY <2>2, <3>2 DEF Below
      <4> QED BY <1>1, <4>1, PlainStack
    <3> QED BY <3>1, <3>2
  <2>4. Rest(Tail(s)) = Tail(s)
    BY <2>3 DEF Rest
  <2>5. Event(Tail(s)) = NoFrame /\ Caller(Tail(s)) = Tail(s)
    BY <2>3, <2>4 DEF Event, Caller
  <2>6. Call(Tail(s)) = Call(s) /\ Below(Tail(s)) = Below(s)
    BY <2>2, <2>5 DEF Call, Below
  <2> QED BY <1>1, <1>4, <2>2, <2>3, <2>5, <2>6 DEF Callbacks
<1>5. CASE Head(s).at \notin {"onOrderUpdated", "notify"}
  <2>1. ~Starts(s, {"onOrderUpdated"}) /\ ~Starts(s, {"notify"}) /\ Rest(s) = s
    BY <1>5 DEF Starts, Rest
  <2>2. Event(s) = NoFrame /\ Caller(s) = s
    BY <2>1 DEF Event, Caller
  <2>3. CASE Head(s).at \in {"register", "exit"}
    <3>1. Starts(s, {"register", "exit"})
      BY <2>3 DEF Starts
    <3>2. Call(s) = Head(s) /\ Plain(Tail(s))
      BY <2>2, <3>1 DEF Call, Below
    <3>3. ~Starts(Tail(s), {"onOrderUpdated"}) /\ Below(Tail(s)) = Tail(s)
      BY <1>1, <3>2, PlainStack
    <3> QED BY <1>1, <1>5, <2>2, <2>3, <3>2, <3>3 DEF Callbacks
  <2>4. CASE Head(s).at \notin {"register", "exit"}
    <3>1. Plain(s)
      BY <2>2, <2>4 DEF Below, Starts
    <3>2. Plain(Tail(s))
      BY <3>1 DEF Plain
    <3>3. ~Starts(Tail(s), {"onOrderUpdated"}) /\ Below(Tail(s)) = Tail(s)
      BY <1>1, <3>2, PlainStack
    <3> QED BY <1>1, <1>5, <2>4, <3>1, <3>2, <3>3 DEF Callbacks
  <2> QED BY <2>3, <2>4
<1> QED BY <1>3, <1>4, <1>5

-----------------------------------------------------------------------------
(* Orders and what positions know of them *)

(* The invariant holds before anything runs.                               *)
LEMMA InitIInv == Init => IInv
<1> SUFFICES ASSUME Init PROVE IInv
  OBVIOUS
<1>1. /\ state = [o \in OrderIds |-> "INITIAL"] /\ quantity = [o \in OrderIds |-> 0] /\ filled = [o \in OrderIds |-> 0]
  BY DEF Init, Broker!Init
<1>2. NoPosition \in PositionRecords
  BY DEF NoPosition, PositionRecords
<1>3. TypeOK
  BY <1>1, <1>2 DEF Init, TypeOK, Broker!States
<1>4. stack = <<>> /\ stack \in Seq(Frames) /\ Plain(stack)
  BY DEF Init, Plain
<1>5. StackOK /\ Event(stack) = NoFrame /\ Call(stack) = NoFrame
  BY <1>4, PlainStack DEF StackOK
<1>6. \A o \in OrderIds : owner[o] = 0
  BY DEF Init
<1>7. OrdersOK /\ EventOK(NoFrame, NoFrame) /\ CallOK(NoFrame, NoFrame)
  BY <1>1, <1>6, NoFrameIs DEF OrdersOK, EventOK, CallOK
<1>8. TablesOK(NoFrame, NoFrame)
  BY <1>6 DEF Init, TablesOK, KnownActive, NoPosition
<1>9. ASSUME NEW p \in PositionIds
      PROVE  HasOrders(p, NoFrame, NoFrame) /\ StateOK(p, NoFrame, NoFrame) /\ SharesOK(p, NoFrame)
  <2>1. OrdersOf(p) = {} /\ position[p] = NoPosition /\ heard[p] = <<>>
    BY <1>6, Zero DEF Init, OrdersOf
  <2>2. HasOrders(p, NoFrame, NoFrame)
    BY <2>1 DEF HasOrders, NoPosition
  <2>3. StateOK(p, NoFrame, NoFrame)
    BY <2>1 DEF StateOK, IsNone, NoPosition
  <2>4. SharesOK(p, NoFrame)
    BY <2>1, SumEmpty DEF SharesOK, NoPosition
  <2> QED BY <2>2, <2>3, <2>4
<1>10. Matches(NoFrame, NoFrame)
  BY <1>7, <1>8, <1>9 DEF Matches
<1> QED BY <1>3, <1>5, <1>10 DEF Init, IInv, Running

(* The broker changes one order, that is active.                           *)
LEMMA BrokerStep ==
  ASSUME TypeOK, OrdersOK, NEW o \in OrderIds, state[o] # "INITIAL",
         Broker!Accept(o) \/ Broker!Execute(o) \/ Broker!Cancel(o)
  PROVE  /\ state' \in [OrderIds -> Broker!States] /\ filled' \in [OrderIds -> Nat] /\ quantity' = quantity
         /\ state[o] \in {"SUBMITTED", "ACCEPTED", "PARTIALLY_FILLED"}
         /\ \A x \in OrderIds \ {o} : state'[x] = state[x] /\ filled'[x] = filled[x]
         /\ filled'[o] - filled[o] \in Nat
         /\ state'[o] \in {"ACCEPTED", "CANCELED", "PARTIALLY_FILLED", "FILLED"}
         /\ IF IsFill(state'[o]) THEN filled'[o] - filled[o] >= 1 ELSE filled'[o] = filled[o]
         /\ Broker!Accept(o) => state'[o] = "ACCEPTED"
         /\ Broker!Cancel(o) => state'[o] = "CANCELED"
         /\ owner' = owner => OrdersOK'
<1>1. /\ state \in [OrderIds -> Broker!States] /\ filled \in [OrderIds -> Nat] /\ quantity \in [OrderIds -> Nat]
      /\ filled[o] \in Nat /\ quantity[o] \in Nat
  BY DEF TypeOK
<1>2. /\ quantity[o] >= 1 /\ filled[o] <= quantity[o] /\ (state[o] = "FILLED" <=> filled[o] = quantity[o])
      /\ state[o] \in {"SUBMITTED", "ACCEPTED"} => filled[o] = 0
  BY DEF OrdersOK
<1>3. CASE Broker!Accept(o)
  <2>1. /\ state[o] = "SUBMITTED" /\ state' = [state EXCEPT ![o] = "ACCEPTED"]
        /\ quantity' = quantity /\ filled' = filled
    BY <1>1, <1>3 DEF Broker!Accept, Broker!SwitchState, Broker!ValidTransitions, Broker!States
  <2>2. owner' = owner => OrdersOK'
    BY <1>1, <1>2, <2>1 DEF OrdersOK
  <2>3. ~Broker!Cancel(o)
    BY <1>1, <2>1 DEF Broker!Cancel, Broker!SwitchState
  <2> QED BY <1>1, <2>1, <2>2, <2>3 DEF Broker!States, IsFill
<1>4. CASE Broker!Cancel(o)
  <2>1. /\ state[o] \in {"SUBMITTED", "ACCEPTED", "PARTIALLY_FILLED"} /\ state' = [state EXCEPT ![o] = "CANCELED"]
        /\ quantity' = quantity /\ filled' = filled
    BY <1>1, <1>4 DEF Broker!Cancel, Broker!SwitchState, Broker!ValidTransitions, Broker!States
  <2>2. owner' = owner => OrdersOK'
    BY <1>1, <1>2, <2>1 DEF OrdersOK
  <2>3. ~Broker!Accept(o)
    BY <1>1, <2>1 DEF Broker!Accept, Broker!SwitchState
  <2> QED BY <1>1, <2>1, <2>2, <2>3 DEF Broker!States, IsFill
<1>5. CASE Broker!Execute(o)
  <2>1. PICK n \in 1 .. quantity[o] - filled[o] :
          /\ Broker!SwitchState(o, IF n = quantity[o] - filled[o] THEN "FILLED" ELSE "PARTIALLY_FILLED")
          /\ filled' = [filled EXCEPT ![o] = @ + n] /\ quantity' = quantity
    BY <1>5 DEF Broker!Execute, Broker!Remaining
  <2>2. PICK new \in {"FILLED", "PARTIALLY_FILLED"} :
          /\ new = IF n = quantity[o] - filled[o] THEN "FILLED" ELSE "PARTIALLY_FILLED"
          /\ state[o] \in {"ACCEPTED", "PARTIALLY_FILLED"} /\ state' = [state EXCEPT ![o] = new]
    BY <1>1, <2>1 DEF Broker!SwitchState, Broker!ValidTransitions, Broker!States
  <2>3. n \in Nat /\ n >= 1 /\ filled'[o] = filled[o] + n /\ filled'[o] <= quantity[o]
        /\ filled'[o] - filled[o] = n /\ state'[o] = new
        /\ (new = "FILLED" <=> filled'[o] = quantity[o])
    BY <1>1, <1>2, <2>1, <2>2
  <2>4. owner' = owner => OrdersOK'
    BY <1>1, <1>2, <2>1, <2>2, <2>3 DEF OrdersOK
  <2>5. ~Broker!Accept(o) /\ ~Broker!Cancel(o)
    BY <1>1, <2>2, <2>3 DEF Broker!Accept, Broker!Cancel, Broker!SwitchState
  <2> QED BY <1>1, <2>1, <2>2, <2>3, <2>4, <2>5 DEF Broker!States, IsFill
<1> QED BY <1>3, <1>4, <1>5

(* A position of whose orders nothing is known that was not known before.  *)
LEMMA SameKnowledge ==
  ASSUME TypeOK, NEW p \in PositionIds, position'[p] = position[p], heard'[p] = heard[p],
         NEW e, NEW c, NEW e2, NEW c2,
         \A o \in OrderIds : owner'[o] = p <=> owner[o] = p,
         \A o \in OrdersOf(p) : /\ KnownActive(o, e2, c2)' <=> KnownActive(o, e, c)
                                /\ KnownFilled(o, e2)' = KnownFilled(o, e)
                                /\ quantity'[o] = quantity[o],
         c.order = c2.order \/ (c.order \notin OrdersOf(p) /\ c2.order \notin OrdersOf(p)),
         HasOrders(p, e, c), StateOK(p, e, c), SharesOK(p, e)
  PROVE  HasOrders(p, e2, c2)' /\ StateOK(p, e2, c2)' /\ SharesOK(p, e2)'
<1>1. OrdersOf(p)' = OrdersOf(p) /\ Held(p)' = Held(p)
  BY DEF OrdersOf, Held
<1>2. /\ position[p].entryOrder \in OrderIds \cup {0} /\ position[p].exitOrder \in OrderIds \cup {0}
      /\ ~KnownActive(0, e2, c2)' /\ ~KnownActive(0, e, c)
  BY Zero DEF TypeOK, PositionRecords, KnownActive
<1>3. /\ position[p].entryOrder # 0 => position[p].entryOrder \in OrdersOf(p)
      /\ position[p].exitOrder # 0 => position[p].exitOrder \in OrdersOf(p)
  BY <1>2 DEF HasOrders, OrdersOf
<1>4. HasOrders(p, e2, c2)'
  BY <1>1, <1>2, <1>3 DEF HasOrders, OrdersOf
<1>5. StateOK(p, e2, c2)'
  <2>1. IsNone(p) => IsNone(p)'
    BY <1>1 DEF IsNone
  <2>2. IsWaiting(p, e, c) => IsWaiting(p, e2, c2)'
    BY <1>1, <1>3 DEF IsWaiting
  <2>3. IsOpen(p, e, c) => IsOpen(p, e2, c2)'
    BY <1>1, <1>2, <1>3 DEF IsOpen, OrdersOf
  <2>4. IsClosed(p, e, c) => IsClosed(p, e2, c2)'
    BY <1>1 DEF IsClosed
  <2> QED BY <2>1, <2>2, <2>3, <2>4 DEF StateOK
<1>6. SharesOK(p, e2)'
  <2>1. IsFiniteSet(OrdersOf(p))
    BY Zero, FS_Subset DEF OrdersOf
  <2>2. PICK f : f = KnownFilledBy(p, e)
    OBVIOUS
  <2>3. PICK g : g = KnownFilledBy(p, e2)'
    OBVIOUS
  <2>4. \A o \in OrdersOf(p) : f[o] = g[o]
    BY <2>2, <2>3 DEF KnownFilledBy, OrdersOf
  <2>5. SumFunctionOnSet(f, OrdersOf(p)) = SumFunctionOnSet(g, OrdersOf(p))
    BY <2>1, <2>4, SumEqual
  <2> QED BY <1>1, <2>2, <2>3, <2>5 DEF SharesOK
<1> QED BY <1>4, <1>5, <1>6

(* An event starts: something happened to an active order, and positions   *)
(* do not know it yet.                                                     *)
LEMMA Announced ==
  ASSUME TypeOK, Matches(NoFrame, NoFrame), NEW o \in OrderIds, state[o] # "INITIAL",
         Broker!Accept(o) \/ Broker!Execute(o) \/ Broker!Cancel(o),
         UNCHANGED <<position, links, owner, heard>>,
         NEW e, e = Frame("notify", 0, o, state'[o], filled'[o] - filled[o]),
         NEW c, c.order = 0, c.at # "register", CallOK(e, c)', c = NoFrame \/ c.at = "exit"
  PROVE  Matches(e, c)'
<1>1. OrdersOK /\ TablesOK(NoFrame, NoFrame)
      /\ \A p \in PositionIds : HasOrders(p, NoFrame, NoFrame) /\ StateOK(p, NoFrame, NoFrame) /\ SharesOK(p, NoFrame)
  BY DEF Matches
<1>2. PICK n \in Nat, new \in {"ACCEPTED", "CANCELED", "PARTIALLY_FILLED", "FILLED"} :
         /\ n = filled'[o] - filled[o] /\ new = state'[o]
         /\ IF IsFill(new) THEN n >= 1 ELSE n = 0
  <2>1. filled'[o] - filled[o] \in Nat /\ state'[o] \in {"ACCEPTED", "CANCELED", "PARTIALLY_FILLED", "FILLED"}
        /\ IF IsFill(state'[o]) THEN filled'[o] - filled[o] >= 1 ELSE filled'[o] = filled[o]
    BY <1>1, BrokerStep
  <2>2. filled[o] \in Nat
    BY DEF TypeOK
  <2> QED BY <2>1, <2>2
<1>3. /\ filled' \in [OrderIds -> Nat] /\ quantity' = quantity
      /\ state[o] \in {"SUBMITTED", "ACCEPTED", "PARTIALLY_FILLED"}
      /\ \A x \in OrderIds \ {o} : state'[x] = state[x] /\ filled'[x] = filled[x]
      /\ OrdersOK'
  BY <1>1, BrokerStep
<1>4. /\ e.at = "notify" /\ e.order = o /\ e.type = new /\ e.quantity = n
      /\ NoFrame.order = 0 /\ NoFrame.quantity = 0 /\ o # 0 /\ filled[o] \in Nat /\ filled'[o] \in Nat /\ owner[o] # 0
  BY <1>1, <1>2, <1>3, FrameIs, NoFrameIs, Zero DEF TypeOK, OrdersOK
<1>5. \A x : KnownActive(x, e, c)' <=> KnownActive(x, NoFrame, NoFrame)
  <2>1. IsActive(o)
    BY <1>3, <1>4 DEF IsActive
  <2>2. ASSUME NEW x \in OrderIds, x # o PROVE IsActive(x)' <=> IsActive(x)
    BY <1>3, <2>2 DEF IsActive
  <2> QED BY <1>4, <2>1, <2>2, Zero DEF KnownActive
<1>6. \A x \in OrderIds : KnownFilled(x, e)' = KnownFilled(x, NoFrame)
  <2>1. KnownFilled(o, e)' = filled'[o] - n /\ KnownFilled(o, NoFrame) = filled[o]
    BY <1>4 DEF KnownFilled
  <2>2. filled'[o] - n = filled[o]
    BY <1>2, <1>4
  <2>3. ASSUME NEW x \in OrderIds, x # o PROVE KnownFilled(x, e)' = KnownFilled(x, NoFrame)
    BY <1>3, <1>4, <2>3, Zero DEF KnownFilled
  <2> QED BY <2>1, <2>2, <2>3
<1>7. EventOK(e, c)'
  <2>1. n <= filled'[o]
    BY <1>2, <1>4
  <2> QED BY <1>2, <1>4, <2>1 DEF EventOK
<1>8. TablesOK(e, c)'
  BY <1>1, <1>5 DEF TablesOK, links
<1>9. ASSUME NEW p \in PositionIds PROVE HasOrders(p, e, c)' /\ StateOK(p, e, c)' /\ SharesOK(p, e)'
  <2>1. \A x \in OrderIds : owner'[x] = p <=> owner[x] = p
    OBVIOUS
  <2>2. \A x \in OrdersOf(p) : /\ KnownActive(x, e, c)' <=> KnownActive(x, NoFrame, NoFrame)
                               /\ KnownFilled(x, e)' = KnownFilled(x, NoFrame)
                               /\ quantity'[x] = quantity[x]
    BY <1>3, <1>5, <1>6 DEF OrdersOf
  <2>3. NoFrame.order = c.order
    BY <1>4
  <2> QED BY <1>1, <2>1, <2>2, <2>3, SameKnowledge
<1> QED BY <1>3, <1>7, <1>8, <1>9 DEF Matches

(* An order is submitted: by the constructor of a position, or to exit a   *)
(* position none of whose orders is active.                                *)
LEMMA Submitted ==
  ASSUME TypeOK, NEW c0, Matches(NoFrame, c0), c0.order = 0,
         NEW p \in PositionIds, NEW n \in Nat, n >= 1, NEW rest, SubmitOrder(p, n, rest),
         UNCHANGED <<links, heard>>,
         \/ /\ position[p].state = "None"
            /\ \E side \in {1, -1} :
                 position' = [position EXCEPT ![p] = [NoPosition EXCEPT !.state = "WaitingEntry", !.side = side]]
         \/ /\ position' = position /\ position[p].state = "Open" /\ n = Held(p)
            /\ ~IsActive(position[p].entryOrder) /\ ~IsActive(position[p].exitOrder),
         NEW e, e = Frame("notify", 0, NextOrder, "SUBMITTED", 0),
         NEW c, c = Frame("register", p, NextOrder, "NONE", 0)
  PROVE  Matches(e, c)'
<1>1. OrdersOK /\ TablesOK(NoFrame, c0)
      /\ \A q \in PositionIds : HasOrders(q, NoFrame, c0) /\ StateOK(q, NoFrame, c0) /\ SharesOK(q, NoFrame)
  BY DEF Matches
<1>2. PICK o \in OrderIds : o = NextOrder
  BY DEF SubmitOrder
<1>3. /\ state \in [OrderIds -> Broker!States] /\ quantity \in [OrderIds -> Nat] /\ filled \in [OrderIds -> Nat]
      /\ owner \in [OrderIds -> PositionIds \cup {0}] /\ position \in [PositionIds -> PositionRecords]
  BY DEF TypeOK
<1>4. /\ state[o] = "INITIAL" /\ state' = [state EXCEPT ![o] = "SUBMITTED"]
      /\ quantity' = [quantity EXCEPT ![o] = n] /\ filled' = filled
      /\ owner' = [owner EXCEPT ![o] = p]
  BY <1>2, <1>3 DEF SubmitOrder, Broker!SwitchState, Broker!ValidTransitions, Broker!States
<1>5. /\ o # 0 /\ owner[o] = 0 /\ filled[o] = 0 /\ p # 0
      /\ owner'[o] = p /\ state'[o] = "SUBMITTED" /\ quantity'[o] = n
      /\ \A x \in OrderIds \ {o} : state'[x] = state[x] /\ quantity'[x] = quantity[x] /\ owner'[x] = owner[x]
  BY <1>1, <1>3, <1>4, Zero DEF OrdersOK
<1>6. /\ e.at = "notify" /\ e.order = o /\ e.type = "SUBMITTED" /\ e.quantity = 0
      /\ c.at = "register" /\ c.position = p /\ c.order = o
      /\ NoFrame.order = 0 /\ NoFrame.quantity = 0 /\ c # NoFrame
  BY <1>2, FrameIs, NoFrameIs
<1>7. OrdersOK'
  BY <1>1, <1>3, <1>4, <1>5 DEF OrdersOK
<1>8. EventOK(e, c)' /\ CallOK(e, c)'
  BY <1>3, <1>4, <1>5, <1>6 DEF EventOK, CallOK, IsFill
<1>9. \A x : KnownActive(x, e, c)' <=> KnownActive(x, NoFrame, c0)
  <2>1. ASSUME NEW x \in OrderIds, x # o PROVE IsActive(x)' <=> IsActive(x)
    BY <1>5, <2>1 DEF IsActive
  <2>2. ~KnownActive(o, NoFrame, c0) /\ ~KnownActive(o, e, c)'
    BY <1>5, <1>6 DEF KnownActive
  <2>3. ASSUME NEW x \in OrderIds, x # o PROVE KnownActive(x, e, c)' <=> KnownActive(x, NoFrame, c0)
    <3>1. owner'[x] = owner[x] /\ x # 0
      BY <1>5, <2>3, Zero
    <3> QED BY <1>6, <2>1, <2>3, <3>1 DEF KnownActive
  <2> QED BY <2>2, <2>3 DEF KnownActive
<1>10. \A x \in OrderIds : KnownFilled(x, e)' = KnownFilled(x, NoFrame)
  BY <1>3, <1>4, <1>6, Zero DEF KnownFilled
<1>11. \A q \in PositionIds \ {p} : position'[q] = position[q]
  BY <1>3
<1>12. ASSUME NEW q \in PositionIds, q # p PROVE HasOrders(q, e, c)' /\ StateOK(q, e, c)' /\ SharesOK(q, e)'
  <2>1. \A x \in OrderIds : owner'[x] = q <=> owner[x] = q
    BY <1>5, <1>12, Zero
  <2>2. \A x \in OrdersOf(q) : /\ KnownActive(x, e, c)' <=> KnownActive(x, NoFrame, c0)
                               /\ KnownFilled(x, e)' = KnownFilled(x, NoFrame)
                               /\ quantity'[x] = quantity[x]
    BY <1>5, <1>9, <1>10, <1>12, Zero DEF OrdersOf
  <2>3. c0.order \notin OrdersOf(q) /\ c.order \notin OrdersOf(q)
    BY <1>5, <1>6, <1>12, Zero DEF OrdersOf
  <2>4. position'[q] = position[q] /\ heard'[q] = heard[q]
    BY <1>11, <1>12
  <2> QED BY <1>1, <2>1, <2>2, <2>3, <2>4, SameKnowledge
<1>13. OrdersOf(p)' = OrdersOf(p) \cup {o} /\ o \notin OrdersOf(p)
  BY <1>5, Zero DEF OrdersOf
<1>14. CASE /\ position[p].state = "None"
            /\ \E side \in {1, -1} :
                 position' = [position EXCEPT ![p] = [NoPosition EXCEPT !.state = "WaitingEntry", !.side = side]]
  <2>1. /\ position'[p].state = "WaitingEntry" /\ position'[p].shares = 0 /\ position'[p].entryOrder = 0
        /\ position'[p].exitOrder = 0 /\ position'[p].activeOrders = {}
    BY <1>3, <1>14 DEF NoPosition
  <2>2. OrdersOf(p) = {} /\ heard[p] = <<>> /\ position[p] = NoPosition
    BY <1>1, <1>14 DEF StateOK, IsNone
  <2>3. HasOrders(p, e, c)'
    BY <1>6, <1>13, <2>1, <2>2 DEF HasOrders, KnownActive
  <2>4. StateOK(p, e, c)'
    BY <1>6, <1>13, <2>1, <2>2 DEF StateOK, IsWaiting
  <2>5. SharesOK(p, e)'
    <3>1. PICK g : g = KnownFilledBy(p, e)'
      OBVIOUS
    <3>2. g[o] = 0
      <4>1. PICK k \in Int : k = KnownFilled(o, e)' /\ k = 0
        BY <1>4, <1>5, <1>6 DEF KnownFilled
      <4>2. g[o] = k \/ g[o] = -k
        BY <4>1, <3>1 DEF KnownFilledBy
      <4> QED BY <4>1, <4>2
    <3>3. IsFiniteSet({o}) /\ \A x \in {o} : g[x] = 0
      BY <3>2, FS_Singleton
    <3>4. SumFunctionOnSet(g, {o}) = 0
      BY <3>3, SumZero
    <3>5. position'[p].side \in {1, -1}
      BY <1>3, <1>14 DEF NoPosition
    <3>6. position'[p].side * 0 = 0
      BY <3>5
    <3> QED BY <1>13, <2>1, <2>2, <3>1, <3>4, <3>6 DEF SharesOK
  <2>6. TablesOK(e, c)'
    <3>1. position[p].entryOrder = 0
      BY <2>2 DEF NoPosition
    <3>2. \A q \in PositionIds : (position'[q].state \in {"WaitingEntry", "Open"} /\ position'[q].entryOrder # 0)
                                 <=> (position[q].state \in {"WaitingEntry", "Open"} /\ position[q].entryOrder # 0)
      BY <1>11, <2>1, <3>1
    <3>3. activePositions' = activePositions /\ orderToPosition' = orderToPosition
      BY DEF links
    <3>4. \A x \in OrderIds : KnownActive(x, e, c)' => owner'[x] = owner[x]
      BY <1>5, <1>6 DEF KnownActive
    <3> QED BY <1>1, <1>9, <3>2, <3>3, <3>4 DEF TablesOK
  <2> QED BY <1>7, <1>8, <1>12, <2>3, <2>4, <2>5, <2>6 DEF Matches
<1>15. CASE /\ position' = position /\ position[p].state = "Open" /\ n = Held(p)
            /\ ~IsActive(position[p].entryOrder) /\ ~IsActive(position[p].exitOrder)
  <2>1. HasOrders(p, NoFrame, c0) /\ IsOpen(p, NoFrame, c0) /\ SharesOK(p, NoFrame)
    BY <1>1, <1>15 DEF StateOK
  <2>2. ~KnownActive(position[p].entryOrder, NoFrame, c0) /\ ~KnownActive(position[p].exitOrder, NoFrame, c0)
    BY <1>6, <1>15, Zero DEF KnownActive
  <2>3. position[p].activeOrders = {}
    BY <2>1, <2>2 DEF HasOrders
  <2>4. position[p].entryOrder # o /\ position[p].exitOrder # o
    BY <1>5, <2>1, Zero DEF HasOrders
  <2>5. position[p].entryOrder \in OrderIds \cup {0} /\ position[p].exitOrder \in OrderIds \cup {0}
    BY <1>3 DEF PositionRecords
  <2>6. \A x \in OrdersOf(p) \cup {o} : ~KnownActive(x, e, c)'
    <3>1. ~KnownActive(o, e, c)'
      BY <1>6 DEF KnownActive
    <3>2. \A x \in OrdersOf(p) : ~KnownActive(x, NoFrame, c0)
      BY <2>1, <2>2 DEF HasOrders
    <3> QED BY <1>9, <3>1, <3>2
  <2>7. HasOrders(p, e, c)'
    <3>1. /\ position[p].entryOrder # 0 => owner'[position[p].entryOrder] = p
          /\ position[p].exitOrder # 0 => owner'[position[p].exitOrder] = p /\ position[p].exitOrder # position[p].entryOrder
      BY <1>5, <2>1, <2>4, <2>5 DEF HasOrders
    <3> QED BY <1>6, <1>13, <1>15, <2>3, <2>4, <2>6, <3>1 DEF HasOrders
  <2>8. StateOK(p, e, c)'
    <3>1. Held(p)' = Held(p)
      BY <1>15 DEF Held
    <3>2. IsOpen(p, e, c)'
      BY <1>5, <1>6, <1>9, <1>13, <1>15, <2>1, <2>2, <2>3, <3>1 DEF IsOpen
    <3> QED BY <1>15, <3>2 DEF StateOK
  <2>9. SharesOK(p, e)'
    <3>1. PICK f : f = KnownFilledBy(p, NoFrame)
      OBVIOUS
    <3>2. PICK g : g = KnownFilledBy(p, e)'
      OBVIOUS
    <3>3. \A x \in OrderIds : f[x] = g[x] /\ f[x] \in Int
      BY <1>3, <1>6, <1>10, <1>15, <3>1, <3>2, Zero DEF KnownFilledBy, KnownFilled
    <3>4. g[o] = 0
      <4>1. PICK k \in Int : k = KnownFilled(o, e)' /\ k = 0
        BY <1>4, <1>5, <1>6 DEF KnownFilled
      <4>2. g[o] = k \/ g[o] = -k
        BY <4>1, <3>2 DEF KnownFilledBy
      <4> QED BY <4>1, <4>2
    <3>5. IsFiniteSet(OrdersOf(p)) /\ OrdersOf(p) \subseteq OrderIds
      BY Zero, FS_Subset DEF OrdersOf
    <3>6. SumFunctionOnSet(f, OrdersOf(p)) = SumFunctionOnSet(g, OrdersOf(p)) /\ SumFunctionOnSet(g, OrdersOf(p)) \in Int
      <4>1. \A x \in OrdersOf(p) : f[x] = g[x] /\ g[x] \in Int
        BY <3>3, <3>5
      <4> QED BY <3>5, <4>1, SumEqual, SumType
    <3>7. SumFunctionOnSet(g, OrdersOf(p) \cup {o}) = SumFunctionOnSet(g, OrdersOf(p)) + g[o]
      <4>1. \A x \in OrdersOf(p) \cup {o} : g[x] \in Int
        BY <3>3, <3>5
      <4> QED BY <1>13, <3>5, <4>1, SumAdd
    <3>8. SumFunctionOnSet(g, OrdersOf(p) \cup {o}) = SumFunctionOnSet(f, OrdersOf(p))
      BY <3>4, <3>6, <3>7
    <3> QED BY <1>13, <1>15, <2>1, <3>1, <3>2, <3>8 DEF SharesOK
  <2>10. TablesOK(e, c)'
    <3>1. activePositions' = activePositions /\ orderToPosition' = orderToPosition
      BY DEF links
    <3>2. \A x \in OrderIds : KnownActive(x, e, c)' => owner'[x] = owner[x]
      BY <1>5, <1>6 DEF KnownActive
    <3> QED BY <1>1, <1>9, <1>15, <3>1, <3>2 DEF TablesOK
  <2> QED BY <1>7, <1>8, <1>12, <2>7, <2>8, <2>9, <2>10 DEF Matches
<1> QED BY <1>14, <1>15

(* The order of a call becomes the entry or the exit order.                *)
LEMMA Registered ==
  ASSUME TypeOK, NEW c, c.at = "register", Matches(NoFrame, c), NEW o \in OrderIds, o = c.order,
         NEW p \in PositionIds, p = c.position,
         position' = [position EXCEPT
               ![p].activeOrders = @ \cup {o},
               ![p].entryOrder = IF position[p].entryOrder = 0 THEN o ELSE @,
               ![p].exitOrder = IF position[p].entryOrder = 0 THEN @ ELSE o],
         activePositions' = activePositions \cup {p},
         orderToPosition' = [orderToPosition EXCEPT ![o] = p],
         UNCHANGED <<order, owner, heard>>
  PROVE  Matches(NoFrame, NoFrame)'
<1>1. OrdersOK /\ TablesOK(NoFrame, c) /\ CallOK(NoFrame, c)
      /\ \A q \in PositionIds : HasOrders(q, NoFrame, c) /\ StateOK(q, NoFrame, c) /\ SharesOK(q, NoFrame)
  BY DEF Matches
<1>2. /\ state \in [OrderIds -> Broker!States] /\ quantity \in [OrderIds -> Nat] /\ filled \in [OrderIds -> Nat]
      /\ owner \in [OrderIds -> PositionIds \cup {0}] /\ position \in [PositionIds -> PositionRecords]
      /\ orderToPosition \in [OrderIds -> PositionIds \cup {0}] /\ UNCHANGED <<state, quantity, filled>>
  BY DEF TypeOK, order
<1>3. /\ owner[o] = p /\ state[o] = "SUBMITTED" /\ filled[o] = 0 /\ o # 0 /\ p # 0 /\ IsActive(o) /\ quantity[o] \in Nat
      /\ NoFrame.order = 0 /\ NoFrame.quantity = 0
  BY <1>1, <1>2, Zero, NoFrameIs DEF CallOK, OrdersOK, IsActive
<1>4. /\ \A q \in PositionIds \ {p} : position'[q] = position[q]
      /\ position'[p].state = position[p].state /\ position'[p].shares = position[p].shares
      /\ position'[p].side = position[p].side
      /\ position'[p].activeOrders = position[p].activeOrders \cup {o}
      /\ position'[p].entryOrder = (IF position[p].entryOrder = 0 THEN o ELSE position[p].entryOrder)
      /\ position'[p].exitOrder = (IF position[p].entryOrder = 0 THEN position[p].exitOrder ELSE o)
  <2>1. PICK r \in PositionRecords : r = position[p]
    BY <1>2
  <2>2. position'[p] = [r EXCEPT !.activeOrders = r.activeOrders \cup {o},
                                 !.entryOrder = IF r.entryOrder = 0 THEN o ELSE r.entryOrder,
                                 !.exitOrder = IF r.entryOrder = 0 THEN r.exitOrder ELSE o]
    BY <1>2, <2>1
  <2>3. \A q \in PositionIds \ {p} : position'[q] = position[q]
    BY <1>2
  <2>4. /\ position'[p].state = r.state /\ position'[p].shares = r.shares /\ position'[p].side = r.side
        /\ position'[p].activeOrders = r.activeOrders \cup {o}
        /\ position'[p].entryOrder = (IF r.entryOrder = 0 THEN o ELSE r.entryOrder)
        /\ position'[p].exitOrder = (IF r.entryOrder = 0 THEN r.exitOrder ELSE o)
    BY ONLY <2>2, r \in PositionRecords DEF PositionRecords
  <2> QED BY <2>1, <2>3, <2>4
<1>5. /\ \A x : KnownActive(x, NoFrame, NoFrame)' <=> x = o \/ KnownActive(x, NoFrame, c)
      /\ ~KnownActive(o, NoFrame, c) /\ KnownActive(o, NoFrame, NoFrame)'
  <2>1. \A x : IsActive(x)' <=> IsActive(x)
    BY <1>2 DEF IsActive
  <2> QED BY <1>3, <2>1, Zero DEF KnownActive
<1>6. \A x \in OrderIds : KnownFilled(x, NoFrame)' = KnownFilled(x, NoFrame)
  BY <1>2 DEF KnownFilled
<1>7. OrdersOK' /\ EventOK(NoFrame, NoFrame)' /\ CallOK(NoFrame, NoFrame)'
  BY <1>1, <1>2, NoFrameIs DEF OrdersOK, EventOK, CallOK
<1>8. ASSUME NEW q \in PositionIds, q # p
      PROVE HasOrders(q, NoFrame, NoFrame)' /\ StateOK(q, NoFrame, NoFrame)' /\ SharesOK(q, NoFrame)'
  <2>1. \A x \in OrderIds : owner'[x] = q <=> owner[x] = q
    OBVIOUS
  <2>2. \A x \in OrdersOf(q) : /\ KnownActive(x, NoFrame, NoFrame)' <=> KnownActive(x, NoFrame, c)
                               /\ KnownFilled(x, NoFrame)' = KnownFilled(x, NoFrame)
                               /\ quantity'[x] = quantity[x]
    BY <1>2, <1>3, <1>5, <1>6, <1>8 DEF OrdersOf
  <2>3. c.order \notin OrdersOf(q) /\ NoFrame.order \notin OrdersOf(q)
    BY <1>3, <1>8, Zero DEF OrdersOf
  <2>4. position'[q] = position[q] /\ heard'[q] = heard[q]
    BY <1>4, <1>8
  <2> QED BY <1>1, <2>1, <2>2, <2>3, <2>4, SameKnowledge
<1>9. o \in OrdersOf(p) /\ OrdersOf(p)' = OrdersOf(p) /\ Held(p)' = Held(p)
  BY <1>3, <1>4 DEF OrdersOf, Held
<1>10. /\ position[p].state \in {"None", "WaitingEntry", "Open", "Closed"}
       /\ HasOrders(p, NoFrame, c) /\ StateOK(p, NoFrame, c) /\ SharesOK(p, NoFrame)
       /\ position[p].entryOrder \in OrderIds \cup {0} /\ position[p].exitOrder \in OrderIds \cup {0}
       /\ position[p].side \in {1, -1}
  BY <1>1, <1>2 DEF PositionRecords
<1>11. \/ /\ position[p].state = "WaitingEntry" /\ position[p].entryOrder = 0 /\ IsWaiting(p, NoFrame, c)
       \/ /\ position[p].state = "Open" /\ position[p].entryOrder # 0 /\ IsOpen(p, NoFrame, c)
  <2>1. position[p].state # "None" /\ position[p].state # "Closed"
    BY <1>9, <1>10 DEF StateOK, IsNone, IsClosed
  <2>2. position[p].state = "WaitingEntry" /\ position[p].entryOrder # 0 => FALSE
    <3>1. position[p].entryOrder # o
      BY <1>10, <1>3 DEF HasOrders
    <3> QED BY <1>9, <1>10, <3>1 DEF StateOK, IsWaiting
  <2> QED BY <1>10, <2>1, <2>2 DEF StateOK, IsOpen
<1>12. HasOrders(p, NoFrame, NoFrame)'
  <2>1. position'[p].activeOrders = {x \in OrdersOf(p)' : KnownActive(x, NoFrame, NoFrame)'}
    <3>1. position[p].activeOrders = {x \in OrdersOf(p) : KnownActive(x, NoFrame, c)}
      BY <1>10 DEF HasOrders
    <3>2. position[p].activeOrders \cup {o} = {x \in OrdersOf(p) : KnownActive(x, NoFrame, NoFrame)'}
      BY <1>5, <1>9, <3>1
    <3> QED BY <1>4, <1>9, <3>2
  <2>2. /\ position'[p].entryOrder # 0 => owner'[position'[p].entryOrder] = p /\ position'[p].entryOrder # NoFrame.order
        /\ position'[p].exitOrder # 0 => /\ owner'[position'[p].exitOrder] = p /\ position'[p].exitOrder # NoFrame.order
                                         /\ position'[p].exitOrder # position'[p].entryOrder
    BY ZenonT(60), <1>3, <1>4, <1>10, <1>11 DEF HasOrders, IsWaiting
  <2>3. \A x \in OrdersOf(p)' : KnownActive(x, NoFrame, NoFrame)' => x \in {position'[p].entryOrder, position'[p].exitOrder}
    <3>1. CASE position[p].entryOrder = 0
      <4>1. OrdersOf(p) = {o} /\ position'[p].entryOrder = o
        BY <1>3, <1>4, <1>11, <3>1 DEF IsWaiting
      <4> QED BY <1>9, <4>1
    <3>2. CASE position[p].entryOrder # 0
      <4>1. \A x \in OrdersOf(p) : ~KnownActive(x, NoFrame, c)
        BY <1>9, <1>10, <1>11, <3>2 DEF IsOpen, HasOrders
      <4> QED BY <1>4, <1>5, <1>9, <3>2, <4>1
    <3> QED BY <3>1, <3>2
  <2> QED BY <2>1, <2>2, <2>3 DEF HasOrders
<1>13. StateOK(p, NoFrame, NoFrame)'
  <2>1. CASE position[p].entryOrder = 0
    <3>1. KnownFilled(o, NoFrame)' = 0
      BY <1>2, <1>3 DEF KnownFilled
    <3>2. position'[p].shares = 0 /\ position'[p].exitOrder = 0 /\ heard'[p] = <<>>
      BY <1>4, <1>11, <2>1 DEF IsWaiting
    <3>3. OrdersOf(p)' = {o} /\ position'[p].entryOrder = o
      BY <1>3, <1>4, <1>9, <1>11, <2>1 DEF IsWaiting
    <3>4. KnownActive(o, NoFrame, NoFrame)'
      BY <1>5, <1>9
    <3>5. IsWaiting(p, NoFrame, NoFrame)'
      BY <1>3, <3>1, <3>2, <3>3, <3>4 DEF IsWaiting
    <3> QED BY <1>4, <1>11, <2>1, <3>5 DEF StateOK
  <2>2. CASE position[p].entryOrder # 0
    <3>1. \A x \in OrdersOf(p) : ~KnownActive(x, NoFrame, c)
      BY <1>9, <1>10, <1>11, <2>2 DEF IsOpen, HasOrders
    <3>2. ~KnownActive(position[p].entryOrder, NoFrame, NoFrame)'
      <4>1. owner[position[p].entryOrder] = p /\ position[p].entryOrder # c.order
        BY <1>10, <2>2 DEF HasOrders
      <4>2. position[p].entryOrder # o /\ position[p].entryOrder \in OrdersOf(p)
        BY <1>10, <2>2, <4>1 DEF OrdersOf
      <4>3. PICK x \in OrdersOf(p) : x = position[p].entryOrder /\ x # o /\ x = position'[p].entryOrder
        BY <1>4, <2>2, <4>2
      <4>4. ~KnownActive(x, NoFrame, NoFrame)'
        BY <1>5, <3>1, <4>3
      <4> QED BY <4>3, <4>4
    <3>3. Held(p) = quantity[o] /\ KnownFilled(o, NoFrame)' = 0
      BY <1>2, <1>3, <1>9, <1>11, <2>2 DEF IsOpen, KnownFilled
    <3>4. Held(p)' = quantity'[o] - KnownFilled(o, NoFrame)'
      BY <1>2, <1>3, <1>9, <3>3
    <3>5. NoFrame.order \notin OrdersOf(p)'
      BY <1>3, Zero DEF OrdersOf
    <3>6. position'[p].entryOrder = position[p].entryOrder /\ position'[p].exitOrder = o
      BY <1>4, <2>2
    <3>7. position'[p].entryOrder # 0 /\ Held(p)' >= 1 /\ HeardOpen(heard[p])'
      BY <1>9, <1>11, <2>2, <3>6 DEF IsOpen, HeardOpen
    <3>8. IsOpen(p, NoFrame, NoFrame)'
      BY <3>2, <3>4, <3>5, <3>6, <3>7 DEF IsOpen
    <3> QED BY <1>4, <1>11, <2>2, <3>8 DEF StateOK
  <2> QED BY <2>1, <2>2
<1>14. SharesOK(p, NoFrame)'
  <2>1. PICK f : f = KnownFilledBy(p, NoFrame)
    OBVIOUS
  <2>2. PICK g : g = KnownFilledBy(p, NoFrame)'
    OBVIOUS
  <2>3. \A x \in OrdersOf(p) : f[x] = g[x]
    <3>1. CASE position[p].entryOrder = 0
      <4>1. OrdersOf(p) = {o}
        BY <1>11, <1>3, <3>1 DEF IsWaiting
      <4>2. PICK k \in Int : k = KnownFilled(o, NoFrame) /\ k = 0 /\ k = KnownFilled(o, NoFrame)'
        BY <1>2, <1>3 DEF KnownFilled
      <4>3. f[o] \in {k, -k} /\ g[o] \in {k, -k}
        BY <2>1, <2>2, <4>2 DEF KnownFilledBy
      <4> QED BY <4>1, <4>2, <4>3
    <3>2. CASE position[p].entryOrder # 0
      <4>1. position'[p].entryOrder = position[p].entryOrder
        BY <1>4, <3>2
      <4> SUFFICES ASSUME NEW x \in OrdersOf(p) PROVE f[x] = g[x]
        OBVIOUS
      <4>2. x \in OrderIds
        BY DEF OrdersOf
      <4>3. f[x] = IF x = position[p].entryOrder THEN KnownFilled(x, NoFrame) ELSE -KnownFilled(x, NoFrame)
        BY <2>1, <4>2 DEF KnownFilledBy
      <4>4. g[x] = IF x = position'[p].entryOrder THEN KnownFilled(x, NoFrame)' ELSE -KnownFilled(x, NoFrame)'
        BY <2>2, <4>2 DEF KnownFilledBy
      <4>5. KnownFilled(x, NoFrame)' = KnownFilled(x, NoFrame)
        BY <1>6, <4>2
      <4> QED BY <4>1, <4>3, <4>4, <4>5
    <3> QED BY <3>1, <3>2
  <2>4. IsFiniteSet(OrdersOf(p))
    BY Zero, FS_Subset DEF OrdersOf
  <2>5. SumFunctionOnSet(f, OrdersOf(p)) = SumFunctionOnSet(g, OrdersOf(p))
    BY <2>3, <2>4, SumEqual
  <2> QED BY <1>4, <1>9, <1>10, <2>1, <2>2, <2>5 DEF SharesOK
<1>15. TablesOK(NoFrame, NoFrame)'
  <2>1. activePositions' = {q \in PositionIds : position'[q].state \in {"WaitingEntry", "Open"} /\ position'[q].entryOrder # 0}
    <3>1. position'[p].state \in {"WaitingEntry", "Open"} /\ position'[p].entryOrder # 0
      BY <1>3, <1>4, <1>11
    <3>2. \A q \in PositionIds \ {p} : q \in activePositions' <=>
            position'[q].state \in {"WaitingEntry", "Open"} /\ position'[q].entryOrder # 0
      BY <1>1, <1>4 DEF TablesOK
    <3>3. activePositions' \subseteq PositionIds /\ p \in activePositions'
      BY DEF TypeOK
    <3> QED BY <3>1, <3>2, <3>3
  <2>2. \A x \in OrderIds : orderToPosition'[x] = IF KnownActive(x, NoFrame, NoFrame)' THEN owner'[x] ELSE 0
    BY <1>1, <1>2, <1>3, <1>5 DEF TablesOK
  <2> QED BY <2>1, <2>2 DEF TablesOK
<1> QED BY <1>7, <1>8, <1>12, <1>13, <1>14, <1>15 DEF Matches

(* An event that no position is told of: its order is being registered.    *)
LEMMA ToldNobody ==
  ASSUME TypeOK, NEW e, NEW c, Matches(e, c), e # NoFrame, orderToPosition[e.order] = 0,
         UNCHANGED <<order, position, links, owner, heard>>
  PROVE  Matches(NoFrame, c)'
<1>1. OrdersOK /\ TablesOK(e, c) /\ EventOK(e, c) /\ CallOK(e, c)
      /\ \A q \in PositionIds : HasOrders(q, e, c) /\ StateOK(q, e, c) /\ SharesOK(q, e)
  BY DEF Matches
<1>2. UNCHANGED <<state, quantity, filled>> /\ filled \in [OrderIds -> Nat]
  BY DEF order, TypeOK
<1>3. e.order \in OrderIds /\ e.order = c.order /\ e.quantity = 0 /\ NoFrame.order = 0 /\ NoFrame.quantity = 0
  <2>1. e.order \in OrderIds /\ owner[e.order] # 0
    BY <1>1 DEF EventOK
  <2>2. ~KnownActive(e.order, e, c)
    BY <1>1, <2>1 DEF TablesOK
  <2>3. e.order = c.order
    BY <2>1, <2>2 DEF KnownActive
  <2>4. e.quantity = 0
    BY <1>1, <2>3 DEF EventOK, IsFill
  <2> QED BY <2>1, <2>3, <2>4, NoFrameIs
<1>4. \A x : KnownActive(x, NoFrame, c)' <=> KnownActive(x, e, c)
  <2>1. \A x : IsActive(x)' <=> IsActive(x)
    BY <1>2 DEF IsActive
  <2> QED BY <1>3, <2>1, Zero DEF KnownActive
<1>5. \A x \in OrderIds : KnownFilled(x, NoFrame)' = KnownFilled(x, e)
  BY <1>2, <1>3, Zero DEF KnownFilled
<1>6. OrdersOK' /\ EventOK(NoFrame, c)'
  BY <1>1, <1>2 DEF OrdersOK, EventOK
<1>7. CallOK(NoFrame, c)'
  BY <1>1, <1>2 DEF CallOK, IsActive
<1>8. TablesOK(NoFrame, c)'
  BY <1>1, <1>4 DEF TablesOK, links
<1>9. ASSUME NEW q \in PositionIds PROVE HasOrders(q, NoFrame, c)' /\ StateOK(q, NoFrame, c)' /\ SharesOK(q, NoFrame)'
  <2>1. \A x \in OrderIds : owner'[x] = q <=> owner[x] = q
    OBVIOUS
  <2>2. \A x \in OrdersOf(q) : /\ KnownActive(x, NoFrame, c)' <=> KnownActive(x, e, c)
                               /\ KnownFilled(x, NoFrame)' = KnownFilled(x, e)
                               /\ quantity'[x] = quantity[x]
    BY <1>2, <1>4, <1>5 DEF OrdersOf
  <2> QED BY <1>1, <2>1, <2>2, SameKnowledge
<1> QED BY <1>6, <1>7, <1>8, <1>9 DEF Matches

(* Of what an event changes in the position that is told of it, all but    *)
(* what depends on the state.                                              *)
Tells(e, p) ==
  /\ e # NoFrame /\ orderToPosition[e.order] = p
  /\ \A q \in PositionIds \ {p} : position'[q] = position[q] /\ heard'[q] = heard[q]
  /\ position'[p].shares = position[p].shares + SharesMoved(p, e.order, e.type, e.quantity)
  /\ position'[p].activeOrders = StillActive(p, e.order)
  /\ position'[p].side = position[p].side
  /\ position'[p].entryOrder = position[p].entryOrder /\ position'[p].exitOrder = position[p].exitOrder
  /\ orderToPosition' = [orderToPosition EXCEPT ![e.order] = IF IsActive(e.order) THEN @ ELSE 0]
  /\ UNCHANGED <<state, quantity, filled, owner>>

(* The order of the event is one the position knows to be active, the      *)
(* shares held move by what was filled, and the order stays known unless it *)
(* has ended.                                                              *)
LEMMA TellsIs ==
  ASSUME TypeOK, NEW e, NEW c, Matches(e, c), NEW p \in PositionIds, Tells(e, p)
  PROVE  /\ e.order \in OrdersOf(p) /\ e.order # c.order /\ e.order # 0 /\ e.quantity \in Nat
         /\ e.type \in {"ACCEPTED", "CANCELED", "PARTIALLY_FILLED", "FILLED"} /\ e.type = state[e.order]
         /\ IF IsFill(e.type) THEN e.quantity >= 1 ELSE e.quantity = 0
         /\ KnownActive(e.order, e, c) /\ e.order \in {position[p].entryOrder, position[p].exitOrder}
         /\ Held(p)' = IF e.order = position[p].entryOrder THEN Held(p) + e.quantity ELSE Held(p) - e.quantity
         /\ Held(p) \in Int /\ (position'[p].shares = 0 <=> Held(p)' = 0)
         /\ \A x : KnownActive(x, NoFrame, c)' <=> KnownActive(x, e, c) /\ (x = e.order => IsActive(x))
         /\ \A x \in OrderIds : KnownFilled(x, NoFrame)' = filled[x]
         /\ c.at # "register" /\ (c.at = "exit" => c.position = p /\ e.order = position[p].entryOrder)
<1>1. EventOK(e, c) /\ CallOK(e, c) /\ TablesOK(e, c) /\ HasOrders(p, e, c)
  BY DEF Matches
<1>2. /\ state \in [OrderIds -> Broker!States] /\ filled \in [OrderIds -> Nat] /\ quantity \in [OrderIds -> Nat]
      /\ owner \in [OrderIds -> PositionIds \cup {0}] /\ position \in [PositionIds -> PositionRecords]
      /\ position[p].shares \in Int /\ position[p].side \in {1, -1} /\ p # 0
      /\ UNCHANGED <<state, quantity, filled, owner>>
  BY Zero DEF TypeOK, PositionRecords, Tells
<1>3. PICK o \in OrderIds : o = e.order /\ o # 0
  BY <1>1, Zero DEF EventOK, Tells
<1>4. KnownActive(o, e, c) /\ owner[o] = p
  <2>1. orderToPosition[o] = p
    BY <1>3 DEF Tells
  <2> QED BY <1>1, <1>2, <1>3, <2>1 DEF TablesOK
<1>5. o \in OrdersOf(p) /\ o # c.order /\ o \in {position[p].entryOrder, position[p].exitOrder}
  BY <1>1, <1>4 DEF OrdersOf, KnownActive, HasOrders
<1>6. /\ e.type = state[o] /\ e.type # "SUBMITTED" /\ (IF IsFill(e.type) THEN e.quantity >= 1 ELSE e.quantity = 0)
      /\ e.quantity <= filled[o]
  BY <1>1, <1>3, <1>5 DEF EventOK, Tells
<1>7. e.type \in {"ACCEPTED", "CANCELED", "PARTIALLY_FILLED", "FILLED"}
  <2>1. state[o] # "INITIAL"
    BY <1>2, <1>4 DEF Matches, OrdersOK
  <2> QED BY <1>2, <1>6, <2>1 DEF Broker!States
<1>8. c.at # "register" /\ (c.at = "exit" => c.position = p /\ o = position[p].entryOrder)
  <2>1. c.at # "register"
    BY <1>1, <1>3, <1>5 DEF CallOK, Tells
  <2>2. ASSUME c.at = "exit" PROVE c.position = p /\ o = position[p].entryOrder
    <3>1. c.position \in PositionIds /\ position[c.position].entryOrder = o
      BY <1>1, <1>3, <2>2 DEF CallOK, Tells
    <3>2. owner[o] = c.position
      BY <1>3, <3>1 DEF Matches, HasOrders
    <3> QED BY <1>4, <3>1, <3>2
  <2> QED BY <2>1, <2>2
<1>9. \A x : KnownActive(x, NoFrame, c)' <=> KnownActive(x, e, c) /\ (x = o => IsActive(x))
  <2>1. \A x : IsActive(x)' <=> IsActive(x)
    BY <1>2 DEF IsActive
  <2> QED BY <1>2, <1>3, <1>4, <2>1, NoFrameIs, Zero DEF KnownActive
<1>10. \A x \in OrderIds : KnownFilled(x, NoFrame)' = filled[x]
  BY <1>2, NoFrameIs, Zero DEF KnownFilled
<1>11. PICK n \in Nat : n = e.quantity
  BY <1>1 DEF EventOK, Tells
<1>12. /\ Held(p)' = IF o = position[p].entryOrder THEN Held(p) + n ELSE Held(p) - n
       /\ Held(p) \in Int /\ (position'[p].shares = 0 <=> Held(p)' = 0)
  <2>1. PICK shares \in Int, new \in Int, moved \in {n, -n} :
          /\ shares = position[p].shares /\ moved = (IF o = position[p].entryOrder THEN n ELSE -n)
          /\ new = position'[p].shares /\ new = shares + position[p].side * moved
    <3>1. PICK moved \in {n, -n} : moved = IF o = position[p].entryOrder THEN n ELSE -n
      OBVIOUS
    <3>2. SharesMoved(p, o, e.type, n) = position[p].side * moved
      <4>1. CASE position[p].side = 1
        BY <1>6, <1>11, <3>1, <4>1 DEF SharesMoved
      <4>2. CASE position[p].side = -1
        BY <1>6, <1>11, <3>1, <4>2 DEF SharesMoved
      <4> QED BY <1>2, <4>1, <4>2
    <3>3. position'[p].shares = position[p].shares + position[p].side * moved
      BY <1>3, <1>11, <3>2 DEF Tells
    <3>4. position[p].shares + position[p].side * moved \in Int
      BY <1>2, <3>1
    <3> QED BY <1>2, <3>1, <3>3, <3>4
  <2>2. position'[p].side = position[p].side
    BY DEF Tells
  <2>3. CASE position[p].side = 1
    BY <2>1, <2>2, <2>3 DEF Held
  <2>4. CASE position[p].side = -1
    BY <2>1, <2>2, <2>4 DEF Held
  <2> QED BY <1>2, <2>3, <2>4
<1> QED BY <1>3, <1>4, <1>5, <1>6, <1>7, <1>8, <1>9, <1>10, <1>11, <1>12

(* All that the invariant says but for the state of the position told.     *)
LEMMA Told ==
  ASSUME TypeOK, NEW e, NEW c, Matches(e, c), NEW p \in PositionIds, Tells(e, p)
  PROVE  /\ OrdersOK' /\ EventOK(NoFrame, c)' /\ (position'[p].state = position[p].state => CallOK(NoFrame, c)')
         /\ \A x \in OrderIds : orderToPosition'[x] = IF KnownActive(x, NoFrame, c)' THEN owner'[x] ELSE 0
         /\ HasOrders(p, NoFrame, c)' /\ SharesOK(p, NoFrame)'
         /\ \A q \in PositionIds \ {p} :
              HasOrders(q, NoFrame, c)' /\ StateOK(q, NoFrame, c)' /\ SharesOK(q, NoFrame)'
<1>1. OrdersOK /\ EventOK(e, c) /\ CallOK(e, c) /\ TablesOK(e, c)
      /\ \A q \in PositionIds : HasOrders(q, e, c) /\ StateOK(q, e, c) /\ SharesOK(q, e)
  BY DEF Matches
<1>2. /\ state \in [OrderIds -> Broker!States] /\ filled \in [OrderIds -> Nat] /\ quantity \in [OrderIds -> Nat]
      /\ owner \in [OrderIds -> PositionIds \cup {0}] /\ position \in [PositionIds -> PositionRecords]
      /\ orderToPosition \in [OrderIds -> PositionIds \cup {0}]
      /\ UNCHANGED <<state, quantity, filled, owner>>
      /\ position[p].shares \in Int /\ position[p].side \in {1, -1} /\ p # 0
  BY Zero DEF TypeOK, Tells, PositionRecords
<1>3. PICK o \in OrdersOf(p), n \in Nat : /\ o = e.order /\ n = e.quantity /\ o \in OrderIds /\ owner[o] = p
                                          /\ o # c.order /\ o # 0 /\ KnownActive(o, e, c)
                                          /\ o \in {position[p].entryOrder, position[p].exitOrder}
                                          /\ IF IsFill(e.type) THEN n >= 1 ELSE n = 0
  BY TellsIs DEF OrdersOf
<1>4. /\ \A x : KnownActive(x, NoFrame, c)' <=> KnownActive(x, e, c) /\ (x = o => IsActive(x))
      /\ \A x \in OrderIds : KnownFilled(x, NoFrame)' = filled[x]
  BY <1>3, TellsIs
<1>5. OrdersOK' /\ EventOK(NoFrame, c)'
  BY <1>1, <1>2 DEF OrdersOK, EventOK
<1>6. ASSUME position'[p].state = position[p].state PROVE CallOK(NoFrame, c)'
  <2>1. c.at # "register" /\ (c.at = "exit" => c.position = p)
    BY TellsIs
  <2>2. /\ position'[p].entryOrder = position[p].entryOrder /\ position'[p].exitOrder = position[p].exitOrder
        /\ \A x : IsActive(x)' <=> IsActive(x)
    BY <1>2 DEF Tells, IsActive
  <2>3. c.at = "exit" =>
       /\ c.position \in PositionIds /\ c.order = 0
       /\ position'[p].state = "Open" /\ ~IsActive(position[p].entryOrder) /\ ~IsActive(position[p].exitOrder)
    BY <1>1, <1>6, <2>1 DEF CallOK
  <2>4. PICK x, y : x = position[p].entryOrder /\ y = position[p].exitOrder
    OBVIOUS
  <2>5. c.at = "exit" => ~IsActive(x)' /\ ~IsActive(y)'
    BY <2>2, <2>3, <2>4
  <2> QED BY <2>1, <2>2, <2>3, <2>4, <2>5 DEF CallOK
<1>7. \A x \in OrderIds : orderToPosition'[x] = IF KnownActive(x, NoFrame, c)' THEN owner'[x] ELSE 0
  <2>1. orderToPosition' = [orderToPosition EXCEPT ![o] = IF IsActive(o) THEN orderToPosition[o] ELSE 0]
    BY <1>3 DEF Tells
  <2>2. \A x \in OrderIds : orderToPosition[x] = IF KnownActive(x, e, c) THEN owner[x] ELSE 0
    BY <1>1 DEF TablesOK
  <2> QED BY <1>2, <1>3, <1>4, <2>1, <2>2
<1>8. HasOrders(p, NoFrame, c)'
  <2>1. HasOrders(p, e, c)
    BY <1>1
  <2>2. position'[p].activeOrders = IF IsActive(o) THEN position[p].activeOrders ELSE position[p].activeOrders \ {o}
    BY <1>3 DEF Tells, StillActive
  <2>3. OrdersOf(p)' = OrdersOf(p)
    BY <1>2 DEF OrdersOf
  <2>4. position'[p].entryOrder = position[p].entryOrder /\ position'[p].exitOrder = position[p].exitOrder
    BY DEF Tells
  <2>5. position'[p].activeOrders = {x \in OrdersOf(p) : KnownActive(x, NoFrame, c)'}
    BY <1>3, <1>4, <2>1, <2>2 DEF HasOrders
  <2> QED BY <1>2, <1>4, <2>1, <2>3, <2>4, <2>5 DEF HasOrders
<1>9. SharesOK(p, NoFrame)'
  <2>1. PICK f : f = KnownFilledBy(p, e)
    OBVIOUS
  <2>2. PICK g : g = KnownFilledBy(p, NoFrame)'
    OBVIOUS
  <2>3. IsFiniteSet(OrdersOf(p)) /\ OrdersOf(p) \subseteq OrderIds /\ OrdersOf(p)' = OrdersOf(p)
    BY <1>2, Zero, FS_Subset DEF OrdersOf
  <2>4. \A x \in OrderIds \ {o} : f[x] = g[x]
    <3>1. \A x \in OrderIds \ {o} : KnownFilled(x, e) = filled[x]
      BY <1>2, <1>3 DEF KnownFilled
    <3>2. position'[p].entryOrder = position[p].entryOrder
      BY DEF Tells
    <3> QED BY <1>4, <2>1, <2>2, <3>1, <3>2 DEF KnownFilledBy
  <2>5. /\ f[o] = (IF o = position[p].entryOrder THEN filled[o] - n ELSE -(filled[o] - n))
        /\ g[o] = (IF o = position[p].entryOrder THEN filled[o] ELSE -filled[o])
    <3>1. KnownFilled(o, e) = filled[o] - n
      BY <1>3 DEF KnownFilled
    <3>2. position'[p].entryOrder = position[p].entryOrder
      BY DEF Tells
    <3> QED BY <1>3, <1>4, <2>1, <2>2, <3>1, <3>2 DEF KnownFilledBy
  <2>6. \A x \in OrdersOf(p) : f[x] \in Int /\ g[x] \in Int
    <3>1. \A x \in OrderIds : KnownFilled(x, e) \in Int /\ KnownFilled(x, NoFrame)' \in Int
      BY <1>2, <1>3, <1>4 DEF KnownFilled
    <3>2. \A k \in Int : -k \in Int
      OBVIOUS
    <3> QED BY <2>1, <2>2, <2>3, <3>1, <3>2 DEF KnownFilledBy
  <2>7. SumFunctionOnSet(g, OrdersOf(p)) = SumFunctionOnSet(f, OrdersOf(p)) + g[o] - f[o]
    BY <2>3, <2>4, <2>6, SumChange
  <2>8. PICK moved \in {n, -n}, total \in Int :
          /\ moved = (IF o = position[p].entryOrder THEN n ELSE -n)
          /\ total = SumFunctionOnSet(f, OrdersOf(p)) /\ SumFunctionOnSet(g, OrdersOf(p)) = total + moved
    <3>1. filled[o] \in Nat
      BY <1>2, <1>3
    <3>2. SumFunctionOnSet(f, OrdersOf(p)) \in Int
      BY <2>3, <2>6, SumType
    <3>3. PICK moved \in {n, -n} : moved = IF o = position[p].entryOrder THEN n ELSE -n
      OBVIOUS
    <3>4. SumFunctionOnSet(f, OrdersOf(p)) + g[o] - f[o] = SumFunctionOnSet(f, OrdersOf(p)) + moved
      BY <2>5, <3>1, <3>2, <3>3
    <3> QED BY <2>7, <3>2, <3>3, <3>4
  <2>9. position'[p].shares = position[p].side * (total + moved)
    <3>1. position[p].shares = position[p].side * total
      BY <1>1, <2>1, <2>8 DEF SharesOK
    <3>2. position'[p].shares = position[p].shares + SharesMoved(p, o, e.type, n)
      BY <1>3 DEF Tells
    <3>3. CASE position[p].side = 1
      BY <1>2, <1>3, <2>8, <3>1, <3>2, <3>3 DEF SharesMoved
    <3>4. CASE position[p].side = -1
      BY <1>2, <1>3, <2>8, <3>1, <3>2, <3>4 DEF SharesMoved
    <3> QED BY <1>2, <3>3, <3>4
  <2>10. position'[p].side = position[p].side
    BY DEF Tells
  <2> QED BY <2>2, <2>3, <2>8, <2>9, <2>10 DEF SharesOK
<1>10. ASSUME NEW q \in PositionIds \ {p}
       PROVE HasOrders(q, NoFrame, c)' /\ StateOK(q, NoFrame, c)' /\ SharesOK(q, NoFrame)'
  <2>1. \A x \in OrderIds : owner'[x] = q <=> owner[x] = q
    BY <1>2
  <2>2. \A x \in OrdersOf(q) : /\ KnownActive(x, NoFrame, c)' <=> KnownActive(x, e, c)
                               /\ KnownFilled(x, NoFrame)' = KnownFilled(x, e)
                               /\ quantity'[x] = quantity[x]
    <3>1. \A x \in OrdersOf(q) : x # o /\ x \in OrderIds
      BY <1>3 DEF OrdersOf
    <3>2. \A x \in OrdersOf(q) : KnownFilled(x, e) = filled[x]
      BY <1>2, <1>3, <3>1 DEF KnownFilled
    <3> QED BY <1>2, <1>4, <3>1, <3>2
  <2>3. position'[q] = position[q] /\ heard'[q] = heard[q] /\ q \in PositionIds
    BY DEF Tells
  <2> QED BY <1>1, <2>1, <2>2, <2>3, SameKnowledge
<1> QED BY <1>5, <1>6, <1>7, <1>8, <1>9, <1>10

(* What remains to be shown when a position has been told.                 *)
LEMMA ToldMatches ==
  ASSUME TypeOK, NEW e, NEW c, Matches(e, c), NEW p \in PositionIds, Tells(e, p),
         StateOK(p, NoFrame, c)', CallOK(NoFrame, c)',
         position[p].state \in {"WaitingEntry", "Open"}, position[p].entryOrder # 0,
         activePositions' = IF position'[p].state \in {"WaitingEntry", "Open"} THEN activePositions
                            ELSE activePositions \ {p}
  PROVE  Matches(NoFrame, c)'
<1>1. \A q \in PositionIds : HasOrders(q, NoFrame, c)' /\ StateOK(q, NoFrame, c)' /\ SharesOK(q, NoFrame)'
  BY Told
<1>2. TablesOK(NoFrame, c)'
  <2>1. activePositions = {q \in PositionIds : position[q].state \in {"WaitingEntry", "Open"} /\ position[q].entryOrder # 0}
    BY DEF Matches, TablesOK
  <2>2. /\ \A q \in PositionIds \ {p} : position'[q] = position[q]
        /\ position'[p].entryOrder = position[p].entryOrder
    BY DEF Tells
  <2>3. activePositions' = {q \in PositionIds : position'[q].state \in {"WaitingEntry", "Open"} /\ position'[q].entryOrder # 0}
    BY <2>1, <2>2
  <2>4. \A x \in OrderIds : orderToPosition'[x] = IF KnownActive(x, NoFrame, c)' THEN owner'[x] ELSE 0
    BY Told
  <2> QED BY <2>3, <2>4 DEF TablesOK
<1>3. OrdersOK' /\ EventOK(NoFrame, c)'
  BY Told
<1> QED BY <1>1, <1>2, <1>3 DEF Matches

(* A position that waits for its entry order is told of it.                *)
LEMMA WaitingIsTold ==
  ASSUME TypeOK, NEW e, NEW c, Matches(e, c), c = NoFrame \/ c.at \in {"register", "exit"},
         NEW p \in PositionIds, Tells(e, p), position[p].state = "WaitingEntry"
  PROVE  /\ c = NoFrame /\ e.order = position[p].entryOrder /\ position[p].entryOrder # 0
         /\ e.type = "CANCELED" => filled[e.order] = 0 /\ position'[p].shares = 0
         /\ IsFill(e.type) /\ position'[p].state = "Open" /\ heard'[p] = Append(heard[p], "onEnterOk")
              => StateOK(p, NoFrame, c)'
         /\ e.type = "CANCELED" /\ position'[p].state = "Closed" /\ heard'[p] = Append(heard[p], "onEnterCanceled")
              => StateOK(p, NoFrame, c)'
         /\ ~IsFill(e.type) /\ e.type # "CANCELED" /\ position'[p].state = "WaitingEntry" /\ heard'[p] = heard[p]
              => StateOK(p, NoFrame, c)'
<1>1. PICK o \in OrdersOf(p), n \in Nat :
        /\ o = e.order /\ n = e.quantity /\ o # c.order /\ o # 0 /\ KnownActive(o, e, c)
        /\ e.type \in {"ACCEPTED", "CANCELED", "PARTIALLY_FILLED", "FILLED"} /\ e.type = state[o]
        /\ (IF IsFill(e.type) THEN n >= 1 ELSE n = 0)
        /\ Held(p)' = (IF o = position[p].entryOrder THEN Held(p) + n ELSE Held(p) - n)
        /\ (position'[p].shares = 0 <=> Held(p)' = 0)
        /\ \A x : KnownActive(x, NoFrame, c)' <=> KnownActive(x, e, c) /\ (x = o => IsActive(x))
        /\ KnownFilled(o, NoFrame)' = filled[o]
        /\ o \in OrderIds
  <2>1. e.order \in OrderIds
    BY TellsIs DEF OrdersOf
  <2> QED BY <2>1, TellsIs
<1>2. IsWaiting(p, e, c)
  BY DEF Matches, StateOK
<1>3. position[p].entryOrder = o /\ OrdersOf(p) = {o} /\ KnownFilled(o, e) = 0 /\ position[p].exitOrder = 0
  BY <1>1, <1>2 DEF IsWaiting
<1>4. c = NoFrame
  <2>1. c.at # "register"
    BY TellsIs
  <2>2. c.at # "exit"
    <3>1. ASSUME c.at = "exit" PROVE FALSE
      <4>1. c.position = p
        BY <3>1, TellsIs
      <4>2. position[p].state = "Open"
        BY <3>1, <4>1 DEF Matches, CallOK
      <4> QED BY <4>2
    <3> QED BY <3>1
  <2> QED BY <2>1, <2>2
<1>5. /\ OrdersOf(p)' = OrdersOf(p) /\ position'[p].entryOrder = o /\ position'[p].exitOrder = 0
      /\ NoFrame.order = 0
  BY <1>3, NoFrameIs DEF OrdersOf, Tells
<1>6. filled[o] = n /\ filled[o] \in Nat
  <2>1. filled[o] \in Nat
    BY <1>1 DEF TypeOK
  <2>2. filled[o] - n = 0
    BY <1>1, <1>3 DEF KnownFilled
  <2> QED BY <1>1, <2>1, <2>2
<1>7. Held(p) = 0 /\ Held(p)' = n
  <2>1. position[p].shares = 0 /\ position[p].side \in {1, -1}
    BY <1>2 DEF IsWaiting, TypeOK, PositionRecords
  <2>2. Held(p) = 0
    BY <2>1 DEF Held
  <2>3. Held(p)' = Held(p) + n
    BY <1>1, <1>3
  <2> QED BY <1>1, <2>2, <2>3
<1>8. ASSUME IsFill(e.type), position'[p].state = "Open", heard'[p] = Append(heard[p], "onEnterOk")
      PROVE  StateOK(p, NoFrame, c)'
  <2>1. HeardOpen(heard'[p])
    BY <1>2, <1>8 DEF HeardOpen, IsWaiting
  <2>2. ~KnownActive(0, NoFrame, c)'
    BY Zero DEF KnownActive
  <2>3. c.order \notin OrdersOf(p)'
    BY <1>4, <1>5, Zero DEF OrdersOf
  <2>4. Held(p)' >= 1
    BY <1>1, <1>7, <1>8
  <2>5. IsOpen(p, NoFrame, c)'
    BY <1>1, <1>5, <2>1, <2>2, <2>3, <2>4 DEF IsOpen
  <2> QED BY <1>8, <2>5 DEF StateOK
<1>9. ASSUME e.type = "CANCELED" PROVE filled[o] = 0 /\ position'[p].shares = 0
  BY <1>1, <1>6, <1>7, <1>9 DEF IsFill
<1>10. ASSUME e.type = "CANCELED", position'[p].state = "Closed", heard'[p] = Append(heard[p], "onEnterCanceled")
       PROVE  StateOK(p, NoFrame, c)'
  <2>1. heard'[p] = <<"onEnterCanceled">>
    BY <1>2, <1>10 DEF IsWaiting
  <2>2. ~KnownActive(o, NoFrame, c)'
    BY <1>1, <1>10 DEF IsActive
  <2>3. position'[p].activeOrders = {}
    <3>1. HasOrders(p, NoFrame, c)'
      BY Told
    <3> QED BY <1>3, <1>5, <2>2, <3>1 DEF HasOrders
  <2>4. c.order \notin OrdersOf(p)'
    BY <1>4, <1>5, Zero DEF OrdersOf
  <2>5. IsClosed(p, NoFrame, c)'
    BY <1>1, <1>5, <1>9, <1>10, <2>1, <2>3, <2>4 DEF IsClosed
  <2> QED BY <1>10, <2>5 DEF StateOK
<1>11. ASSUME ~IsFill(e.type), e.type # "CANCELED", position'[p].state = "WaitingEntry", heard'[p] = heard[p]
       PROVE  StateOK(p, NoFrame, c)'
  <2>1. KnownActive(o, NoFrame, c)'
    BY <1>1, <1>11 DEF IsFill, IsActive
  <2>2. n = 0 /\ position'[p].shares = 0 /\ KnownFilled(o, NoFrame)' = 0
    BY <1>1, <1>6, <1>7, <1>11
  <2>3. IsWaiting(p, NoFrame, c)'
    BY <1>1, <1>2, <1>3, <1>5, <1>11, <2>1, <2>2 DEF IsWaiting
  <2> QED BY <1>11, <2>3 DEF StateOK
<1> QED BY <1>1, <1>3, <1>4, <1>8, <1>9, <1>10, <1>11

(* An open position is told of its exit order.                             *)
LEMMA ExitIsTold ==
  ASSUME TypeOK, NEW e, NEW c, Matches(e, c), c = NoFrame \/ c.at \in {"register", "exit"},
         NEW p \in PositionIds, Tells(e, p), position[p].state = "Open", e.order = position[p].exitOrder
  PROVE  /\ c = NoFrame /\ position[p].entryOrder # 0
         /\ e.type = "FILLED" <=> position'[p].shares = 0
         /\ e.type = "FILLED" /\ position'[p].state = "Closed" /\ heard'[p] = Append(heard[p], "onExitOk")
              => StateOK(p, NoFrame, c)'
         /\ e.type = "CANCELED" /\ position'[p].state = "Open" /\ heard'[p] = Append(heard[p], "onExitCanceled")
              => StateOK(p, NoFrame, c)'
         /\ e.type \notin {"FILLED", "CANCELED"} /\ position'[p].state = "Open" /\ heard'[p] = heard[p]
              => StateOK(p, NoFrame, c)'
<1>1. PICK o \in OrdersOf(p), n \in Nat :
        /\ o = e.order /\ n = e.quantity /\ o # c.order /\ o # 0 /\ KnownActive(o, e, c)
        /\ e.type \in {"ACCEPTED", "CANCELED", "PARTIALLY_FILLED", "FILLED"} /\ e.type = state[o]
        /\ (IF IsFill(e.type) THEN n >= 1 ELSE n = 0)
        /\ Held(p)' = (IF o = position[p].entryOrder THEN Held(p) + n ELSE Held(p) - n)
        /\ Held(p) \in Int /\ (position'[p].shares = 0 <=> Held(p)' = 0)
        /\ \A x : KnownActive(x, NoFrame, c)' <=> KnownActive(x, e, c) /\ (x = o => IsActive(x))
        /\ KnownFilled(o, NoFrame)' = filled[o]
        /\ o \in OrderIds
  <2>1. e.order \in OrderIds
    BY TellsIs DEF OrdersOf
  <2> QED BY <2>1, TellsIs
<1>2. IsOpen(p, e, c) /\ HasOrders(p, e, c)
  BY DEF Matches, StateOK
<1>3. /\ position[p].exitOrder = o /\ position[p].entryOrder # o /\ position[p].entryOrder # 0
      /\ ~KnownActive(position[p].entryOrder, e, c) /\ Held(p) = quantity[o] - KnownFilled(o, e)
  BY <1>1, <1>2 DEF IsOpen, HasOrders
<1>4. c = NoFrame
  BY <1>1, <1>3, TellsIs
<1>5. /\ OrdersOf(p)' = OrdersOf(p) /\ position'[p].entryOrder = position[p].entryOrder /\ position'[p].exitOrder = o
      /\ NoFrame.order = 0 /\ quantity' = quantity
  BY <1>3, NoFrameIs DEF OrdersOf, Tells
<1>6. /\ filled[o] \in Nat /\ quantity[o] \in Nat /\ filled[o] <= quantity[o]
      /\ (e.type = "FILLED" <=> filled[o] = quantity[o])
  <2>1. state[o] # "INITIAL"
    BY <1>1
  <2> QED BY <1>1, <2>1 DEF TypeOK, Matches, OrdersOK
<1>7. Held(p)' = quantity[o] - filled[o]
  <2>1. Held(p) = quantity[o] - (filled[o] - n)
    BY <1>1, <1>3 DEF KnownFilled
  <2>2. Held(p)' = Held(p) - n
    BY <1>1, <1>3
  <2> QED BY <1>1, <1>6, <2>1, <2>2
<1>8. e.type = "FILLED" <=> position'[p].shares = 0
  <2>1. quantity[o] - filled[o] = 0 <=> filled[o] = quantity[o]
    BY <1>6
  <2>2. Held(p)' = 0 <=> filled[o] = quantity[o]
    BY <1>7, <2>1
  <2> QED BY <1>1, <1>6, <2>2, Zenon
<1>9. c.order \notin OrdersOf(p)'
  BY <1>4, <1>5, Zero DEF OrdersOf
<1>10. PICK entry : entry = position[p].entryOrder
  OBVIOUS
<1>11. ~KnownActive(entry, NoFrame, c)'
  BY <1>1, <1>3, <1>10
<1>12. ASSUME e.type = "FILLED", position'[p].state = "Closed", heard'[p] = Append(heard[p], "onExitOk")
       PROVE  StateOK(p, NoFrame, c)'
  <2>1. ~KnownActive(o, NoFrame, c)'
    BY <1>1, <1>12 DEF IsActive
  <2>2. position'[p].activeOrders = {}
    <3>1. HasOrders(p, NoFrame, c)'
      BY Told
    <3>2. \A x \in OrdersOf(p)' : KnownActive(x, NoFrame, c)' => x \in {entry, o}
      BY <1>5, <1>10, <3>1 DEF HasOrders
    <3>3. position'[p].activeOrders = {x \in OrdersOf(p)' : KnownActive(x, NoFrame, c)'}
      BY <3>1 DEF HasOrders
    <3> QED BY <1>11, <2>1, <3>2, <3>3
  <2>3. heard[p] \in Seq(Callbacks) /\ HeardOpen(heard[p])
    BY <1>2 DEF IsOpen, TypeOK
  <2>4. IsClosed(p, NoFrame, c)'
    BY <1>3, <1>5, <1>8, <1>9, <1>12, <2>2, <2>3 DEF IsClosed
  <2> QED BY <1>12, <2>4 DEF StateOK
<1>13. ASSUME e.type = "CANCELED", position'[p].state = "Open", heard'[p] = Append(heard[p], "onExitCanceled")
       PROVE  StateOK(p, NoFrame, c)'
  <2>1. ~KnownActive(o, NoFrame, c)'
    BY <1>1, <1>13 DEF IsActive
  <2>2. Held(p)' >= 1
    BY <1>6, <1>7, <1>13
  <2>3. HeardOpen(heard'[p])
    <3>1. PICK s \in Seq(Callbacks) : s = heard[p] /\ HeardOpen(s)
      BY <1>2 DEF IsOpen, TypeOK
    <3>2. PICK t : t = Append(s, "onExitCanceled")
      OBVIOUS
    <3>3. Len(t) = Len(s) + 1 /\ t[1] = s[1] /\ \A i \in 2 .. Len(t) : t[i] = "onExitCanceled"
      BY <3>1, <3>2 DEF HeardOpen, Callbacks
    <3>4. HeardOpen(t)
      BY <3>1, <3>3 DEF HeardOpen
    <3> QED BY <1>13, <3>1, <3>2, <3>4
  <2>4. IsOpen(p, NoFrame, c)'
    BY <1>3, <1>5, <1>9, <2>1, <2>2, <2>3 DEF IsOpen
  <2> QED BY <1>13, <2>4 DEF StateOK
<1>14. ASSUME e.type \notin {"FILLED", "CANCELED"}, position'[p].state = "Open", heard'[p] = heard[p]
       PROVE  StateOK(p, NoFrame, c)'
  <2>1. Held(p)' >= 1
    BY <1>6, <1>7, <1>14
  <2>2. HeardOpen(heard'[p])
    BY <1>2, <1>14 DEF IsOpen
  <2>3. Held(p)' = quantity'[o] - KnownFilled(o, NoFrame)'
    BY <1>1, <1>5, <1>7
  <2>4. IsOpen(p, NoFrame, c)'
    BY <1>3, <1>5, <1>9, <1>10, <1>11, <2>1, <2>2, <2>3 DEF IsOpen
  <2> QED BY <1>14, <2>4 DEF StateOK
<1> QED BY <1>3, <1>4, <1>8, <1>12, <1>13, <1>14

(* An open position is told of its entry order.                            *)
LEMMA EntryIsTold ==
  ASSUME TypeOK, NEW e, NEW c, Matches(e, c), c = NoFrame \/ c.at \in {"register", "exit"},
         NEW p \in PositionIds, Tells(e, p), position[p].state = "Open", e.order # position[p].exitOrder
  PROVE  /\ e.order = position[p].entryOrder /\ position[p].entryOrder # 0 /\ position'[p].shares # 0
         /\ position'[p].state = "Open" /\ heard'[p] = heard[p] => StateOK(p, NoFrame, c)'
<1>1. PICK o \in OrdersOf(p), n \in Nat :
        /\ o = e.order /\ n = e.quantity /\ o # 0 /\ KnownActive(o, e, c)
        /\ o \in {position[p].entryOrder, position[p].exitOrder}
        /\ Held(p)' = (IF o = position[p].entryOrder THEN Held(p) + n ELSE Held(p) - n)
        /\ Held(p) \in Int /\ (position'[p].shares = 0 <=> Held(p)' = 0)
        /\ \A x : KnownActive(x, NoFrame, c)' <=> KnownActive(x, e, c) /\ (x = o => IsActive(x))
  BY TellsIs
<1>2. IsOpen(p, e, c)
  BY DEF Matches, StateOK
<1>3. position[p].entryOrder = o
  BY <1>1
<1>4. Held(p)' >= 1 /\ position'[p].shares # 0
  <2>1. Held(p)' = Held(p) + n /\ Held(p) >= 1
    BY <1>1, <1>2, <1>3 DEF IsOpen
  <2>2. Held(p)' >= 1 /\ Held(p)' # 0
    BY <1>1, <2>1
  <2> QED BY <1>1, <2>2
<1>5. PICK exit : exit = position[p].exitOrder /\ ~KnownActive(exit, NoFrame, c)'
  BY <1>1, <1>2, <1>3 DEF IsOpen
<1>6. c.order \notin OrdersOf(p)'
  <2>1. c.order = 0
    <3>1. c.at # "register"
      BY TellsIs
    <3>2. c.at = "exit" => c.order = 0
      BY DEF Matches, CallOK
    <3> QED BY <3>1, <3>2, NoFrameIs
  <2> QED BY <2>1, Zero DEF OrdersOf
<1>7. ASSUME position'[p].state = "Open", heard'[p] = heard[p] PROVE StateOK(p, NoFrame, c)'
  <2>1. position'[p].entryOrder = o /\ position'[p].exitOrder = exit
    BY <1>3, <1>5 DEF Tells
  <2>2. HeardOpen(heard'[p])
    BY <1>2, <1>7 DEF IsOpen
  <2>3. IsOpen(p, NoFrame, c)'
    BY <1>1, <1>4, <1>5, <1>6, <2>1, <2>2 DEF IsOpen
  <2> QED BY <1>7, <2>3 DEF StateOK
<1> QED BY <1>1, <1>3, <1>4, <1>7

(* No other position is told of anything.                                  *)
LEMMA OthersAreNotTold ==
  ASSUME TypeOK, NEW e, NEW c, Matches(e, c), NEW p \in PositionIds, e # NoFrame, orderToPosition[e.order] = p
  PROVE  position[p].state \in {"WaitingEntry", "Open"}
<1>1. e.order \in OrderIds /\ p # 0
  BY Zero DEF Matches, EventOK
<1>2. KnownActive(e.order, e, c) /\ owner[e.order] = p
  BY <1>1 DEF Matches, TablesOK
<1>3. e.order \in OrdersOf(p) /\ e.order \in position[p].activeOrders
  BY <1>1, <1>2 DEF OrdersOf, Matches, HasOrders
<1>4. position[p].state # "None" /\ position[p].state # "Closed"
  BY <1>3 DEF Matches, StateOK, IsNone, IsClosed
<1> QED BY <1>4 DEF TypeOK, PositionRecords

-----------------------------------------------------------------------------
(* The steps *)

(* What waits on a stack is nothing or a call.                             *)
LEMMA CallIs ==
  ASSUME NEW s
  PROVE  Call(s) = NoFrame \/ Call(s).at \in {"register", "exit"}
BY DEF Call, Starts

(* A stack on which nothing waits has callbacks only.                      *)
LEMMA NothingWaits ==
  ASSUME NEW s \in Seq(Frames), Plain(Below(s)), ~Starts(s, {"onOrderUpdated"}),
         Event(s) = NoFrame, Call(s) = NoFrame
  PROVE  Plain(s)
<1>1. Rest(s) = s
  BY DEF Rest
<1>2. ~Starts(s, {"notify"}) /\ Caller(s) = s
  BY <1>1, NoFrameIs DEF Event, Caller, Starts
<1>3. ~Starts(s, {"register", "exit"})
  BY <1>2, NoFrameIs DEF Call, Starts
<1> QED BY <1>2, <1>3 DEF Below

(* What positions know is about the variables other than the stack.        *)
LEMMA StackAside ==
  ASSUME NEW e, NEW c, Matches(e, c), UNCHANGED <<order, position, links, owner, heard>>
  PROVE  Matches(e, c)'
<1> USE DEF order, links
<1>1. \A x : (IsActive(x)' <=> IsActive(x)) /\ (KnownActive(x, e, c)' <=> KnownActive(x, e, c))
             /\ KnownFilled(x, e)' = KnownFilled(x, e)
  BY DEF IsActive, KnownActive, KnownFilled
<1>2. \A p : OrdersOf(p)' = OrdersOf(p) /\ Held(p)' = Held(p) /\ KnownFilledBy(p, e)' = KnownFilledBy(p, e)
  BY <1>1 DEF OrdersOf, Held, KnownFilledBy
<1>3. OrdersOK' /\ EventOK(e, c)'
  BY DEF Matches, OrdersOK, EventOK
<1>4. CallOK(e, c)'
  BY DEF Matches, CallOK, IsActive
<1>5. TablesOK(e, c)'
  BY <1>1 DEF Matches, TablesOK
<1>6. ASSUME NEW p \in PositionIds PROVE HasOrders(p, e, c)' /\ StateOK(p, e, c)' /\ SharesOK(p, e)'
  <2>1. HasOrders(p, e, c) /\ StateOK(p, e, c) /\ SharesOK(p, e)
    BY DEF Matches
  <2>2. HasOrders(p, e, c)'
    BY <1>1, <1>2, <2>1 DEF HasOrders
  <2>3. SharesOK(p, e)'
    BY <1>2, <2>1 DEF SharesOK
  <2>4. /\ IsNone(p)' <=> IsNone(p)
        /\ IsClosed(p, e, c)' <=> IsClosed(p, e, c)
    BY <1>2 DEF IsNone, IsClosed
  <2>5. IsWaiting(p, e, c)' <=> IsWaiting(p, e, c)
    BY <1>1, <1>2 DEF IsWaiting
  <2>6. IsOpen(p, e, c)' <=> IsOpen(p, e, c)
    BY <1>1, <1>2 DEF IsOpen
  <2> QED BY <2>1, <2>2, <2>3, <2>4, <2>5, <2>6 DEF StateOK
<1> QED BY <1>3, <1>4, <1>5, <1>6 DEF Matches

(* The invariant's parts that lemmas about single steps need.              *)
LEMMA Parts ==
  ASSUME IInv
  PROVE  /\ failure = "none" /\ TypeOK /\ stack \in Seq(Frames) /\ Plain(Below(stack))
         /\ Starts(stack, {"onOrderUpdated"}) => Starts(Rest(stack), {"notify"})
         /\ Matches(Event(stack), Call(stack))
BY DEF IInv, TypeOK, StackOK, Running

(* The broker changes an order and calls the strategy: nothing waits in    *)
(* the stack t below the new event, but for a call to exit a position.     *)
LEMMA Emits ==
  ASSUME IInv, Event(stack) = NoFrame, Call(stack) = NoFrame, NEW o \in OrderIds, state[o] # "INITIAL",
         Broker!Accept(o) \/ Broker!Execute(o) \/ Broker!Cancel(o),
         UNCHANGED <<position, links, failure, owner, heard>>,
         NEW t \in Seq(Frames), ~Starts(t, {"onOrderUpdated"}), ~Starts(t, {"notify"}), Plain(Below(t)),
         NEW e, e = Frame("notify", 0, o, state'[o], filled'[o] - filled[o]),
         NEW c, c = Call(t), c = NoFrame \/ (c.at = "exit" /\ c.order = 0), CallOK(e, c)',
         stack' = Handlers(o, state'[o], filled'[o] - filled[o]) \o t
  PROVE  IInv'
<1>1. TypeOK /\ OrdersOK /\ Matches(NoFrame, NoFrame) /\ failure = "none"
  BY Parts DEF Matches
<1>2. /\ state' \in [OrderIds -> Broker!States] /\ filled' \in [OrderIds -> Nat] /\ quantity' = quantity
      /\ filled'[o] - filled[o] \in Nat
      /\ state'[o] \in {"ACCEPTED", "CANCELED", "PARTIALLY_FILLED", "FILLED"}
  BY <1>1, BrokerStep
<1>3. PICK n \in Nat, new \in Types : n = filled'[o] - filled[o] /\ new = state'[o]
  BY <1>2 DEF Types
<1>4. PICK s : s = stack'
  OBVIOUS
<1>5. s = Announcing(o, new, n, t)
  BY <1>3, <1>4 DEF Announcing
<1>6. /\ s \in Seq(Frames) /\ Plain(Below(s)) /\ Starts(Rest(s), {"notify"})
      /\ Event(s) = Frame("notify", 0, o, new, n) /\ Call(s) = Call(t)
  BY <1>5, EventStack
<1>7. e = Frame("notify", 0, o, new, n) /\ c.order = 0 /\ c.at # "register" /\ (c = NoFrame \/ c.at = "exit")
  BY <1>3, NoFrameIs
<1>8. Matches(e, c)'
  <2>1. UNCHANGED <<position, links, owner, heard>>
    OBVIOUS
  <2> QED BY <1>1, <1>7, <2>1, Announced
<1>9. TypeOK'
  BY <1>1, <1>2, <1>4, <1>6 DEF TypeOK, links
<1>10. StackOK'
  BY <1>4, <1>6 DEF StackOK
<1>11. Event(s) = e /\ Call(s) = c
  BY <1>6, <1>7
<1>12. Matches(Event(stack), Call(stack))'
  BY <1>4, <1>8, <1>11
<1> QED BY <1>1, <1>9, <1>10, <1>12 DEF IInv, Running

(* A call of submitOrder: its event waits above the call that will         *)
(* register the order.                                                     *)
LEMMA SubmitEmits ==
  ASSUME IInv, NEW c0, Matches(NoFrame, c0), c0.order = 0,
         NEW rest \in Seq(Frames), Plain(rest),
         NEW p \in PositionIds, NEW n \in Nat, n >= 1, SubmitOrder(p, n, rest),
         UNCHANGED <<links, failure, heard>>,
         \/ /\ position[p].state = "None"
            /\ \E side \in {1, -1} :
                 position' = [position EXCEPT ![p] = [NoPosition EXCEPT !.state = "WaitingEntry", !.side = side]]
         \/ /\ position' = position /\ position[p].state = "Open" /\ n = Held(p)
            /\ ~IsActive(position[p].entryOrder) /\ ~IsActive(position[p].exitOrder)
  PROVE  IInv'
<1>1. TypeOK /\ failure = "none"
  BY Parts
<1>2. PICK o \in OrderIds : o = NextOrder
  BY DEF SubmitOrder
<1>3. PICK e, c : e = Frame("notify", 0, o, "SUBMITTED", 0) /\ c = Frame("register", p, o, "NONE", 0)
  OBVIOUS
<1>4. UNCHANGED <<links, heard>>
  OBVIOUS
<1>5. Matches(e, c)'
  <2>1. e = Frame("notify", 0, NextOrder, "SUBMITTED", 0) /\ c = Frame("register", p, NextOrder, "NONE", 0)
    BY <1>2, <1>3
  <2> QED BY <1>1, <1>4, <2>1, Submitted
<1>6. c \in Frames /\ c.at \in {"register", "exit"}
  <2>1. c \in Frames
    BY <1>3 DEF Frame, Frames, Types
  <2> QED BY <1>3, <2>1, FrameIs
<1>7. PICK t : t = <<c>> \o rest
  OBVIOUS
<1>8. /\ t \in Seq(Frames) /\ Call(t) = c /\ Below(t) = rest
      /\ ~Starts(t, {"onOrderUpdated"}) /\ ~Starts(t, {"notify"})
  BY <1>6, <1>7, CallStack
<1>9. PICK s : s = stack'
  OBVIOUS
<1>10. s = Announcing(o, "SUBMITTED", 0, t)
  <2>1. s = Handlers(o, "SUBMITTED", 0) \o <<c>> \o rest
    <3>1. stack' = Handlers(NextOrder, "SUBMITTED", 0) \o <<Frame("register", p, NextOrder, "NONE", 0)>> \o rest
      BY DEF SubmitOrder
    <3>2. NextOrder = o /\ Frame("register", p, o, "NONE", 0) = c
      BY <1>2, <1>3
    <3> QED BY ONLY <1>9, <3>1, <3>2
  <2>2. PICK a \in Frames, b \in Frames : a = Callback("onOrderUpdated", 0) /\ b = Frame("notify", 0, o, "SUBMITTED", 0)
    <3>1. Callback("onOrderUpdated", 0) \in Frames
      BY CallbackIn DEF Callbacks
    <3>2. Frame("notify", 0, o, "SUBMITTED", 0) \in Frames
      BY DEF Frame, Frames, Types
    <3> QED BY <3>1, <3>2
  <2>3. <<a, b>> \o <<c>> \o rest = <<a, b>> \o (<<c>> \o rest)
    <3>1. c \in Frames
      BY <1>6
    <3> QED BY <3>1
  <2> QED BY <1>7, <2>1, <2>2, <2>3 DEF Handlers, Announcing
<1>11. /\ s \in Seq(Frames) /\ Plain(Below(s)) /\ Starts(Rest(s), {"notify"})
       /\ Event(s) = e /\ Call(s) = c
  <2>1. "SUBMITTED" \in Types /\ 0 \in Nat
    BY DEF Types
  <2> QED BY <1>3, <1>8, <1>10, <2>1, EventStack
<1>12. TypeOK'
  <2>1. state' \in [OrderIds -> Broker!States]
    BY <1>1 DEF TypeOK, SubmitOrder, Broker!SwitchState, Broker!States
  <2>2. quantity' \in [OrderIds -> Nat] /\ filled' \in [OrderIds -> Nat] /\ owner' \in [OrderIds -> PositionIds \cup {0}]
    BY <1>1 DEF TypeOK, SubmitOrder
  <2>3. position' \in [PositionIds -> PositionRecords]
    <3>1. ASSUME NEW side \in {1, -1} PROVE [NoPosition EXCEPT !.state = "WaitingEntry", !.side = side] \in PositionRecords
      <4>1. NoPosition \in PositionRecords
        BY DEF NoPosition, PositionRecords
      <4> QED BY <4>1 DEF PositionRecords
    <3>2. position \in [PositionIds -> PositionRecords]
      BY <1>1 DEF TypeOK
    <3> QED BY <3>1, <3>2
  <2> QED BY <1>1, <1>9, <1>11, <2>1, <2>2, <2>3 DEF TypeOK, links
<1>13. StackOK' /\ Matches(Event(stack), Call(stack))'
  BY <1>5, <1>9, <1>11 DEF StackOK
<1> QED BY <1>1, <1>12, <1>13 DEF IInv, Running

(* In the callbacks in which it may act, the strategy finds every position *)
(* up to date.                                                             *)
LEMMA ActsWhenUpToDate ==
  ASSUME IInv, Acts, "onOrderUpdated" \notin ActsIn
  PROVE  /\ Event(stack) = NoFrame /\ Call(stack) = NoFrame /\ Matches(NoFrame, NoFrame)
         /\ Plain(stack) /\ stack \in Seq(Frames)
         /\ ~Starts(stack, {"onOrderUpdated"}) /\ ~Starts(stack, {"notify"})
<1>1. stack # <<>> /\ Head(stack).at \in Callbacks \ {"onOrderUpdated"}
  BY PositionsAssumption DEF Acts, Top
<1>2. Plain(stack) /\ stack \in Seq(Frames)
  BY <1>1, Parts, Popped
<1>3. Event(stack) = NoFrame /\ Call(stack) = NoFrame /\ ~Starts(stack, {"onOrderUpdated"}) /\ ~Starts(stack, {"notify"})
  BY <1>2, PlainStack
<1> QED BY <1>2, <1>3, Parts

(* The same when nothing runs but the broker.                              *)
LEMMA BrokerWhenUpToDate ==
  ASSUME IInv, stack = <<>>
  PROVE  /\ Event(stack) = NoFrame /\ Call(stack) = NoFrame /\ Matches(NoFrame, NoFrame) /\ Plain(stack)
         /\ ~Starts(stack, {"onOrderUpdated"}) /\ ~Starts(stack, {"notify"})
<1>1. Plain(stack) /\ stack \in Seq(Frames)
  BY DEF Plain
<1>2. Event(stack) = NoFrame /\ Call(stack) = NoFrame /\ ~Starts(stack, {"onOrderUpdated"}) /\ ~Starts(stack, {"notify"})
  BY <1>1, PlainStack
<1> QED BY <1>1, <1>2, Parts

(* An order of a position that is canceled, or that the broker changes, is *)
(* announced on top of callbacks.                                          *)
LEMMA EmitsPlain ==
  ASSUME IInv, Event(stack) = NoFrame, Call(stack) = NoFrame, Plain(stack),
         NEW o \in OrderIds, state[o] # "INITIAL",
         Broker!Accept(o) \/ Broker!Execute(o) \/ Broker!Cancel(o),
         UNCHANGED <<position, links, failure, owner, heard>>,
         stack' = Announcing(o, state'[o], filled'[o] - filled[o], stack)
  PROVE  IInv'
<1>1. /\ TypeOK /\ OrdersOK /\ stack \in Seq(Frames)
      /\ ~Starts(stack, {"onOrderUpdated"}) /\ ~Starts(stack, {"notify"}) /\ Plain(Below(stack))
  BY Parts, PlainStack DEF Matches
<1>2. PICK n \in Nat, new \in Types : n = filled'[o] - filled[o] /\ new = state'[o] /\ new # "SUBMITTED"
  BY <1>1, BrokerStep DEF Types
<1>3. PICK e, c : e = Frame("notify", 0, o, new, n) /\ c = NoFrame
  OBVIOUS
<1>4. CallOK(e, c)'
  BY <1>2, <1>3, FrameIs, NoFrameIs DEF CallOK
<1>5. stack' = Handlers(o, state'[o], filled'[o] - filled[o]) \o stack
  BY DEF Announcing
<1>6. e = Frame("notify", 0, o, state'[o], filled'[o] - filled[o]) /\ c = Call(stack) /\ (c = NoFrame \/ c.at = "exit") /\ c.order = 0
  BY <1>2, <1>3, NoFrameIs
<1> QED BY <1>1, <1>4, <1>5, <1>6, Emits

(* The broker runs.                                                        *)
LEMMA BrokerInv ==
  ASSUME IInv, BrokerSteps
  PROVE  IInv'
<1>1. TypeOK /\ OrdersOK /\ state \in [OrderIds -> Broker!States] /\ failure = "none"
  BY Parts DEF Matches, TypeOK
<1>2. ASSUME NEW o \in OrderIds, BrokerRuns, state[o] # "INITIAL",
             Broker!Accept(o) \/ Broker!Execute(o) \/ Broker!Cancel(o),
             stack' = Handlers(o, state'[o], filled'[o] - filled[o]),
             UNCHANGED <<position, links, failure, owner, heard>>
      PROVE  IInv'
  <2>1. stack = <<>>
    BY <1>2 DEF BrokerRuns
  <2>2. PICK n \in Nat, new \in Types : n = filled'[o] - filled[o] /\ new = state'[o]
    <3>1. filled'[o] - filled[o] \in Nat /\ state'[o] \in {"ACCEPTED", "CANCELED", "PARTIALLY_FILLED", "FILLED"}
      BY <1>1, <1>2, BrokerStep
    <3> QED BY <3>1 DEF Types
  <2>3. Handlers(o, new, n) \o <<>> = Handlers(o, new, n)
    BY DEF Handlers
  <2>4. stack' = Announcing(o, state'[o], filled'[o] - filled[o], stack)
    BY <1>2, <2>1, <2>2, <2>3 DEF Announcing
  <2> QED BY <1>2, <2>1, <2>4, BrokerWhenUpToDate, EmitsPlain
<1>3. ASSUME NEW o \in OrderIds, AcceptOrder(o) PROVE IInv'
  <2>1. /\ BrokerRuns /\ Broker!Accept(o) /\ stack' = Handlers(o, "ACCEPTED", 0)
        /\ UNCHANGED <<position, links, failure, owner, heard>>
    BY <1>3 DEF AcceptOrder
  <2>2. state[o] # "INITIAL"
    BY <1>1, <2>1 DEF Broker!Accept, Broker!SwitchState, Broker!ValidTransitions
  <2>3. state'[o] = "ACCEPTED" /\ filled'[o] - filled[o] = 0
    <3>1. state'[o] = "ACCEPTED" /\ filled'[o] - filled[o] \in Nat /\ filled'[o] = filled[o]
      BY <1>1, <2>1, <2>2, BrokerStep DEF IsFill
    <3>2. filled[o] \in Nat
      BY <1>1 DEF TypeOK
    <3> QED BY <3>1, <3>2
  <2> QED BY <1>2, <2>1, <2>2, <2>3
<1>4. ASSUME NEW o \in OrderIds, FillOrder(o) PROVE IInv'
  <2>1. /\ BrokerRuns /\ Broker!Execute(o) /\ stack' = Handlers(o, state'[o], filled'[o] - filled[o])
        /\ UNCHANGED <<position, links, failure, owner, heard>>
    BY <1>4 DEF FillOrder
  <2>2. state[o] # "INITIAL"
    BY <1>1, <2>1 DEF Broker!Execute, Broker!SwitchState, Broker!ValidTransitions
  <2> QED BY <1>2, <2>1, <2>2
<1>5. ASSUME NEW o \in OrderIds, ExpireOrder(o) PROVE IInv'
  <2>1. /\ BrokerRuns /\ state[o] # "INITIAL" /\ Broker!Cancel(o) /\ stack' = Handlers(o, "CANCELED", 0)
        /\ UNCHANGED <<position, links, failure, owner, heard>>
    BY <1>5 DEF ExpireOrder
  <2>2. state'[o] = "CANCELED" /\ filled'[o] - filled[o] = 0
    <3>1. state'[o] = "CANCELED" /\ filled'[o] - filled[o] \in Nat /\ filled'[o] = filled[o]
      BY <1>1, <2>1, BrokerStep DEF IsFill
    <3>2. filled[o] \in Nat
      BY <1>1 DEF TypeOK
    <3> QED BY <3>1, <3>2
  <2> QED BY <1>2, <2>1, <2>2
<1>6. CASE NewBars
  <2>1. stack = <<>> /\ UNCHANGED <<order, position, links, failure, owner, heard>>
    BY <1>6 DEF NewBars, BrokerRuns
  <2>2. PICK a \in Frames : a = Callback("onBars", 0) /\ a.at = "onBars"
    BY CallbackIn DEF Callbacks
  <2>3. PICK s : s = stack' /\ s = <<a>>
    BY <1>6, <2>2 DEF NewBars
  <2>4. s \in Seq(Frames) /\ Plain(s)
    BY <2>2, <2>3 DEF Plain, Callbacks
  <2>5. Event(s) = NoFrame /\ Call(s) = NoFrame /\ Below(s) = s /\ ~Starts(s, {"onOrderUpdated"})
    BY <2>4, PlainStack
  <2>6. Matches(NoFrame, NoFrame)'
    BY <2>1, BrokerWhenUpToDate, StackAside
  <2>7. TypeOK'
    BY <1>1, <2>1, <2>3, <2>4 DEF TypeOK, order, links
  <2>8. StackOK' /\ Matches(Event(stack), Call(stack))'
    BY <2>3, <2>4, <2>5, <2>6 DEF StackOK
  <2> QED BY <1>1, <2>1, <2>7, <2>8 DEF IInv, Running
<1> QED BY <1>3, <1>4, <1>5, <1>6 DEF BrokerSteps

(* A callback returns.                                                     *)
LEMMA ReturnInv ==
  ASSUME IInv, Return
  PROVE  IInv'
<1>1. /\ stack # <<>> /\ Head(stack).at \in Callbacks /\ stack' = Tail(stack)
      /\ UNCHANGED <<order, position, links, failure, owner, heard>>
  BY DEF Return, Top
<1>2. /\ Tail(stack) \in Seq(Frames) /\ Plain(Below(Tail(stack))) /\ ~Starts(Tail(stack), {"onOrderUpdated"})
  BY <1>1, Parts, Popped
<1>3. Event(Tail(stack)) = Event(stack) /\ Call(Tail(stack)) = Call(stack)
  <2>1. CASE Head(stack).at = "onOrderUpdated"
    BY <1>1, <2>1, Parts, Popped
  <2>2. CASE Head(stack).at # "onOrderUpdated"
    <3>1. Plain(stack) /\ Plain(Tail(stack))
      BY <1>1, <2>2, Parts, Popped
    <3> QED BY <1>2, <3>1, Parts, PlainStack
  <2> QED BY <2>1, <2>2
<1>4. PICK s, e, c : s = Tail(stack) /\ e = Event(stack) /\ c = Call(stack) /\ Matches(e, c)
  BY Parts
<1>5. Matches(e, c)'
  BY <1>1, <1>4, StackAside
<1>6. Matches(Event(stack), Call(stack))'
  BY <1>1, <1>3, <1>4, <1>5
<1>7. TypeOK'
  BY <1>1, <1>2, Parts DEF TypeOK, order, links
<1>8. StackOK'
  BY <1>1, <1>2 DEF StackOK
<1> QED BY <1>1, <1>6, <1>7, <1>8, Parts DEF IInv, Running

(* The strategy cancels an order.                                          *)
LEMMA CancelInv ==
  ASSUME IInv, Acts, "onOrderUpdated" \notin ActsIn, NEW o \in OrderIds, state[o] # "INITIAL",
         CancelOrder(o, stack), UNCHANGED <<position, links, failure, owner, heard>>
  PROVE  IInv'
<1>1. Broker!Cancel(o) /\ stack' = Handlers(o, "CANCELED", 0) \o stack
  BY DEF CancelOrder
<1>2. TypeOK /\ OrdersOK
  BY Parts DEF Matches
<1>3. state'[o] = "CANCELED" /\ filled'[o] - filled[o] = 0
  <2>1. state'[o] = "CANCELED" /\ filled'[o] = filled[o] /\ filled[o] \in Nat
    BY <1>1, <1>2, BrokerStep DEF IsFill, TypeOK
  <2> QED BY <2>1
<1>4. stack' = Announcing(o, state'[o], filled'[o] - filled[o], stack)
  BY <1>1, <1>3 DEF Announcing
<1> QED BY <1>1, <1>4, ActsWhenUpToDate, EmitsPlain

(* The orders of a position.                                               *)
LEMMA OwnOrders ==
  ASSUME TypeOK, NEW e, NEW c, Matches(e, c), NEW p \in PositionIds, NEW o,
         o \in {position[p].entryOrder, position[p].exitOrder}, o # 0
  PROVE  o \in OrderIds /\ owner[o] = p /\ state[o] # "INITIAL"
<1>1. o \in OrderIds
  BY DEF TypeOK, PositionRecords
<1>2. owner[o] = p /\ p # 0
  BY Zero DEF Matches, HasOrders
<1> QED BY <1>1, <1>2 DEF Matches, OrdersOK

(* A position is entered.                                                  *)
LEMMA EnterInv ==
  ASSUME IInv, "onOrderUpdated" \notin ActsIn, NEW p \in PositionIds, NEW side \in Sides, Enter(p, side)
  PROVE  IInv'
<1>1. /\ Acts /\ position[p].state = "None" /\ SubmitOrder(p, Quantity, stack)
      /\ position' = [position EXCEPT ![p] = [NoPosition EXCEPT !.state = "WaitingEntry", !.side = side]]
      /\ UNCHANGED <<links, failure, heard>>
  BY DEF Enter
<1>2. Quantity \in Nat /\ Quantity >= 1 /\ side \in {1, -1}
  BY PositionsAssumption
<1>3. /\ Matches(NoFrame, NoFrame) /\ NoFrame.order = 0 /\ Plain(stack) /\ stack \in Seq(Frames)
  BY <1>1, ActsWhenUpToDate, NoFrameIs
<1> QED BY <1>1, <1>2, <1>3, SubmitEmits

(* The strategy cancels the orders of a position.                          *)
LEMMA CancelsInv ==
  ASSUME IInv, "onOrderUpdated" \notin ActsIn, NEW p \in PositionIds,
         CancelEntry(p) \/ CancelExit(p) \/ ExitWaiting(p)
  PROVE  IInv'
<1>1. TypeOK /\ Acts /\ Known(p)
  BY Parts DEF CancelEntry, CancelExit, ExitWaiting
<1>2. Matches(NoFrame, NoFrame)
  BY <1>1, ActsWhenUpToDate
<1>3. CASE CancelEntry(p)
  <2>1. IsActive(position[p].entryOrder) /\ CancelOrder(position[p].entryOrder, stack)
        /\ UNCHANGED <<position, links, failure, owner, heard>>
    BY <1>3 DEF CancelEntry
  <2>2. position[p].entryOrder \in OrderIds /\ state[position[p].entryOrder] # "INITIAL"
    BY <1>1, <1>2, <2>1, OwnOrders DEF IsActive
  <2> QED BY <1>1, <2>1, <2>2, CancelInv
<1>4. CASE CancelExit(p)
  <2>1. IsActive(position[p].exitOrder) /\ CancelOrder(position[p].exitOrder, stack)
        /\ UNCHANGED <<position, links, failure, owner, heard>>
    BY <1>4 DEF CancelExit
  <2>2. position[p].exitOrder \in OrderIds /\ state[position[p].exitOrder] # "INITIAL"
    BY <1>1, <1>2, <2>1, OwnOrders DEF IsActive
  <2> QED BY <1>1, <2>1, <2>2, CancelInv
<1>5. CASE ExitWaiting(p)
  <2>1. IsWaiting(p, NoFrame, NoFrame)
    BY <1>2, <1>5 DEF ExitWaiting, Matches, StateOK
  <2>2. position[p].shares = 0 /\ IsActive(position[p].entryOrder)
    BY <1>1, <2>1, NoFrameIs, Zero DEF Known, IsWaiting, KnownActive
  <2>3. CancelOrder(position[p].entryOrder, stack) /\ UNCHANGED <<position, links, failure, owner, heard>>
    BY <1>5, <2>2 DEF ExitWaiting
  <2>4. position[p].entryOrder \in OrderIds /\ state[position[p].entryOrder] # "INITIAL"
    BY <1>1, <1>2, <2>2, OwnOrders DEF IsActive
  <2> QED BY <1>1, <2>3, <2>4, CancelInv
<1> QED BY <1>3, <1>4, <1>5

(* An open position holds its side.                                        *)
LEMMA OpenHolds ==
  ASSUME TypeOK, NEW e, NEW c, Matches(e, c), NEW p \in PositionIds, position[p].state = "Open"
  PROVE  /\ Held(p) \in Nat /\ Held(p) >= 1 /\ ExitQuantity(p) = Held(p) /\ HoldsItsSide(p) /\ position[p].shares # 0
<1>1. Held(p) >= 1
  BY DEF Matches, StateOK, IsOpen
<1>2. position[p].shares \in Int /\ position[p].side \in {1, -1}
  BY DEF TypeOK, PositionRecords
<1>3. Held(p) \in Int
  BY <1>2 DEF Held
<1>4. position[p].shares # 0
  BY <1>1, <1>2 DEF Held
<1>5. Held(p) > 0 /\ Held(p) \in Nat
  BY <1>1, <1>3
<1>6. HoldsItsSide(p)
  BY <1>5 DEF HoldsItsSide, Held
<1> QED BY <1>1, <1>4, <1>5, <1>6 DEF ExitQuantity, Held

(* An open position is exited: its entry order is canceled first, if it is *)
(* still active.                                                           *)
LEMMA ExitOpenInv ==
  ASSUME IInv, "onOrderUpdated" \notin ActsIn, NEW p \in PositionIds, ExitOpen(p)
  PROVE  IInv'
<1>1. TypeOK /\ OrdersOK /\ Acts /\ position[p].state = "Open" /\ ~IsActive(position[p].exitOrder)
  BY Parts DEF ExitOpen, Matches
<1>2. /\ Event(stack) = NoFrame /\ Call(stack) = NoFrame /\ Matches(NoFrame, NoFrame)
      /\ Plain(stack) /\ stack \in Seq(Frames)
  BY <1>1, ActsWhenUpToDate
<1>3. /\ Held(p) \in Nat /\ Held(p) >= 1 /\ ExitQuantity(p) = Held(p) /\ HoldsItsSide(p) /\ position[p].shares # 0
  BY <1>1, <1>2, OpenHolds
<1>4. /\ UNCHANGED <<position, links, failure, heard>>
      /\ IF IsActive(position[p].entryOrder)
         THEN /\ CancelOrder(position[p].entryOrder, <<Callback("exit", p)>> \o stack)
              /\ owner' = owner
         ELSE SubmitOrder(p, ExitQuantity(p), stack)
  BY <1>3 DEF ExitOpen, EntryToCancel
<1>5. CASE ~IsActive(position[p].entryOrder)
  <2>1. SubmitOrder(p, Held(p), stack) /\ NoFrame.order = 0
    BY <1>3, <1>4, <1>5, NoFrameIs
  <2>2. UNCHANGED <<links, failure, heard>> /\ position' = position
    BY <1>4
  <2> QED BY <1>1, <1>2, <1>3, <1>5, <2>1, <2>2, SubmitEmits
<1>6. CASE IsActive(position[p].entryOrder)
  <2>1. PICK o : o = position[p].entryOrder /\ o # 0
    BY <1>6 DEF IsActive
  <2>2. o \in OrderIds /\ owner[o] = p /\ state[o] # "INITIAL"
    BY <1>1, <1>2, <2>1, OwnOrders
  <2>3. PICK c, t : c = Callback("exit", p) /\ t = <<c>> \o stack
    OBVIOUS
  <2>4. c \in Frames /\ c.at = "exit" /\ c.order = 0 /\ c.position = p
    BY <2>3 DEF Callback, Frame, Frames, Types
  <2>5. /\ t \in Seq(Frames) /\ Call(t) = c /\ Plain(Below(t))
        /\ ~Starts(t, {"onOrderUpdated"}) /\ ~Starts(t, {"notify"})
    <3>1. /\ t \in Seq(Frames) /\ Call(t) = c /\ Below(t) = stack
          /\ ~Starts(t, {"onOrderUpdated"}) /\ ~Starts(t, {"notify"})
      BY <1>2, <2>3, <2>4, CallStack
    <3> QED BY <1>2, <3>1
  <2>6. Broker!Cancel(o) /\ UNCHANGED <<position, links, failure, owner, heard>>
    BY <1>4, <1>6, <2>1 DEF CancelOrder
  <2>7. /\ state'[o] = "CANCELED" /\ filled'[o] - filled[o] = 0
        /\ \A x \in OrderIds \ {o} : state'[x] = state[x]
    <3>1. state'[o] = "CANCELED" /\ filled'[o] = filled[o] /\ filled[o] \in Nat
          /\ \A x \in OrderIds \ {o} : state'[x] = state[x]
      BY <1>1, <2>2, <2>6, BrokerStep DEF IsFill, TypeOK
    <3> QED BY <3>1
  <2>8. stack' = Handlers(o, state'[o], filled'[o] - filled[o]) \o t
    BY <1>4, <1>6, <2>1, <2>3, <2>7 DEF CancelOrder
  <2>9. PICK e : e = Frame("notify", 0, o, state'[o], filled'[o] - filled[o])
    OBVIOUS
  <2>10. e.order = o /\ e.type = "CANCELED"
    BY <2>7, <2>9, FrameIs
  <2>11. CallOK(e, c)'
    <3>1. PICK exit : exit = position[p].exitOrder /\ exit \in OrderIds \cup {0}
      BY <1>1 DEF TypeOK, PositionRecords
    <3>2. ~IsActive(o)' /\ ~IsActive(exit)'
      BY <1>1, <2>7, <3>1 DEF IsActive
    <3>3. position'[p].entryOrder = o /\ position'[p].exitOrder = exit /\ position'[p].state = "Open"
      BY <1>1, <1>4, <2>1, <3>1
    <3> QED BY <2>4, <2>10, <3>2, <3>3, NoFrameIs DEF CallOK
  <2> QED BY <1>2, <2>2, <2>4, <2>5, <2>6, <2>8, <2>9, <2>11, Emits
<1> QED BY <1>5, <1>6

(* A position exits once its entry order was canceled.                     *)
LEMMA SubmitExitInv ==
  ASSUME IInv, SubmitExit
  PROVE  IInv'
<1>1. TypeOK /\ stack # <<>> /\ Head(stack).at = "exit"
  BY Parts DEF SubmitExit, Top
<1>2. PICK c : c = Head(stack) /\ c.at = "exit"
  BY <1>1
<1>3. /\ Matches(NoFrame, c) /\ Plain(Tail(stack)) /\ Tail(stack) \in Seq(Frames)
  <2>1. Event(stack) = NoFrame /\ Call(stack) = c /\ Plain(Tail(stack)) /\ Tail(stack) \in Seq(Frames)
    BY <1>1, <1>2, Parts, Popped
  <2> QED BY <2>1, Parts
<1>4. PICK p : p = c.position
  OBVIOUS
<1>5. /\ p \in PositionIds /\ c.order = 0 /\ position[p].state = "Open"
      /\ ~IsActive(position[p].entryOrder) /\ ~IsActive(position[p].exitOrder)
  BY <1>2, <1>3, <1>4 DEF Matches, CallOK
<1>6. /\ Held(p) \in Nat /\ Held(p) >= 1 /\ ExitQuantity(p) = Held(p) /\ HoldsItsSide(p)
  BY <1>1, <1>3, <1>5, OpenHolds
<1>7. SubmitOrder(p, Held(p), Tail(stack)) /\ UNCHANGED <<links, failure, heard>> /\ position' = position
  BY <1>2, <1>4, <1>5, <1>6 DEF SubmitExit, Top
<1>8. PICK n \in Nat : n = Held(p) /\ n >= 1
  BY <1>6
<1>9. SubmitOrder(p, n, Tail(stack))
  BY <1>7, <1>8
<1> QED BY <1>3, <1>5, <1>7, <1>8, <1>9, SubmitEmits

(* The order of a call is registered.                                      *)
LEMMA RegisterOrderInv ==
  ASSUME IInv, RegisterOrder
  PROVE  IInv'
<1>1. TypeOK /\ stack # <<>> /\ Head(stack).at = "register"
  BY Parts DEF RegisterOrder, Top
<1>2. PICK c : c = Head(stack) /\ c.at = "register"
  BY <1>1
<1>3. Event(stack) = NoFrame /\ Call(stack) = c /\ Plain(Tail(stack)) /\ Tail(stack) \in Seq(Frames)
  BY <1>1, <1>2, Parts, Popped
<1>4. Matches(NoFrame, c)
  BY <1>3, Parts
<1>5. PICK p, o : p = c.position /\ o = c.order
  OBVIOUS
<1>6. p \in PositionIds /\ o \in OrderIds /\ state[o] = "SUBMITTED"
  BY <1>2, <1>4, <1>5 DEF Matches, CallOK
<1>7. IsActive(o)
  BY <1>6, Zero DEF IsActive
<1>8. /\ position' = [position EXCEPT
               ![p].activeOrders = @ \cup {o},
               ![p].entryOrder = IF position[p].entryOrder = 0 THEN o ELSE @,
               ![p].exitOrder = IF position[p].entryOrder = 0 THEN @ ELSE o]
      /\ activePositions' = activePositions \cup {p}
      /\ orderToPosition' = [orderToPosition EXCEPT ![o] = p]
      /\ stack' = Tail(stack)
      /\ UNCHANGED <<order, failure, owner, heard>>
  BY <1>2, <1>5, <1>7 DEF RegisterOrder, Top
<1>9. UNCHANGED <<order, owner, heard>>
  BY <1>8
<1>10. Matches(NoFrame, NoFrame)'
  BY <1>1, <1>2, <1>4, <1>5, <1>6, <1>8, <1>9, Registered
<1>11. PICK s : s = Tail(stack) /\ s = stack'
  BY <1>8
<1>12. Event(s) = NoFrame /\ Call(s) = NoFrame /\ Below(s) = s /\ Plain(s) /\ ~Starts(s, {"onOrderUpdated"})
  BY <1>3, <1>11, PlainStack
<1>13. position' \in [PositionIds -> PositionRecords]
  <2>1. position \in [PositionIds -> PositionRecords]
    BY <1>1 DEF TypeOK
  <2>2. PICK entry \in OrderIds \cup {0}, exit \in OrderIds \cup {0} :
          /\ entry = IF position[p].entryOrder = 0 THEN o ELSE position[p].entryOrder
          /\ exit = IF position[p].entryOrder = 0 THEN position[p].exitOrder ELSE o
    BY <1>6, <2>1 DEF PositionRecords
  <2>3. position' = [position EXCEPT ![p] = [position[p] EXCEPT !.activeOrders = position[p].activeOrders \cup {o},
                                                                  !.entryOrder = entry, !.exitOrder = exit]]
    BY <1>6, <1>8, <2>1, <2>2
  <2>4. [position[p] EXCEPT !.activeOrders = position[p].activeOrders \cup {o}, !.entryOrder = entry, !.exitOrder = exit]
          \in PositionRecords
    <3>1. PICK r \in PositionRecords : r = position[p]
      BY <1>6, <2>1
    <3>2. [r EXCEPT !.activeOrders = r.activeOrders \cup {o}, !.entryOrder = entry, !.exitOrder = exit] \in PositionRecords
      BY <1>6 DEF PositionRecords
    <3> QED BY <3>1, <3>2
  <2> QED BY <2>1, <2>3, <2>4
<1>14. TypeOK'
  BY <1>1, <1>3, <1>6, <1>8, <1>13 DEF TypeOK, order
<1>15. StackOK' /\ Matches(Event(stack), Call(stack))'
  BY <1>10, <1>11, <1>12 DEF StackOK
<1> QED BY <1>8, <1>14, <1>15, Parts DEF IInv, Running

(* An event is on top: what there is to tell, and to whom.                 *)
LEMMA NotifiedIs ==
  ASSUME IInv, NEW p, Notified(p)
  PROVE  /\ Top \in Frames /\ Top # NoFrame /\ Event(stack) = Top /\ orderToPosition[Top.order] = p
         /\ Top.order \in OrderIds /\ Top.quantity \in Nat
         /\ Call(stack) = NoFrame \/ Call(stack).at \in {"register", "exit"}
         /\ Matches(Top, Call(stack))
         /\ Tail(stack) \in Seq(Frames) /\ Plain(Below(Tail(stack))) /\ ~Starts(Tail(stack), {"onOrderUpdated"})
         /\ Event(Tail(stack)) = NoFrame /\ Call(Tail(stack)) = Call(stack)
<1>1. stack # <<>> /\ Head(stack).at = "notify" /\ Top = Head(stack) /\ orderToPosition[Top.order] = p
  BY DEF Notified, Top
<1>2. /\ Tail(stack) \in Seq(Frames) /\ Head(stack) \in Frames /\ Event(stack) = Head(stack)
      /\ Plain(Below(Tail(stack))) /\ ~Starts(Tail(stack), {"onOrderUpdated"})
      /\ Event(Tail(stack)) = NoFrame /\ Call(Tail(stack)) = Call(stack)
  BY <1>1, Parts, Popped
<1>3. Top # NoFrame
  BY <1>1, NoFrameIs
<1>4. Matches(Top, Call(stack))
  BY <1>1, <1>2, Parts
<1>5. Top.order \in OrderIds /\ Top.quantity \in Nat
  BY <1>3, <1>4 DEF Matches, EventOK
<1> QED BY <1>1, <1>2, <1>3, <1>4, <1>5, CallIs

(* An event that nobody is told of.                                        *)
LEMMA NotLinkedInv ==
  ASSUME IInv, NotLinked
  PROVE  IInv'
<1>1. Notified(0) /\ stack' = Tail(stack) /\ UNCHANGED <<order, position, links, failure, owner, heard>>
  BY DEF NotLinked
<1>2. PICK e, c, s : e = Top /\ c = Call(stack) /\ s = Tail(stack)
  OBVIOUS
<1>3. /\ e # NoFrame /\ orderToPosition[e.order] = 0 /\ Matches(e, c) /\ TypeOK
      /\ s \in Seq(Frames) /\ Plain(Below(s)) /\ ~Starts(s, {"onOrderUpdated"})
      /\ Event(s) = NoFrame /\ Call(s) = c
  BY <1>1, <1>2, NotifiedIs, Parts
<1>4. UNCHANGED <<order, position, links, owner, heard>>
  BY <1>1
<1>5. Matches(NoFrame, c)'
  BY <1>3, <1>4, ToldNobody
<1>6. TypeOK'
  BY <1>1, <1>2, <1>3 DEF TypeOK, order, links
<1>7. StackOK' /\ Matches(Event(stack), Call(stack))'
  BY <1>1, <1>2, <1>3, <1>5 DEF StackOK
<1> QED BY <1>1, <1>6, <1>7, Parts DEF IInv, Running

(* The position after an event holds values of their kinds.                *)
LEMMA UpdatedIs ==
  ASSUME IInv, NEW p \in PositionIds, Notified(p), NEW new \in {"None", "WaitingEntry", "Open", "Closed"}
  PROVE  /\ Updated(p) \in PositionRecords /\ [Updated(p) EXCEPT !.state = new] \in PositionRecords
         /\ Updated(p).state = position[p].state /\ Updated(p).side = position[p].side
         /\ Updated(p).entryOrder = position[p].entryOrder /\ Updated(p).exitOrder = position[p].exitOrder
         /\ Updated(p).shares = position[p].shares + SharesMoved(p, Top.order, Top.type, Top.quantity)
         /\ Updated(p).activeOrders = StillActive(p, Top.order)
<1>1. PICK r \in PositionRecords : r = position[p]
  BY Parts DEF TypeOK
<1>2. Top.quantity \in Nat
  BY NotifiedIs
<1>3. PICK moved \in Int : moved = SharesMoved(p, Top.order, Top.type, Top.quantity)
  <2>1. r.side \in {1, -1}
    BY DEF PositionRecords
  <2>2. r.side * Top.quantity \in Int /\ -r.side * Top.quantity \in Int
    BY <1>2, <2>1
  <2> QED BY <1>1, <2>2 DEF SharesMoved
<1>4. PICK orders \in SUBSET OrderIds : orders = StillActive(p, Top.order)
  BY <1>1 DEF StillActive, PositionRecords
<1>5. PICK shares \in Int : shares = r.shares + moved
  <2>1. r.shares \in Int
    BY DEF PositionRecords
  <2> QED BY <2>1
<1>6. PICK u : u = [r EXCEPT !.shares = shares, !.activeOrders = orders]
  OBVIOUS
<1>7. Updated(p) = u
  BY <1>1, <1>3, <1>4, <1>5, <1>6 DEF Updated
<1>8. /\ u \in PositionRecords /\ u.state = r.state /\ u.side = r.side
      /\ u.entryOrder = r.entryOrder /\ u.exitOrder = r.exitOrder
      /\ u.shares = shares /\ u.activeOrders = orders
  BY <1>6 DEF PositionRecords
<1>9. [u EXCEPT !.state = new] \in PositionRecords
  BY <1>8 DEF PositionRecords
<1> QED BY <1>1, <1>3, <1>4, <1>5, <1>7, <1>8, <1>9

(* The position is told, and stays in its state.                           *)
LEMMA StayTells ==
  ASSUME IInv, NEW p \in PositionIds, Notified(p), Stay(p)
  PROVE  /\ Tells(Top, p) /\ position'[p].state = position[p].state /\ heard'[p] = heard[p]
         /\ activePositions' = activePositions /\ TypeOK' /\ failure' = failure /\ stack' = Tail(stack)
<1>1. /\ position \in [PositionIds -> PositionRecords] /\ position' = [position EXCEPT ![p] = Updated(p)]
      /\ Updated(p) \in PositionRecords
  BY Parts, UpdatedIs DEF Stay, TypeOK
<1>2. position'[p] = Updated(p) /\ \A q \in PositionIds \ {p} : position'[q] = position[q]
  BY <1>1
<1>3. /\ orderToPosition' = [orderToPosition EXCEPT ![Top.order] = IF IsActive(Top.order) THEN @ ELSE 0]
      /\ UNCHANGED <<state, quantity, filled, owner, heard, activePositions, failure>> /\ stack' = Tail(stack)
  BY DEF Stay, Unlink, order
<1>4. Tells(Top, p)
  BY <1>2, <1>3, NotifiedIs, UpdatedIs DEF Tells
<1>5. TypeOK'
  <2>1. position' \in [PositionIds -> PositionRecords]
    BY <1>1
  <2>2. orderToPosition' \in [OrderIds -> PositionIds \cup {0}]
    BY <1>3, Parts DEF TypeOK
  <2> QED BY <1>3, <2>1, <2>2, NotifiedIs, Parts DEF TypeOK
<1> QED BY <1>2, <1>3, <1>4, <1>5, UpdatedIs

(* The position is told, and calls the strategy back in its new state.     *)
LEMMA SwitchTells ==
  ASSUME IInv, NEW p \in PositionIds, Notified(p), NEW new \in {"Open", "Closed"}, NEW callback \in Callbacks,
         Switch(p, new, callback)
  PROVE  /\ Tells(Top, p) /\ position'[p].state = new /\ heard'[p] = Append(heard[p], callback)
         /\ activePositions' = IF new = "Closed" THEN activePositions \ {p} ELSE activePositions
         /\ TypeOK' /\ failure' = failure /\ stack' = <<Callback(callback, p)>> \o Tail(stack)
<1>1. PICK u \in PositionRecords : /\ u = [Updated(p) EXCEPT !.state = new] /\ u.state = new
        /\ u.side = Updated(p).side /\ u.shares = Updated(p).shares /\ u.activeOrders = Updated(p).activeOrders
        /\ u.entryOrder = Updated(p).entryOrder /\ u.exitOrder = Updated(p).exitOrder
  <2>1. PICK r \in PositionRecords : r = Updated(p)
    BY UpdatedIs
  <2>2. PICK u \in PositionRecords : u = [r EXCEPT !.state = new]
    BY <2>1, UpdatedIs
  <2>3. /\ u.state = new /\ u.side = r.side /\ u.shares = r.shares /\ u.activeOrders = r.activeOrders
        /\ u.entryOrder = r.entryOrder /\ u.exitOrder = r.exitOrder
    BY <2>2 DEF PositionRecords
  <2> QED BY <2>1, <2>2, <2>3
<1>2. /\ position \in [PositionIds -> PositionRecords] /\ position' = [position EXCEPT ![p] = u]
  BY <1>1, Parts DEF Switch, TypeOK
<1>3. position'[p] = u /\ \A q \in PositionIds \ {p} : position'[q] = position[q]
  BY <1>2
<1>4. /\ orderToPosition' = [orderToPosition EXCEPT ![Top.order] = IF IsActive(Top.order) THEN @ ELSE 0]
      /\ activePositions' = IF new = "Closed" THEN activePositions \ {p} ELSE activePositions
      /\ UNCHANGED <<state, quantity, filled, owner, failure>>
      /\ stack' = <<Callback(callback, p)>> \o Tail(stack)
      /\ heard' = [heard EXCEPT ![p] = Append(@, callback)] /\ heard \in [PositionIds -> Seq(Callbacks)]
  BY Parts DEF Switch, Unlink, order, TypeOK
<1>5. heard'[p] = Append(heard[p], callback) /\ \A q \in PositionIds \ {p} : heard'[q] = heard[q]
  BY <1>4
<1>6. Tells(Top, p)
  BY <1>1, <1>3, <1>4, <1>5, NotifiedIs, UpdatedIs DEF Tells
<1>7. TypeOK'
  <2>1. position' \in [PositionIds -> PositionRecords]
    BY <1>2
  <2>2. orderToPosition' \in [OrderIds -> PositionIds \cup {0}]
    BY <1>4, Parts DEF TypeOK
  <2>3. stack' \in Seq(Frames)
    <3>1. PICK a \in Frames : a = Callback(callback, p)
      BY CallbackIn
    <3>2. <<a>> \o Tail(stack) \in Seq(Frames)
      BY NotifiedIs, Cons
    <3> QED BY <1>4, <3>1, <3>2
  <2>4. heard' \in [PositionIds -> Seq(Callbacks)]
    BY <1>4
  <2>5. activePositions' \subseteq PositionIds
    BY <1>4, Parts DEF TypeOK
  <2> QED BY <1>4, <2>1, <2>2, <2>3, <2>4, <2>5, Parts DEF TypeOK
<1> QED BY <1>1, <1>3, <1>4, <1>5, <1>6, <1>7

(* The invariant holds again once a position was told and stayed ...       *)
LEMMA StayInv ==
  ASSUME IInv, NEW p \in PositionIds, Notified(p), Stay(p), position[p].state \in {"WaitingEntry", "Open"},
         position[p].entryOrder # 0, NEW c, c = Call(stack), StateOK(p, NoFrame, c)'
  PROVE  IInv'
<1>1. PICK e, s : e = Top /\ s = Tail(stack)
  OBVIOUS
<1>2. /\ Tells(e, p) /\ position'[p].state = position[p].state
      /\ activePositions' = activePositions /\ TypeOK' /\ failure' = failure /\ stack' = s
  BY <1>1, StayTells
<1>3. /\ Matches(e, c) /\ TypeOK
      /\ s \in Seq(Frames) /\ Plain(Below(s)) /\ ~Starts(s, {"onOrderUpdated"})
      /\ Event(s) = NoFrame /\ Call(s) = c
  BY <1>1, NotifiedIs, Parts
<1>4. CallOK(NoFrame, c)'
  BY <1>2, <1>3, Told
<1>5. Matches(NoFrame, c)'
  <2>1. activePositions' = IF position'[p].state \in {"WaitingEntry", "Open"} THEN activePositions
                           ELSE activePositions \ {p}
    BY <1>2
  <2> QED BY <1>2, <1>3, <1>4, <2>1, ToldMatches
<1>6. StackOK' /\ Matches(Event(stack), Call(stack))'
  BY <1>2, <1>3, <1>5 DEF StackOK
<1> QED BY <1>2, <1>6, Parts DEF IInv, Running

(* ... or switched, and called the strategy back.                          *)
LEMMA SwitchInv ==
  ASSUME IInv, NEW p \in PositionIds, Notified(p), NEW new \in {"Open", "Closed"},
         NEW callback \in Callbacks \ {"onOrderUpdated"}, Switch(p, new, callback),
         position[p].state \in {"WaitingEntry", "Open"}, position[p].entryOrder # 0,
         Call(stack) = NoFrame, StateOK(p, NoFrame, NoFrame)'
  PROVE  IInv'
<1>1. PICK e, s, a : e = Top /\ s = Tail(stack) /\ a = Callback(callback, p)
  OBVIOUS
<1>2. /\ Tells(e, p) /\ position'[p].state = new
      /\ activePositions' = (IF new = "Closed" THEN activePositions \ {p} ELSE activePositions)
      /\ TypeOK' /\ failure' = failure /\ stack' = <<a>> \o s
  BY <1>1, SwitchTells
<1>3. /\ Matches(e, NoFrame) /\ TypeOK
      /\ s \in Seq(Frames) /\ Plain(Below(s)) /\ ~Starts(s, {"onOrderUpdated"})
      /\ Event(s) = NoFrame /\ Call(s) = NoFrame
  BY <1>1, NotifiedIs, Parts
<1>4. Plain(s)
  BY <1>3, NothingWaits
<1>5. PICK t : t = <<a>> \o s /\ t = stack'
  BY <1>2
<1>6. t \in Seq(Frames) /\ Plain(t)
  <2>1. a \in Frames /\ a.at = callback
    BY <1>1, CallbackIn
  <2>2. t \in Seq(Frames)
    BY <1>3, <1>5, <2>1, Cons
  <2>3. \A i \in DOMAIN t : t[i].at \in Callbacks \ {"onOrderUpdated"}
    BY <1>3, <1>4, <1>5, <2>1 DEF Plain
  <2> QED BY <2>2, <2>3 DEF Plain
<1>7. Event(t) = NoFrame /\ Call(t) = NoFrame /\ Below(t) = t /\ ~Starts(t, {"onOrderUpdated"})
  BY <1>6, PlainStack
<1>8. CallOK(NoFrame, NoFrame)'
  BY NoFrameIs DEF CallOK
<1>9. Matches(NoFrame, NoFrame)'
  <2>1. activePositions' = IF position'[p].state \in {"WaitingEntry", "Open"} THEN activePositions
                           ELSE activePositions \ {p}
    BY <1>2
  <2> QED BY <1>2, <1>3, <1>8, <2>1, ToldMatches
<1>10. StackOK' /\ Matches(Event(stack), Call(stack))'
  BY <1>5, <1>6, <1>7, <1>9 DEF StackOK
<1> QED BY <1>2, <1>10, Parts DEF IInv, Running

(* A position that waits is told.                                          *)
LEMMA WaitingEntryInv ==
  ASSUME IInv, NEW p \in PositionIds, WaitingEntryState(p)
  PROVE  IInv'
<1>1. Notified(p) /\ position[p].state = "WaitingEntry" /\ TypeOK
  BY Parts DEF WaitingEntryState
<1>2. PICK e, c : e = Top /\ c = Call(stack)
  OBVIOUS
<1>3. Matches(e, c) /\ (c = NoFrame \/ c.at \in {"register", "exit"})
  BY <1>1, <1>2, NotifiedIs
<1>4. CASE IsFill(e.type)
  <2>1. Switch(p, "Open", "onEnterOk")
    BY <1>2, <1>4 DEF WaitingEntryState, IsFill
  <2>2. /\ Tells(e, p) /\ position'[p].state = "Open" /\ heard'[p] = Append(heard[p], "onEnterOk")
    BY <1>1, <1>2, <2>1, SwitchTells DEF Callbacks
  <2>3. c = NoFrame /\ position[p].entryOrder # 0 /\ StateOK(p, NoFrame, c)'
    BY <1>1, <1>3, <1>4, <2>2, WaitingIsTold
  <2>4. Call(stack) = NoFrame /\ StateOK(p, NoFrame, NoFrame)'
    BY <1>2, <2>3
  <2> QED BY <1>1, <2>1, <2>3, <2>4, SwitchInv DEF Callbacks
<1>5. CASE e.type = "CANCELED"
  <2>1. \/ Switch(p, "Closed", "onEnterCanceled")
        \/ Fail("WaitingEntryState.onOrderEvent") /\ ~(filled[e.order] = 0 /\ Updated(p).shares = 0)
    BY <1>2, <1>5 DEF WaitingEntryState, IsFill
  <2>2. ASSUME Fail("WaitingEntryState.onOrderEvent"), ~(filled[e.order] = 0 /\ Updated(p).shares = 0)
        PROVE  FALSE
    <3>1. e # NoFrame /\ orderToPosition[e.order] = p /\ e.order \in OrderIds
      BY <1>1, <1>2, NotifiedIs
    <3>2. IsWaiting(p, e, c) /\ KnownActive(e.order, e, c) /\ owner[e.order] = p
      BY <1>1, <1>3, <3>1, Zero DEF Matches, StateOK, TablesOK
    <3>3. e.order = position[p].entryOrder /\ KnownFilled(e.order, e) = 0 /\ position[p].shares = 0
      BY <3>1, <3>2 DEF IsWaiting, OrdersOf, KnownActive
    <3>4. e.quantity = 0 /\ filled[e.order] \in Nat
      BY <1>1, <1>3, <1>5, <3>1 DEF Matches, EventOK, IsFill, TypeOK
    <3>5. filled[e.order] = 0
      BY <3>3, <3>4 DEF KnownFilled
    <3>6. Updated(p).shares = 0
      <4>1. SharesMoved(p, e.order, e.type, e.quantity) = 0
        BY <1>5 DEF SharesMoved, IsFill
      <4>2. Updated(p).shares = position[p].shares + SharesMoved(p, e.order, e.type, e.quantity)
        BY <1>1, <1>2, UpdatedIs
      <4> QED BY <3>3, <4>1, <4>2
    <3> QED BY <2>2, <3>5, <3>6
  <2>3. Switch(p, "Closed", "onEnterCanceled")
    BY <2>1, <2>2
  <2>4. /\ Tells(e, p) /\ position'[p].state = "Closed" /\ heard'[p] = Append(heard[p], "onEnterCanceled")
    BY <1>1, <1>2, <2>3, SwitchTells DEF Callbacks
  <2>5. c = NoFrame /\ position[p].entryOrder # 0 /\ StateOK(p, NoFrame, c)'
    BY <1>1, <1>3, <1>5, <2>4, WaitingIsTold
  <2>6. Call(stack) = NoFrame /\ StateOK(p, NoFrame, NoFrame)'
    BY <1>2, <2>5
  <2> QED BY <1>1, <2>3, <2>5, <2>6, SwitchInv DEF Callbacks
<1>6. CASE ~IsFill(e.type) /\ e.type # "CANCELED"
  <2>1. Stay(p)
    BY <1>2, <1>6 DEF WaitingEntryState
  <2>2. Tells(e, p) /\ position'[p].state = "WaitingEntry" /\ heard'[p] = heard[p]
    BY <1>1, <1>2, <2>1, StayTells
  <2>3. position[p].entryOrder # 0 /\ StateOK(p, NoFrame, c)'
    BY <1>1, <1>3, <1>6, <2>2, WaitingIsTold
  <2> QED BY <1>1, <1>2, <2>1, <2>3, StayInv
<1> QED BY <1>4, <1>5, <1>6

(* An open position is told of its exit order.                             *)
LEMMA OpenStateExitInv ==
  ASSUME IInv, NEW p \in PositionIds, OpenStateExit(p)
  PROVE  IInv'
<1>1. Notified(p) /\ position[p].state = "Open" /\ position[p].exitOrder = Top.order /\ TypeOK
  BY Parts DEF OpenStateExit
<1>2. PICK e, c : e = Top /\ c = Call(stack)
  OBVIOUS
<1>3. Matches(e, c) /\ (c = NoFrame \/ c.at \in {"register", "exit"})
  BY <1>1, <1>2, NotifiedIs
<1>4. position \in [PositionIds -> PositionRecords] /\ position[p].shares \in Int
  BY <1>1 DEF TypeOK, PositionRecords
<1>5. CASE Closes(p)
  <2>1. Switch(p, "Closed", "onExitOk") /\ e.type = "FILLED"
    BY <1>2, <1>5 DEF OpenStateExit, Closes
  <2>2. /\ Tells(e, p) /\ position'[p].state = "Closed" /\ heard'[p] = Append(heard[p], "onExitOk")
    BY <1>1, <1>2, <2>1, SwitchTells DEF Callbacks
  <2>3. c = NoFrame /\ position[p].entryOrder # 0 /\ StateOK(p, NoFrame, c)'
    BY <1>1, <1>2, <1>3, <2>1, <2>2, ExitIsTold
  <2>4. Call(stack) = NoFrame /\ StateOK(p, NoFrame, NoFrame)'
    BY <1>2, <2>3
  <2> QED BY <1>1, <2>1, <2>3, <2>4, SwitchInv DEF Callbacks
<1>6. CASE e.type = "CANCELED"
  <2>1. Updated(p).shares # 0
    <3>1. SharesMoved(p, e.order, e.type, e.quantity) = 0
      BY <1>6 DEF SharesMoved, IsFill
    <3>2. Updated(p).shares = position[p].shares + SharesMoved(p, e.order, e.type, e.quantity)
      BY <1>1, <1>2, UpdatedIs
    <3>3. position[p].shares # 0
      BY <1>1, <1>3, OpenHolds
    <3> QED BY <1>4, <3>1, <3>2, <3>3
  <2>2. Switch(p, "Open", "onExitCanceled")
    BY <1>2, <1>6, <2>1 DEF OpenStateExit, Closes
  <2>3. /\ Tells(e, p) /\ position'[p].state = "Open" /\ heard'[p] = Append(heard[p], "onExitCanceled")
    BY <1>1, <1>2, <2>2, SwitchTells DEF Callbacks
  <2>4. c = NoFrame /\ position[p].entryOrder # 0 /\ StateOK(p, NoFrame, c)'
    BY <1>1, <1>2, <1>3, <1>6, <2>3, ExitIsTold
  <2>5. Call(stack) = NoFrame /\ StateOK(p, NoFrame, NoFrame)'
    BY <1>2, <2>4
  <2> QED BY <1>1, <2>2, <2>4, <2>5, SwitchInv DEF Callbacks
<1>7. CASE ~Closes(p) /\ e.type # "CANCELED"
  <2>1. Stay(p)
    BY <1>2, <1>7 DEF OpenStateExit
  <2>2. Tells(e, p) /\ position'[p].state = "Open" /\ heard'[p] = heard[p]
    BY <1>1, <1>2, <2>1, StayTells
  <2>3. e.type # "FILLED"
    <3>1. position'[p].shares = Updated(p).shares
      BY <1>4, <2>1 DEF Stay
    <3>2. e.type = "FILLED" <=> position'[p].shares = 0
      BY <1>1, <1>2, <1>3, <2>2, ExitIsTold
    <3> QED BY <1>2, <1>7, <3>1, <3>2 DEF Closes
  <2>4. position[p].entryOrder # 0 /\ StateOK(p, NoFrame, c)'
    BY <1>1, <1>2, <1>3, <1>7, <2>2, <2>3, ExitIsTold
  <2> QED BY <1>1, <1>2, <2>1, <2>4, StayInv
<1> QED BY <1>5, <1>6, <1>7

(* An open position is told of its entry order; a closed one of nothing.   *)
LEMMA LateEventInv ==
  ASSUME IInv, NEW p \in PositionIds, LateEvent(p)
  PROVE  IInv'
<1>1. Notified(p) /\ TypeOK
  BY Parts DEF LateEvent
<1>2. PICK e, c : e = Top /\ c = Call(stack)
  OBVIOUS
<1>3. /\ Matches(e, c) /\ (c = NoFrame \/ c.at \in {"register", "exit"}) /\ e # NoFrame /\ orderToPosition[e.order] = p
      /\ e.order \in OrderIds /\ e.quantity \in Nat
  BY <1>1, <1>2, NotifiedIs
<1>4. position[p].state = "Open" /\ position[p].exitOrder # e.order
  <2>1. position[p].state # "Closed"
    BY <1>1, <1>3, OthersAreNotTold
  <2> QED BY <1>2, <2>1 DEF LateEvent
<1>5. e.order = position[p].entryOrder
  <2>1. KnownActive(e.order, e, c) /\ owner[e.order] = p
    BY <1>3, Zero DEF Matches, TablesOK
  <2> QED BY <1>3, <1>4, <2>1 DEF Matches, HasOrders, OrdersOf
<1>6. Updated(p).shares # 0
  <2>1. PICK shares \in Int, n \in Nat, moved \in {0, e.quantity, -e.quantity} :
          /\ shares = position[p].shares /\ n = e.quantity
          /\ moved = SharesMoved(p, e.order, e.type, n)
    <3>1. position[p] \in PositionRecords
      BY <1>1 DEF TypeOK
    <3>2. position[p].shares \in Int /\ position[p].side \in {1, -1}
      BY ONLY <3>1 DEF PositionRecords
    <3>3. PICK side \in {1, -1}, m \in Nat : side = position[p].side /\ m = e.quantity
      BY <1>3, <3>2
    <3>4. side * m \in {m, -m} /\ -side * m \in {m, -m}
      BY ONLY side \in {1, -1}, m \in Nat
    <3>5. SharesMoved(p, e.order, e.type, m) \in {0, m, -m}
      BY <3>3, <3>4 DEF SharesMoved
    <3> QED BY <1>3, <3>2, <3>3, <3>5
  <2>2. Updated(p).shares = shares + moved
    BY <1>1, <1>2, <2>1, UpdatedIs
  <2>3. position[p].side \in {1, -1} /\ Held(p) >= 1
    BY <1>1, <1>3, <1>4, OpenHolds DEF TypeOK, PositionRecords
  <2>4. CASE position[p].side = 1
    <3>1. shares >= 1 /\ moved \in {0, n}
      BY <1>5, <2>1, <2>3, <2>4 DEF Held, SharesMoved
    <3> QED BY <2>1, <2>2, <3>1
  <2>5. CASE position[p].side = -1
    <3>1. shares <= -1 /\ moved \in {0, -n}
      BY <1>5, <2>1, <2>3, <2>5 DEF Held, SharesMoved
    <3> QED BY <2>1, <2>2, <3>1
  <2> QED BY <2>3, <2>4, <2>5
<1>7. Stay(p)
  BY <1>2, <1>4, <1>5, <1>6 DEF LateEvent
<1>8. Tells(e, p) /\ position'[p].state = "Open" /\ heard'[p] = heard[p]
  BY <1>1, <1>2, <1>4, <1>7, StayTells
<1>9. position[p].entryOrder # 0 /\ StateOK(p, NoFrame, c)'
  BY <1>1, <1>3, <1>4, <1>8, EntryIsTold
<1> QED BY <1>1, <1>2, <1>4, <1>7, <1>9, StayInv

-----------------------------------------------------------------------------
(* What is proved *)

(* No step breaks the invariant.                                           *)
LEMMA Inductive ==
  ASSUME IInv, [Next]_vars, "onOrderUpdated" \notin ActsIn
  PROVE  IInv'
<1>1. CASE BrokerSteps
  BY <1>1, BrokerInv
<1>2. CASE Return
  BY <1>2, ReturnInv
<1>3. ASSUME NEW p \in PositionIds, NEW side \in Sides, Enter(p, side) PROVE IInv'
  BY <1>3, EnterInv
<1>4. ASSUME NEW p \in PositionIds, CancelEntry(p) \/ CancelExit(p) \/ ExitWaiting(p) PROVE IInv'
  BY <1>4, CancelsInv
<1>5. ASSUME NEW p \in PositionIds, ExitOpen(p) PROVE IInv'
  BY <1>5, ExitOpenInv
<1>6. CASE SubmitExit
  BY <1>6, SubmitExitInv
<1>7. CASE RegisterOrder
  BY <1>7, RegisterOrderInv
<1>8. CASE NotLinked
  BY <1>8, NotLinkedInv
<1>9. ASSUME NEW p \in PositionIds, WaitingEntryState(p) PROVE IInv'
  BY <1>9, WaitingEntryInv
<1>10. ASSUME NEW p \in PositionIds, OpenStateExit(p) PROVE IInv'
  BY <1>10, OpenStateExitInv
<1>11. ASSUME NEW p \in PositionIds, LateEvent(p) PROVE IInv'
  BY <1>11, LateEventInv
<1>12. CASE UNCHANGED vars
  <2>1. UNCHANGED <<order, position, links, stack, failure, owner, heard>>
    BY <1>12 DEF vars
  <2>2. TypeOK' /\ StackOK' /\ failure' = failure
    BY <2>1, Parts DEF TypeOK, IInv, StackOK, order, links
  <2>3. PICK e, c : e = Event(stack) /\ c = Call(stack) /\ Matches(e, c)
    BY Parts
  <2>4. UNCHANGED <<order, position, links, owner, heard>>
    BY <2>1
  <2>5. Matches(e, c)'
    BY <2>3, <2>4, StackAside
  <2>6. Matches(Event(stack), Call(stack))'
    BY <2>1, <2>3, <2>5
  <2> QED BY <2>2, <2>6, Parts DEF IInv, Running
<1> QED BY <1>1, <1>2, <1>3, <1>4, <1>5, <1>6, <1>7, <1>8, <1>9, <1>10, <1>11, <1>12 DEF Next, Strategy, Library

(* Positions, orders and the strategy's tables agree in every state, if    *)
(* the strategy leaves positions alone in onOrderUpdated.                  *)
THEOREM Invariance == "onOrderUpdated" \notin ActsIn => (Spec => []IInv)
<1> SUFFICES ASSUME "onOrderUpdated" \notin ActsIn PROVE Spec => []IInv
  OBVIOUS
<1>1. Init => IInv
  BY InitIInv
<1>2. IInv /\ [Next]_vars => IInv'
  BY Inductive
<1> QED BY <1>1, <1>2, PTL DEF Spec

(* None of the assertions of position.py and of registerPositionOrder      *)
(* fails then, however the callbacks nest.                                 *)
THEOREM NoAssertionFailsCorrect == "onOrderUpdated" \notin ActsIn => (Spec => []NoAssertionFails)
<1> SUFFICES ASSUME "onOrderUpdated" \notin ActsIn PROVE Spec => []NoAssertionFails
  OBVIOUS
<1>1. IInv => NoAssertionFails
  BY DEF IInv, NoAssertionFails
<1> QED BY <1>1, Invariance, PTL

(* The shares of a position are what its orders traded.                    *)
THEOREM SharesMatchOrdersCorrect == "onOrderUpdated" \notin ActsIn => (Spec => []SharesMatchOrders)
<1> SUFFICES ASSUME "onOrderUpdated" \notin ActsIn PROVE Spec => []SharesMatchOrders
  OBVIOUS
<1>1. ASSUME IInv, BrokerRuns, NEW p \in PositionIds
      PROVE  position[p].shares = position[p].side * SumFunctionOnSet(FilledBy(p), OrdersOf(p))
  <2>1. Matches(NoFrame, NoFrame) /\ filled \in [OrderIds -> Nat]
    BY <1>1, BrokerWhenUpToDate, Parts DEF BrokerRuns, TypeOK
  <2>2. \A o \in OrderIds : KnownFilled(o, NoFrame) = filled[o]
    BY <2>1, NoFrameIs, Zero DEF KnownFilled
  <2>3. KnownFilledBy(p, NoFrame) = FilledBy(p)
    BY <2>2 DEF KnownFilledBy, FilledBy
  <2>4. SharesOK(p, NoFrame)
    BY <2>1 DEF Matches
  <2> QED BY <2>3, <2>4 DEF SharesOK
<1>2. IInv => SharesMatchOrders
  BY <1>1 DEF SharesMatchOrders
<1> QED BY <1>2, Invariance, PTL

(* The states of positions and the strategy's tables agree with the orders *)
(* whenever the broker runs, and no position can be reversed.              *)
LEMMA UpToDate ==
  ASSUME IInv, BrokerRuns
  PROVE  StateMatches /\ NeverReversed /\ TablesMatch
<1>1. Matches(NoFrame, NoFrame) /\ NoFrame.order = 0 /\ NoFrame.quantity = 0 /\ TypeOK
  BY BrokerWhenUpToDate, Parts, NoFrameIs DEF BrokerRuns
<1>2. /\ filled \in [OrderIds -> Nat] /\ quantity \in [OrderIds -> Nat] /\ owner \in [OrderIds -> PositionIds \cup {0}]
      /\ position \in [PositionIds -> PositionRecords]
  BY <1>1 DEF TypeOK
<1>3. \A o : KnownActive(o, NoFrame, NoFrame) <=> o \in OrderIds /\ owner[o] # 0 /\ IsActive(o)
  BY <1>1, Zero DEF KnownActive
<1>4. \A o \in OrderIds : KnownFilled(o, NoFrame) = filled[o]
  BY <1>1, <1>2, Zero DEF KnownFilled
<1>5. ASSUME NEW p \in PositionIds
      PROVE  /\ HasOrders(p, NoFrame, NoFrame) /\ StateOK(p, NoFrame, NoFrame)
             /\ \A o \in OrdersOf(p) : o \in OrderIds /\ (KnownActive(o, NoFrame, NoFrame) <=> IsActive(o))
             /\ 0 \notin OrdersOf(p) /\ position[p].side \in {1, -1} /\ position[p].shares \in Int
             /\ position[p].state \in {"None", "WaitingEntry", "Open", "Closed"}
             /\ position[p].state = "WaitingEntry" => position[p].entryOrder # 0
  <2>1. \A o \in OrdersOf(p) : o \in OrderIds /\ (KnownActive(o, NoFrame, NoFrame) <=> IsActive(o))
    BY <1>3, Zero DEF OrdersOf
  <2>2. 0 \notin OrdersOf(p) /\ position[p].side \in {1, -1} /\ position[p].shares \in Int
        /\ position[p].state \in {"None", "WaitingEntry", "Open", "Closed"}
    BY <1>2, Zero DEF OrdersOf, PositionRecords
  <2>3. HasOrders(p, NoFrame, NoFrame) /\ StateOK(p, NoFrame, NoFrame)
    BY <1>1 DEF Matches
  <2>4. position[p].state = "WaitingEntry" => position[p].entryOrder # 0
    BY <1>1, <2>2, <2>3 DEF StateOK, IsWaiting
  <2> QED BY <2>1, <2>2, <2>3, <2>4
<1>6. StateMatches
  <2>1. ASSUME NEW p \in PositionIds, position[p].state = "WaitingEntry"
        PROVE  IsActive(position[p].entryOrder) /\ filled[position[p].entryOrder] = 0
    <3>1. IsWaiting(p, NoFrame, NoFrame) /\ position[p].entryOrder # 0
      BY <1>5, <2>1 DEF StateOK
    <3>2. /\ KnownActive(position[p].entryOrder, NoFrame, NoFrame)
          /\ KnownFilled(position[p].entryOrder, NoFrame) = 0
      BY <3>1 DEF IsWaiting
    <3> QED BY <1>3, <1>4, <3>2
  <2>2. ASSUME NEW p \in PositionIds, position[p].state = "Open" PROVE position[p].shares # 0
    BY <1>1, <2>2, OpenHolds
  <2>3. ASSUME NEW p \in PositionIds, position[p].state = "Closed"
        PROVE  position[p].shares = 0 /\ \A o \in OrdersOf(p) : ~IsActive(o)
    <3>1. IsClosed(p, NoFrame, NoFrame)
      BY <1>5, <2>3 DEF StateOK
    <3>2. \A o \in OrdersOf(p) : ~KnownActive(o, NoFrame, NoFrame)
      BY <1>5, <3>1 DEF IsClosed, HasOrders
    <3> QED BY <1>5, <3>1, <3>2 DEF IsClosed
  <2> QED BY <2>1, <2>2, <2>3 DEF StateMatches
<1>7. TablesMatch
  <2>1. activePositions = {p \in PositionIds : position[p].state \in {"WaitingEntry", "Open"}}
    <3>1. \A p \in PositionIds : position[p].state \in {"WaitingEntry", "Open"} => position[p].entryOrder # 0
      BY <1>5 DEF StateOK, IsOpen
    <3> QED BY <1>1, <3>1 DEF Matches, TablesOK
  <2>2. \A o \in OrderIds : orderToPosition[o] = IF IsActive(o) THEN owner[o] ELSE 0
    BY <1>1, <1>3 DEF Matches, TablesOK
  <2>3. \A p \in PositionIds : position[p].activeOrders = {o \in OrdersOf(p) : IsActive(o)}
    BY <1>5 DEF HasOrders
  <2> QED BY <2>1, <2>2, <2>3 DEF TablesMatch
<1>8. ASSUME NEW p \in PositionIds, NEW exits, exits = OrdersOf(p) \ {position[p].entryOrder}
      PROVE  /\ SumFunctionOnSet(Pending, exits) <= position[p].shares * position[p].side
             /\ (\E o \in exits : IsActive(o)) => ~IsActive(position[p].entryOrder)
  <2>1. IsFiniteSet(exits) /\ exits \subseteq OrderIds
    <3>1. exits \subseteq OrderIds
      BY <1>8 DEF OrdersOf
    <3> QED BY <3>1, Zero, FS_Subset
  <2>2. Held(p) >= 0 /\ Held(p) \in Int
    <3>1. Held(p) \in Int
      BY <1>5 DEF Held
    <3>2. CASE position[p].state = "Open"
      BY <1>1, <3>2, OpenHolds
    <3>3. CASE position[p].state # "Open"
      <4>1. position[p].shares = 0
        BY <1>5, <3>3 DEF StateOK, IsNone, IsWaiting, IsClosed, NoPosition
      <4> QED BY <1>5, <4>1 DEF Held
    <3> QED BY <3>1, <3>2, <3>3
  <2>3. \A o \in OrdersOf(p) : IsActive(o) => o \in {position[p].entryOrder, position[p].exitOrder}
    BY <1>5 DEF HasOrders
  <2>4. PICK pending : pending = Pending
    OBVIOUS
  <2>5. \A o \in OrderIds : pending[o] = IF IsActive(o) THEN quantity[o] - filled[o] ELSE 0
    BY <2>4 DEF Pending
  <2>6. \A o \in exits : pending[o] \in Int
    BY <1>2, <2>1, <2>5
  <2>7. CASE \A o \in exits : ~IsActive(o)
    <3>1. \A o \in exits : pending[o] = 0
      BY <2>1, <2>5, <2>7
    <3>2. SumFunctionOnSet(pending, exits) = 0
      BY <2>1, <3>1, SumZero
    <3> QED BY <2>2, <2>4, <2>7, <3>2 DEF Held
  <2>8. ASSUME NEW x \in exits, IsActive(x)
        PROVE  SumFunctionOnSet(Pending, exits) <= Held(p) /\ ~IsActive(position[p].entryOrder)
    <3>1. x = position[p].exitOrder /\ x \in OrdersOf(p) /\ x \in OrderIds
      BY <1>8, <2>1, <2>3, <2>8
    <3>2. x \in position[p].activeOrders /\ x # 0 /\ x # position[p].entryOrder
      BY <1>5, <1>8, <2>8, <3>1 DEF HasOrders
    <3>3. position[p].state = "Open"
      BY <1>5, <3>1, <3>2 DEF StateOK, IsNone, IsWaiting, IsClosed
    <3>4. IsOpen(p, NoFrame, NoFrame) /\ KnownActive(x, NoFrame, NoFrame)
      BY <1>5, <2>8, <3>1, <3>3 DEF StateOK
    <3>5. /\ ~KnownActive(position[p].entryOrder, NoFrame, NoFrame)
          /\ Held(p) = quantity[x] - KnownFilled(x, NoFrame)
      BY <3>1, <3>4 DEF IsOpen
    <3>6. Held(p) = pending[x]
      BY <1>4, <2>5, <2>8, <3>1, <3>5
    <3>7. ~IsActive(position[p].entryOrder)
      <4>1. position[p].entryOrder \in OrdersOf(p)
        BY <1>2, <1>5, <3>4 DEF HasOrders, IsOpen, OrdersOf, PositionRecords
      <4> QED BY <1>5, <3>5, <4>1
    <3>8. SumFunctionOnSet(pending, exits) = pending[x]
      <4>1. PICK rest : rest = exits \ {x}
        OBVIOUS
      <4>2. IsFiniteSet(rest) /\ x \notin rest /\ exits = rest \cup {x}
        BY <2>1, <4>1, FS_Subset
      <4>3. \A o \in rest : pending[o] = 0
        <5>1. ASSUME NEW o \in rest PROVE ~IsActive(o)
          BY <1>8, <2>3, <3>1, <4>1
        <5> QED BY <2>1, <2>5, <4>1, <5>1
      <4>4. SumFunctionOnSet(pending, rest) = 0
        BY <4>2, <4>3, SumZero
      <4>5. \A o \in rest \cup {x} : pending[o] \in Int
        BY <2>6, <4>2
      <4>6. SumFunctionOnSet(pending, rest \cup {x}) = SumFunctionOnSet(pending, rest) + pending[x]
        BY <4>2, <4>5, SumAdd
      <4> QED BY <2>6, <4>2, <4>4, <4>6
    <3> QED BY <2>2, <2>4, <3>6, <3>7, <3>8
  <2> QED BY <2>7, <2>8 DEF Held
<1>9. NeverReversed
  BY <1>8 DEF NeverReversed
<1> QED BY <1>6, <1>7, <1>9

(* The state of every position matches its orders.                         *)
THEOREM StateMatchesOrdersCorrect == "onOrderUpdated" \notin ActsIn => (Spec => []StateMatchesOrders)
<1> SUFFICES ASSUME "onOrderUpdated" \notin ActsIn PROVE Spec => []StateMatchesOrders
  OBVIOUS
<1>1. IInv => StateMatchesOrders
  BY UpToDate DEF StateMatchesOrders
<1> QED BY <1>1, Invariance, PTL

(* Callbacks come in the order that their names promise.                   *)
THEOREM CallbacksInOrderCorrect == "onOrderUpdated" \notin ActsIn => (Spec => []CallbacksInOrder)
<1> SUFFICES ASSUME "onOrderUpdated" \notin ActsIn PROVE Spec => []CallbacksInOrder
  OBVIOUS
<1>1. ASSUME NEW s, HeardOpen(s)
      PROVE  \A i \in 1 .. Len(s) : /\ s[i] = "onEnterOk" <=> i = 1
                                    /\ s[i] # "onExitOk" /\ s[i] # "onEnterCanceled"
  <2>1. ASSUME NEW i \in 1 .. Len(s), i # 1 PROVE s[i] = "onExitCanceled"
    <3>1. i \in 2 .. Len(s)
      BY <2>1
    <3> QED BY <1>1, <3>1 DEF HeardOpen
  <2> QED BY <1>1, <2>1 DEF HeardOpen
<1>2. ASSUME IInv, NEW p \in PositionIds
      PROVE  \/ heard[p] = <<"onEnterCanceled">>
             \/ \A i \in 1 .. Len(heard[p]) :
                  /\ heard[p][i] = "onEnterOk" <=> i = 1
                  /\ heard[p][i] = "onExitOk" => i = Len(heard[p])
                  /\ heard[p][i] # "onEnterCanceled"
  <2>1. PICK e, c : e = Event(stack) /\ c = Call(stack) /\ Matches(e, c)
    BY <1>2, Parts
  <2>2. StateOK(p, e, c) /\ position[p].state \in {"None", "WaitingEntry", "Open", "Closed"}
    BY <1>2, <2>1, Parts DEF Matches, TypeOK, PositionRecords
  <2>3. PICK h : h = heard[p]
    OBVIOUS
  <2>4. \/ h = <<>> \/ HeardOpen(h) \/ h = <<"onEnterCanceled">>
        \/ \E s \in Seq(Callbacks) : HeardOpen(s) /\ h = Append(s, "onExitOk")
    BY <2>2, <2>3 DEF StateOK, IsNone, IsWaiting, IsOpen, IsClosed
  <2>5. ASSUME NEW s \in Seq(Callbacks), HeardOpen(s), h = Append(s, "onExitOk")
        PROVE  \A i \in 1 .. Len(h) : /\ h[i] = "onEnterOk" <=> i = 1
                                      /\ h[i] = "onExitOk" => i = Len(h)
                                      /\ h[i] # "onEnterCanceled"
    <3>1. Len(h) = Len(s) + 1 /\ Len(s) \in Nat /\ h[Len(s) + 1] = "onExitOk" /\ \A i \in 1 .. Len(s) : h[i] = s[i]
      BY <2>5 DEF Callbacks
    <3>2. Len(s) >= 1
      BY <2>5 DEF HeardOpen
    <3>3. \A i \in 1 .. Len(h) : i \in 1 .. Len(s) \/ i = Len(s) + 1
      BY <3>1
    <3> QED BY <1>1, <2>5, <3>1, <3>2, <3>3
  <2>6. h = <<>> => \A i \in 1 .. Len(h) : FALSE
    OBVIOUS
  <2>7. CASE HeardOpen(h)
    BY <1>1, <2>3, <2>7
  <2>8. CASE \E s \in Seq(Callbacks) : HeardOpen(s) /\ h = Append(s, "onExitOk")
    BY <2>3, <2>5, <2>8
  <2> QED BY <2>3, <2>4, <2>6, <2>7, <2>8
<1>3. IInv => CallbacksInOrder
  BY <1>2 DEF CallbacksInOrder
<1> QED BY <1>3, Invariance, PTL
=============================================================================
