------------------------ MODULE MCBacktestingBroker -------------------------
(***************************************************************************)
(* Small instances of BacktestingBroker.                                   *)
(***************************************************************************)
EXTENDS BacktestingBroker

MCInitialShares == [i \in Instruments |-> 0]

Bar(o, h, l, c, v) == [open |-> o, high |-> h, low |-> l, close |-> c, volume |-> v]

Market(action, inst, n) ==
  [type |-> "MARKET", action |-> action, instrument |-> inst, quantity |-> n,
   stopPrice |-> 0, limitPrice |-> 0, onClose |-> FALSE,
   goodTillCanceled |-> TRUE, allOrNone |-> FALSE]
Limit(action, inst, n, limit) ==
  [Market(action, inst, n) EXCEPT !.type = "LIMIT", !.limitPrice = limit]
Stop(action, inst, n, stop) ==
  [Market(action, inst, n) EXCEPT !.type = "STOP", !.stopPrice = stop]
StopLimit(action, inst, n, stop, limit) ==
  [Market(action, inst, n) EXCEPT !.type = "STOP_LIMIT", !.stopPrice = stop, !.limitPrice = limit]
DayOrder(t)  == [t EXCEPT !.goodTillCanceled = FALSE]
AllOrNone(t) == [t EXCEPT !.allOrNone = TRUE]
OnClose(t)   == [t EXCEPT !.onClose = TRUE]

(* Accounts: two instruments, partial fills, all-or-none, thin volume and  *)
(* little cash.  Orders on close are for daily bars.                       *)
AccountTickets ==
  {OnClose(Market("BUY", "x", 3)), AllOrNone(DayOrder(Market("BUY", "x", 2))), Market("SELL_SHORT", "y", 2)}
AccountBars == {Bar(2, 3, 1, 2, 5), Bar(3, 3, 3, 3, 9)}

(* Prices: every order type on either side, over bars that open below, in  *)
(* and above the prices asked for.  Every bar is a session.                *)
PriceTickets ==
  {Market("BUY", "x", 1), DayOrder(Limit("BUY", "x", 2, 3))}
  \cup {Limit(a, "x", 2, p) : a \in {"BUY", "SELL"}, p \in {3, 4}}
  \cup {Stop(a, "x", 2, p) : a \in {"BUY_TO_COVER", "SELL_SHORT"}, p \in {3, 4}}
  \cup {StopLimit(a, "x", 2, s, p) : a \in {"BUY", "SELL"}, s \in {2, 4}, p \in {3, 5}}
PriceBars == {b \in {Bar(o, h, l, c, 2) : o, c \in 2 .. 5, h \in 3 .. 6, l \in 1 .. 3} :
                WellFormedBar(b) /\ b.close \in {b.low, b.high}}

(* Sessions: day and good till canceled orders, with partial fills.        *)
SessionTickets ==
  {Limit("BUY", "x", 1, 3)}
  \cup UNION {{t, DayOrder(t)} : t \in {Limit("BUY", "x", 2, 2), Limit("SELL", "x", 2, 2)}}
SessionBars == {Bar(2, 3, 2, 3, 1), Bar(3, 3, 3, 3, 2)}

=============================================================================
