----------------------------- MODULE MCVenues --------------------------
(***************************************************************************)
(* Small instances of Venues: intraday sessions.                           *)
(***************************************************************************)
EXTENDS MCBacktestingBroker, Venues

CoinShares == [i \in Instruments |-> 2]

(* Orders of a day and of all or nothing, as the strategy may set them.    *)
TheRequests ==
  {AllOrNone(DayOrder(Limit(a, "x", 2, 2))) : a \in {"BUY_TO_COVER", "SELL", "SELL_SHORT"}}
  \cup {Limit("BUY", "x", 1, 3)}

=============================================================================
