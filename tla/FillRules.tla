----------------------------- MODULE FillRules ------------------------------
(***************************************************************************)
(* The pricing and sizing rules of broker/fillstrategy.py (DefaultStrategy *)
(* with NoSlippage): when an order is filled by a bar, at which price, and *)
(* for how many shares.                                                    *)
(*                                                                         *)
(* A bar is a record [open, high, low, close, volume]; a ticket is what an *)
(* order is built from: [type, action, instrument, quantity, stopPrice,    *)
(* limitPrice, onClose, goodTillCanceled, allOrNone].  The code's trigger  *)
(* functions return None or a price: here a predicate says when the result *)
(* is a price and an operator which one it is.                             *)
(***************************************************************************)
EXTENDS Integers

Lower(a, b)  == IF a <= b THEN a ELSE b
Higher(a, b) == IF a >= b THEN a ELSE b

IsBuy(t) == t.action \in {"BUY", "BUY_TO_COVER"}

(* bar.BasicBar refuses any other combination of prices.                   *)
WellFormedBar(bar) ==
  /\ bar.low <= bar.open  /\ bar.open  <= bar.high
  /\ bar.low <= bar.close /\ bar.close <= bar.high

(* commitOrderExecution asserts that an execution costs something.         *)
Price == Nat \ {0}

AllBars ==
  {b \in [open : Price, high : Price, low : Price, close : Price, volume : Nat] :
     WellFormedBar(b)}

(* What the createXXXOrder methods can build; a price the type does not    *)
(* use is 0.                                                               *)
TicketsOn(instruments) ==
  [type : {"MARKET", "LIMIT", "STOP", "STOP_LIMIT"},
   action : {"BUY", "BUY_TO_COVER", "SELL", "SELL_SHORT"},
   instrument : instruments, quantity : Nat \ {0},
   stopPrice : Nat, limitPrice : Nat,
   onClose : BOOLEAN, goodTillCanceled : BOOLEAN, allOrNone : BOOLEAN]

-----------------------------------------------------------------------------
(* get_limit_price_trigger *)

LimitPenetrated(t, bar) ==
  IF IsBuy(t) THEN bar.high < t.limitPrice \/ t.limitPrice >= bar.low
              ELSE bar.low > t.limitPrice  \/ t.limitPrice <= bar.high

LimitPriceFromClose(t, bar) == bar.close    \* mutant: fills a limit order at the market price

LimitTriggerPrice(t, bar) ==
  IF IsBuy(t)
  THEN IF bar.high < t.limitPrice \/ bar.open < t.limitPrice THEN bar.open ELSE t.limitPrice
  ELSE IF bar.low > t.limitPrice  \/ bar.open > t.limitPrice THEN bar.open ELSE t.limitPrice

(* get_stop_price_trigger *)

StopPenetrated(t, bar) ==
  IF IsBuy(t) THEN bar.low > t.stopPrice  \/ t.stopPrice <= bar.high
              ELSE bar.high < t.stopPrice \/ t.stopPrice >= bar.low

StopTriggerPrice(t, bar) ==
  IF IsBuy(t)
  THEN IF bar.low > t.stopPrice  \/ bar.open > t.stopPrice THEN bar.open ELSE t.stopPrice
  ELSE IF bar.high < t.stopPrice \/ bar.open < t.stopPrice THEN bar.open ELSE t.stopPrice

-----------------------------------------------------------------------------
(* DefaultStrategy.fillXXXOrder, without the sizes.  "hit" is the order's  *)
(* stopHit flag before the bar.                                            *)

HasStop(t) == t.type \in {"STOP", "STOP_LIMIT"}

StopHitAfter(t, hit, bar) == hit \/ (HasStop(t) /\ StopPenetrated(t, bar))

Fillable(t, hit, bar) ==
  /\ HasStop(t) => StopHitAfter(t, hit, bar)
  /\ t.type \in {"LIMIT", "STOP_LIMIT"} => LimitPenetrated(t, bar)

(* A stop that was hit by an earlier bar no longer has a trigger price: a  *)
(* STOP order then trades at the open, a STOP_LIMIT order as a plain limit *)
(* order.                                                                  *)
FillPrice(t, hit, bar) ==
  CASE t.type = "MARKET"     -> IF t.onClose THEN bar.close ELSE bar.open
    [] t.type = "LIMIT"      -> LimitTriggerPrice(t, bar)
    [] t.type = "STOP"       -> IF hit THEN bar.open ELSE StopTriggerPrice(t, bar)
    [] t.type = "STOP_LIMIT" ->
         IF hit THEN LimitTriggerPrice(t, bar)
         ELSE IF IsBuy(t) THEN Lower(StopTriggerPrice(t, bar), t.limitPrice)
                          ELSE Higher(StopTriggerPrice(t, bar), t.limitPrice)

(* DefaultStrategy.__calculateFillSize; 0 means the order is not filled.   *)
FillSizeIgnoringVolume(remaining, allOrNone, maxVolume) == remaining        \* mutant
FillSize(remaining, allOrNone, maxVolume) ==
  IF ~allOrNone THEN Lower(maxVolume, remaining)
  ELSE IF remaining <= maxVolume THEN remaining ELSE 0

(* What an execution promises: the bar traded at its price, and the price  *)
(* is not worse than the order's limit.                                    *)
PriceHonours(t, bar, price) ==
  /\ bar.low <= price /\ price <= bar.high
  /\ t.type \in {"LIMIT", "STOP_LIMIT"} =>
       IF IsBuy(t) THEN price <= t.limitPrice ELSE price >= t.limitPrice

=============================================================================
