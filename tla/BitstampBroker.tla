--------------------------- MODULE BitstampBroker ---------------------------
(***************************************************************************)
(* bitstamp/broker.py: the broker for backtesting and paper trading on     *)
(* Bitstamp.  It is the broker of BacktestingBroker for limit orders that  *)
(* it checks against cash and coins when they are created, which is not    *)
(* when they are submitted, let alone executed.  An order that it refuses  *)
(* raises in the strategy and changes nothing.                             *)
(***************************************************************************)
EXTENDS BacktestingBroker

CONSTANTS
  BtcSymbol,     (* common.btc_symbol                                      *)
  MinTradeUSD,   (* MIN_TRADE_USD                                          *)
  Requests       (* the limit orders that the strategy may ask for         *)

ASSUME RequestsAssumption ==
  \A t \in Requests : t \in TicketsOn({BtcSymbol}) /\ t.type = "LIMIT"

VARIABLES
  created,       (* how many orders of each kind the strategy created and  *)
                 (* has not submitted                                      *)
  contended      (* history: an order was created while another one of its *)
                 (* side was active, or created and not submitted          *)

bitstamp == <<created, contended>>

-----------------------------------------------------------------------------
(* Actions of short positions are mapped to those of long ones.            *)
Mapped(t) ==
  [t EXCEPT !.action = CASE @ = "BUY_TO_COVER" -> "BUY" [] @ = "SELL_SHORT" -> "SELL" [] OTHER -> @]

(* The orders that createLimitOrder builds, and those that the strategy    *)
(* holds and may still submit, one or several, or never.                   *)
Made    == {Mapped(r) : r \in Requests}
Waiting == {t \in Made : created[t] > 0}

(* submitOrder: what the strategy has set meanwhile is overridden.         *)
Overridden(t) == [t EXCEPT !.allOrNone = FALSE, !.goodTillCanceled = TRUE]

(* The orders that are made of the requests are among those that the       *)
(* broker behind gets.  Nothing but bitcoins is ever held, and the fee is  *)
(* a percentage, which TradePercentage asserts to be below 100.            *)
ASSUME BitstampAssumption ==
  /\ Instruments = {BtcSymbol} /\ MinTradeUSD \in Nat
  /\ \A t \in Requests : Overridden(Mapped(t)) \in Tickets
  /\ CommissionModel = "TradePercentage" /\ CommissionAmount < 100
  /\ InitialShares[BtcSymbol] >= 0

(* Broker.getCash(includeShort=False): coins sold short are owed.          *)
CashWithoutShort ==
  IF bars[BtcSymbol] = NoBar THEN cash
  ELSE cash + (IF shares[BtcSymbol] < 0 THEN bars[BtcSymbol].close * shares[BtcSymbol] * 100 ELSE 0)

(* The fee, and the checks of the two sides.                               *)
Fee(t) == CommissionFor(nextOrderId, t.limitPrice, t.quantity)

CashSuffices(t)  == t.limitPrice * t.quantity * 100 + Fee(t) <= CashWithoutShort
AnyCoins(t)      == TRUE                       \* mutant: coins are not looked at
CoinsSuffice(t)  == t.quantity <= shares[BtcSymbol]

(* createLimitOrder: what it refuses raises in the strategy.  MaxOrders    *)
(* bounds the orders that are created, submitted or not.                   *)
CreateLimitOrder(request) ==
  LET t == Mapped(request) IN
  /\ stage \in ClientStages /\ nextOrderId + SumFunctionOnSet(created, Made) <= MaxOrders
  /\ t.instrument = BtcSymbol /\ t.limitPrice * t.quantity >= MinTradeUSD
  /\ IF IsBuy(t) THEN CashSuffices(t) ELSE CoinsSuffice(t)
  /\ created' = [created EXCEPT ![t] = @ + 1]
  /\ contended' = (contended \/ \E u \in {Ticket(o) : o \in activeOrders} \cup Waiting : IsBuy(u) = IsBuy(t))
  /\ UNCHANGED vars

(* The strategy submits what it created in any order, whenever its code    *)
(* runs.                                                                   *)
SubmitLimitOrder(t) ==
  /\ t \in Waiting
  /\ SubmitOrder(Overridden(t))
  /\ created' = [created EXCEPT ![t] = @ - 1] /\ UNCHANGED contended

BitstampInit == created = [t \in Made |-> 0] /\ contended = FALSE

(* Everything but ordering is what the broker of BacktestingBroker does.   *)
Ordering ==
  \/ \E request \in Requests : CreateLimitOrder(request)
  \/ \E t \in Made : SubmitLimitOrder(t)

Inherited ==
  /\ \/ \E o \in OrderIds : CancelOrder(o)
     \/ \E bs \in [Instruments -> Bars \cup {NoBar}] : NewBars(bs)
     \/ OnBars
  /\ UNCHANGED bitstamp

BitstampNext == Ordering \/ Inherited

-----------------------------------------------------------------------------
(* What was checked when an order was created still holds when it is       *)
(* executed, in parts and bars later: a buy is never left for lack of cash *)
(* with its fee, and no more coins are sold than there are; unless another *)
(* order of its side was active when it was created, or created and not    *)
(* submitted, because the check knows of neither.  And orders do not end   *)
(* with a session, whatever the strategy asked for.                        *)
BuyIsPaidFor == stage = "process" /\ IsActive(current) /\ HasFill(current) => EnoughCash(current)

ChecksHoldUntilFilled ==
  /\ ~contended => shares[BtcSymbol] >= 0 /\ BuyIsPaidFor
  /\ stage # "onExpired"
=============================================================================
