----------------------------- MODULE Analyzers -----------------------------
(***************************************************************************)
(* stratanalyzer/: what the analyzers attached to a strategy compute while *)
(* it runs.  For every bar of the feed the broker fills orders first, each *)
(* of which Trades is told of, and then the other analyzers look at the    *)
(* equity (BaseStrategy.__onBars, step 1).                                 *)
(***************************************************************************)
EXTENDS DataSeries

CONSTANTS
  Traded,         (* the instruments of the strategy                       *)
  Fills,          (* [quantity, price, commission], negative when selling  *)
  Prices,         (* at which bars close                                   *)
  InitialCash,
  ReturnsMaxLen,  (* of the series of Returns                              *)
  BarsPerDay,
  MaxFills, MaxBars  (* bounds                                             *)

(* At a price of 0 a tracker would leave its open position out (PnL).      *)
ASSUME AnalyzersAssumption ==
  /\ IsFiniteSet(Traded)
  /\ \A f \in Fills : f.quantity \in Int \ {0} /\ f.price \in Number /\ f.commission \in Number
  /\ \A price \in Prices : price \in Number \ {Zero}
  /\ InitialCash \in Nat \ {0} /\ ReturnsMaxLen \in Nat \ {0} /\ BarsPerDay \in Nat \ {0}

VARIABLES
  bars,       (* bars dispatched so far                                    *)
  onBars,     (* the broker is at the last of them                         *)
  close,      (* the last price of each instrument                         *)
  cash, shares,   (* of the broker                                         *)
  fills,      (* executions so far                                         *)
  posTrackers,    (* Trades.__posTrackers                                  *)
  positions,  (* trackers that are told of every execution as it is        *)
  trades,     (* Trades.__all, with __allReturns and __allCommissions; the *)
              (* other lists are its parts by the sign of the profit       *)
  portfolioReturns,   (* of the shared ReturnsAnalyzerBase                 *)
  returns,    (* of Returns                                                *)
  daily,      (* of SharpeRatio                                            *)
  drawDown,   (* of DrawDown                                               *)
  equities    (* history: the equity at every bar                          *)

analyzersVars == <<bars, onBars, close, cash, shares, fills, posTrackers, positions, trades,
                   portfolioReturns, returns, daily, drawDown, equities>>

-----------------------------------------------------------------------------
(* returns.PositionTracker *)

NewTracker ==
  [pnl |-> Zero, avgPrice |-> Zero, position |-> 0, commissions |-> Zero, totalCommited |-> Zero]

(* getPnL: a price of None or 0 leaves the open position out.              *)
PnL(tracker, price) ==
  LET open == IF price = Zero THEN Zero
              ELSE Times(Minus(price, tracker.avgPrice), Q(tracker.position))
  IN Minus(Plus(tracker.pnl, open), tracker.commissions)

NetReturn(tracker) ==
  IF tracker.totalCommited = Zero THEN Zero ELSE Over(PnL(tracker, Zero), tracker.totalCommited)

OpenNewPosition(tracker, quantity, price) ==
  [tracker EXCEPT !.avgPrice = price, !.position = quantity,
                  !.totalCommited = Times(price, Q(Abs(quantity)))]

ExtendCurrentPosition(tracker, quantity, price) ==
  LET position == tracker.position + quantity
      paid     == Plus(Times(tracker.avgPrice, Q(Abs(tracker.position))), Times(price, Q(Abs(quantity))))
  IN [tracker EXCEPT !.avgPrice = Over(paid, Q(Abs(position))), !.position = position,
                     !.totalCommited = paid]

ReduceCurrentPosition(tracker, quantity, price) ==
  [tracker EXCEPT
     !.pnl = Plus(@, Times(Minus(price, tracker.avgPrice), Q(-quantity))),
     !.position = @ + quantity,
     !.avgPrice = IF tracker.position + quantity = 0 THEN Zero ELSE @]

Moved(tracker, quantity, price) ==
  LET position == tracker.position IN
  IF position = 0 THEN OpenNewPosition(tracker, quantity, price)
  ELSE IF position * quantity > 0 THEN ExtendCurrentPosition(tracker, quantity, price)
  ELSE IF Abs(quantity) <= Abs(position) THEN ReduceCurrentPosition(tracker, quantity, price)
  ELSE OpenNewPosition(ReduceCurrentPosition(tracker, -position, price), position + quantity, price)

(* PositionTracker.update.                                                 *)
Update(tracker, quantity, price, commission) ==
  [Moved(tracker, quantity, price) EXCEPT !.commissions = Plus(@, commission)]

-----------------------------------------------------------------------------
(* trades.Trades *)

Trade(tracker) ==
  [profit |-> PnL(tracker, Zero), return |-> NetReturn(tracker), commissions |-> tracker.commissions]

(* Mutant: every part is charged the whole commission.                     *)
NotProportional(commission, part, quantity) == commission

(* The commission of a part of the execution.                              *)
Proportional(commission, part, quantity) ==
  Over(Times(commission, Q(Abs(part))), Q(Abs(quantity)))

(* __updatePosTracker, with __updateTrades: the tracker that results, and  *)
(* the trade that ended, if one did.                                       *)
Executed(tracker, quantity, price, commission) ==
  LET old == tracker.position
      new == old + quantity
      whole == Update(tracker, quantity, price, commission)
      ended == Update(tracker, -old, price, Proportional(commission, old, quantity))
  IN IF old # 0 /\ new = 0 THEN [tracker |-> NewTracker, trades |-> <<Trade(whole)>>]
     ELSE IF old * new < 0
     THEN [tracker |-> Update(NewTracker, new, price, Proportional(commission, new, quantity)),
           trades  |-> <<Trade(ended)>>]
     ELSE [tracker |-> whole, trades |-> <<>>]

-----------------------------------------------------------------------------
(* What looks at the equity *)

(* TimeWeightedReturns.update; nothing is deposited or withdrawn.          *)
TimeWeighted(r, equity) ==
  LET ret == IF r.lastValue = Zero THEN Zero ELSE Over(Minus(equity, r.lastValue), r.lastValue) IN
  [lastValue |-> equity, lastPeriodRet |-> ret,
   cumRet |-> Minus(Times(Plus(One, r.cumRet), Plus(One, ret)), One)]

(* SharpeRatio.__onReturns with daily returns.                             *)
DailyReturns(d, date, ret) ==
  IF d.currentDate = date
  THEN [d EXCEPT !.returns = Append(Front(@), Minus(Times(Plus(One, Last(@)), Plus(One, ret)), One))]
  ELSE [returns |-> Append(d.returns, ret), currentDate |-> date]

NewDrawDown ==
  [high |-> None, low |-> None, since |-> 0, maxDD |-> Zero, longest |-> 0]

IsHigh(d, equity) == d.high = None \/ ~Below(equity, d.high)

(* DrawDownHelper.update and DrawDown.beforeOnBars.                        *)
FromHigh(d, now, equity) ==
  LET helper == IF IsHigh(d, equity) THEN [d EXCEPT !.high = equity, !.low = equity, !.since = now]
                ELSE [d EXCEPT !.low = Lowest({@, equity})]
  IN [helper EXCEPT !.maxDD = Lowest({@, Over(Minus(helper.low, helper.high), helper.high)}),
                    !.longest = Max({@, now - helper.since})]

-----------------------------------------------------------------------------
(* The run of a strategy *)

Equity(c) ==
  LET held == SetToSeq(Traded) IN
  Plus(cash, Total([k \in DOMAIN held |-> Times(c[held[k]], Q(shares[held[k]]))]))

AnalyzersInit ==
  /\ bars = 0 /\ onBars = FALSE /\ fills = 0
  /\ close = [i \in Traded |-> Zero]
  /\ cash = Q(InitialCash) /\ shares = [i \in Traded |-> 0]
  /\ posTrackers = [i \in Traded |-> NewTracker]
  /\ positions = [i \in Traded |-> NewTracker]
  /\ trades = <<>>
  /\ portfolioReturns = [lastValue |-> Q(InitialCash), lastPeriodRet |-> Zero, cumRet |-> Zero]
  /\ returns = [net |-> Series(ReturnsMaxLen), cum |-> Series(ReturnsMaxLen)]
  /\ daily = [returns |-> <<>>, currentDate |-> -1]
  /\ drawDown = NewDrawDown
  /\ equities = <<>>

analyses == <<portfolioReturns, returns, daily, drawDown, equities>>

NextBars ==
  /\ ~onBars /\ bars < MaxBars
  /\ bars' = bars + 1 /\ onBars' = TRUE
  /\ close' \in [Traded -> Prices]
  /\ UNCHANGED <<cash, shares, fills, posTrackers, positions, trades, analyses>>

(* The broker executes an order, or a part of it, and Trades.__onOrderEvent *)
(* gets the event.  No order was submitted before the first bars.          *)
Fill ==
  \E i \in Traded, f \in Fills :
    LET e == Executed(posTrackers[i], f.quantity, f.price, f.commission) IN
    /\ onBars /\ bars > 1 /\ fills < MaxFills
    /\ fills' = fills + 1
    /\ cash' = Minus(Minus(cash, Times(f.price, Q(f.quantity))), f.commission)
    /\ shares' = [shares EXCEPT ![i] = @ + f.quantity]
    /\ posTrackers' = [posTrackers EXCEPT ![i] = e.tracker]
    /\ positions' = [positions EXCEPT ![i] = Update(@, f.quantity, f.price, f.commission)]
    /\ trades' = trades \o e.trades
    /\ UNCHANGED <<bars, onBars, close, analyses>>

(* beforeOnBars of ReturnsAnalyzerBase, whose event reaches Returns and    *)
(* SharpeRatio, and of DrawDown.                                           *)
BeforeOnBars ==
  LET equity == Equity(close) IN
  /\ onBars /\ onBars' = FALSE
  /\ portfolioReturns' = TimeWeighted(portfolioReturns, equity)
  /\ returns' = [net |-> AppendTo(returns.net, bars, portfolioReturns'.lastPeriodRet),
                 cum |-> AppendTo(returns.cum, bars, portfolioReturns'.cumRet)]
  /\ daily' = DailyReturns(daily, (bars - 1) \div BarsPerDay, portfolioReturns'.lastPeriodRet)
  /\ drawDown' = FromHigh(drawDown, bars, equity)
  /\ equities' = Append(equities, equity)
  /\ UNCHANGED <<bars, close, cash, shares, fills, posTrackers, positions, trades>>

AnalyzersNext == NextBars \/ Fill \/ BeforeOnBars

AnalyzersSpec == AnalyzersInit /\ [][AnalyzersNext]_analyzersVars

-----------------------------------------------------------------------------
(* The profits of the trades that ended and of those that are open add up  *)
(* to what the equity has changed by, and so do those of the trackers that *)
(* saw every execution: nothing is lost or counted twice when positions    *)
(* are reduced, closed or reversed in one execution, in prices or in       *)
(* commissions.                                                            *)
TradesAddUp ==
  LET sum(t) == LET is == SetToSeq(Traded) IN Total([k \in DOMAIN is |-> PnL(t[is[k]], close[is[k]])])
      gained == Minus(Equity(close), Q(InitialCash))
  IN bars > 0 =>
       /\ Plus(Total([k \in DOMAIN trades |-> trades[k].profit]), sum(posTrackers)) = gained
       /\ sum(positions) = gained
       /\ \A i \in Traded : posTrackers[i].position = shares[i] /\ positions[i].position = shares[i]

(* Cumulative and daily returns compound to the change of the equity, with *)
(* any number of bars to a day, and the drawdown is the deepest fall, and  *)
(* the longest time, from the highest equity before.                       *)
MeasuresAgree ==
  LET n == Len(equities)
      highest(k) == Highest({equities[j] : j \in 1 .. k})
      fall(k) == Over(Minus(equities[k], highest(k)), highest(k))
      wait(k) == k - Max({j \in 1 .. k : equities[j] = highest(k)})
      gained == Minus(Over(equities[n], Q(InitialCash)), One)
  IN n > 0 =>
       /\ Zero \notin {equities[k] : k \in 1 .. n - 1} =>
            /\ Last(returns.cum.values) = gained
            /\ Minus(Product([k \in DOMAIN daily.returns |-> Plus(One, daily.returns[k])]), One) = gained
       /\ Len(daily.returns) = (n - 1) \div BarsPerDay + 1
       /\ drawDown.maxDD = Lowest({fall(k) : k \in 1 .. n})
       /\ drawDown.longest = Max({wait(k) : k \in 1 .. n})

(* What Trades and the trackers report adds up to the equity, and so do    *)
(* the returns and drawdowns.                                              *)
AnalyzersAgree == TradesAddUp /\ MeasuresAgree

=============================================================================
