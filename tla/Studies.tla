------------------------------ MODULE Studies ------------------------------
(***************************************************************************)
(* What is computed from the bars of a feed while they come: the bars of   *)
(* two instruments are appended to their series, and the new-value events  *)
(* of the series reach, in the order of subscription, the indicators of    *)
(* technical/, the series aligned with each other, the resampled series    *)
(* and the event profiler.  Each of these keeps only what its code keeps;  *)
(* history has all the bars, for the definitions they are compared with.   *)
(***************************************************************************)
EXTENDS EventProfiler, Sorting

CONSTANTS
  First, Second,          (* the instruments                               *)
  Bars(_),                (* the bars an instrument may have               *)
  Period, LongPeriod,     (* of the indicators                             *)
  Weights,                (* of WMA, as many as LongPeriod                 *)
  Frequency,              (* of the resampled series                       *)
  MaxLen,                 (* of the series                                 *)
  MaxTime(_)              (* bound: the datetimes of the bars              *)

ASSUME StudiesAssumption ==
  /\ First # Second
  /\ Period \in Nat \ {0, 1} /\ LongPeriod \in Nat /\ Period < LongPeriod
  /\ Len(Weights) = LongPeriod /\ Frequency \in Nat \ {0, 1}
  /\ MaxLen \in Nat /\ MaxLen >= LongPeriod
  /\ \A i \in {First, Second} : MaxTime(i) \in Nat
  /\ \A i \in {First, Second} : \A bar \in Bars(i) :
       bar \in Shape /\ WellFormed(bar) /\ bar.close \in Number

VARIABLES
  now,        (* the datetime of the series of every instrument            *)
  aligned,    (* datetime_aligned over the closes of the two instruments   *)
  resampled,  (* ResampledBarDataSeries over the bars of First             *)
  ta,         (* the indicators over the series of First                   *)
  lines,      (* LineBreak over the bars of First                          *)
  profile,    (* the Profiler, by instrument                               *)
  history     (* all the bars, by instrument                               *)

vars == <<now, aligned, resampled, ta, lines, profile, history>>

Instruments == {First, Second}
Index(i) == IF i = First THEN 1 ELSE 2

Closes(bars) == [k \in DOMAIN bars |-> bars[k].bar.close]

Init ==
  /\ now = [i \in Instruments |-> 0]
  /\ aligned = Syncer(MaxLen)
  /\ resampled = Resampler(Frequency, MaxLen)
  /\ ta = [sma |-> Window, ema |-> Window, wma |-> Window, vwap |-> Window, vwapTypical |-> Window,
           high |-> Window, low |-> Window, roc |-> Window, ratio |-> Window,
           stdDev |-> Window, zScore |-> Window, slope |-> Window, trend |-> Window,
           regression |-> Regression0, cumRet |-> CumRet0, atr |-> ATR0, rsi |-> RSI0,
           stoch |-> Stoch0, macd |-> MACD0(Period, LongPeriod), bollinger |-> None]
  /\ lines = Series(MaxLen)
  /\ profile = [i \in Instruments |-> Profile0]
  /\ history = [i \in Instruments |-> <<>>]

(* The handlers of the series of First.  Bollinger subscribes after its    *)
(* average and its deviation, "since we'll use those values".              *)
Indicators(dt, bar) ==
  LET v      == bar.close
      sma    == SMA(ta.sma, v, LongPeriod)
      stdDev == StdDev(ta.stdDev, v, LongPeriod)
  IN [sma |-> sma, ema |-> EMA(ta.ema, v, LongPeriod), wma |-> WMA(ta.wma, v, Weights),
      vwap |-> VWAP(ta.vwap, bar, Period), vwapTypical |-> VWAPTypical(ta.vwapTypical, bar, Period),
      high |-> High(ta.high, v, LongPeriod), low |-> Low(ta.low, v, LongPeriod),
      roc |-> RateOfChange(ta.roc, v, Period), ratio |-> RatioToPrevious(ta.ratio, v),
      stdDev |-> stdDev, zScore |-> ZScore(ta.zScore, v, LongPeriod),
      slope |-> Slope(ta.slope, v, LongPeriod), trend |-> Trend(ta.trend, v, LongPeriod, Zero, Zero),
      regression |-> Regression(ta.regression, dt, v, LongPeriod),
      cumRet |-> CumRet(ta.cumRet, v), atr |-> ATR(ta.atr, bar, Period),
      rsi |-> RSI(ta.rsi, v, Period), stoch |-> Stoch(ta.stoch, bar, Period, Period),
      macd |-> MACD(ta.macd, v, Period, LongPeriod, Period),
      bollinger |-> Bollinger(sma, stdDev, v, 2)]

(* A bar is appended to the series of its instrument, and then notified.   *)
(* The series of two instruments need not advance together: they may       *)
(* belong to different feeds, or one is loaded after the other.            *)
OnBar ==
  \E i \in Instruments : \E bar \in Bars(i) :
    LET dt == now[i] + 1 IN
    /\ dt <= MaxTime(i)
    /\ now' = [now EXCEPT ![i] = dt]
    /\ history' = [history EXCEPT ![i] = Append(@, [dateTime |-> dt, bar |-> bar])]
    /\ IF i = First
       THEN /\ ta' = Indicators(dt, bar)
            /\ lines' = LineBreak(lines, dt, bar, Period)
            /\ resampled' = Resample(resampled, dt, bar)
       ELSE UNCHANGED <<ta, lines, resampled>>
    /\ aligned' = OnNewValue(aligned, Index(i), dt, bar.close)
    /\ profile' = [profile EXCEPT ![i] = Profile(@, Closes(history'[i]))]

(* Time goes by without a bar.  ResampledBarDataSeries.checkNow may be     *)
(* called.                                                                 *)
NoBar ==
  \E i \in Instruments :
    /\ now[i] < MaxTime(i)
    /\ now' = [now EXCEPT ![i] = @ + 1]
    /\ resampled' \in IF i = First THEN {resampled, CheckNow(resampled, now'[i])} ELSE {resampled}
    /\ UNCHANGED <<aligned, ta, lines, profile, history>>

(* pushLast, once there are no more bars.                                  *)
Push ==
  /\ now[First] = MaxTime(First) /\ resampled.range # None
  /\ resampled' = PushLast(resampled)
  /\ UNCHANGED <<now, aligned, ta, lines, profile, history>>

Next == OnBar \/ NoBar \/ Push

Spec == Init /\ [][Next]_vars

-----------------------------------------------------------------------------
(* Properties: what every component keeps, one bar at a time, is what its  *)
(* definition says of all the bars there have been.                        *)

bars1  == [k \in DOMAIN history[First] |-> history[First][k].bar]
closes == Closes(history[First])
count  == Len(closes)

(* The value of an indicator, None before there are enough values.         *)
From(n, value) == IF count < n THEN None ELSE value

Power(a, n) == Product([i \in 1 .. n |-> a])

(* An average that starts as the mean of the first period values, and in   *)
(* which every later value counts a fraction m of what the rest does.      *)
Exponential(values, period, m) ==
  LET n == Len(values)
      w(i) == Power(Minus(One, m), n - i)
  IN Plus(Times(w(period), Mean(SubSeq(values, 1, period))),
          Total([i \in 1 .. n - period |-> Times(Times(m, w(period + i)), values[period + i])]))

(* The slope as a mean of the slopes between every two points.             *)
PairSlope(xs, ys) ==
  LET pairs == SetToSeq({p \in (DOMAIN xs) \X (DOMAIN xs) : p[1] < p[2]})
      dx(p) == Minus(xs[p[2]], xs[p[1]])
      dy(p) == Minus(ys[p[2]], ys[p[1]])
  IN Over(Total([k \in DOMAIN pairs |-> Times(dx(pairs[k]), dy(pairs[k]))]),
          Total([k \in DOMAIN pairs |-> Times(dx(pairs[k]), dx(pairs[k]))]))

Recent(n)    == LastOf(closes, n)
TimesOf(n)   == [k \in 1 .. n |-> Q(history[First][count - n + k].dateTime)]
Bars1(to, n) == SubSeq(bars1, to - n + 1, to)
Ranges       == [k \in 1 .. count |-> TrueRange(IF k = 1 THEN None ELSE closes[k - 1], bars1[k])]

AveragesAgree ==
  /\ ta.sma.value = From(LongPeriod, Mean(Recent(LongPeriod)))
  /\ ta.ema.value = From(LongPeriod, Exponential(closes, LongPeriod, Ratio(2, LongPeriod + 1)))
  /\ ta.wma.value = From(LongPeriod,
       Over(Total([k \in 1 .. LongPeriod |-> Times(Q(Weights[k]), closes[count - LongPeriod + k])]),
            Total([k \in 1 .. LongPeriod |-> Q(Weights[k])])))
  /\ ta.atr.value = From(Period, Exponential(Ranges, Period, Ratio(1, Period)))
  /\ count >= Period =>
       \A w \in {ta.vwap.value, ta.vwapTypical.value} :
         /\ ~Below(w, Lowest({b.low : b \in ToSet(Bars1(count, Period))}))
         /\ ~Below(Highest({b.high : b \in ToSet(Bars1(count, Period))}), w)

StatisticsAgree ==
  LET xs == TimesOf(LongPeriod)
      ys == Recent(LongPeriod)
  IN
  /\ ta.roc.value = From(Period + 1, Minus(Over(closes[count], closes[count - Period]), One))
  /\ ta.ratio.value = From(2, Minus(Over(closes[count], closes[count - 1]), One))
  /\ ta.cumRet.value = From(2, Minus(Over(closes[count], closes[1]), One))
  /\ count >= LongPeriod =>
       /\ \A y \in ToSet(ys) : ~Below(ta.high.value, y) /\ ~Below(y, ta.low.value)
       /\ {ta.high.value, ta.low.value} \subseteq ToSet(ys)
       /\ ta.stdDev.value = Minus(Mean(Squares(ys)), Times(Mean(ys), Mean(ys)))
       /\ ta.bollinger = <<Mean(ys), Times(ta.stdDev.value, Q(4))>>
       /\ ta.zScore.value # None => ~Below(Q(LongPeriod - 1), Magnitude(ta.zScore.value))
       /\ ta.slope.value = PairSlope([k \in DOMAIN ys |-> Q(k)], ys)
       /\ ta.trend.value = <<1>> <=> Positive(ta.slope.value)
       /\ ta.regression.value = Plus(Mean(ys), Times(PairSlope(xs, ys), Minus(Last(xs), Mean(xs))))

OscillatorsAgree ==
  LET falls == {k \in 2 .. count : Below(closes[k], closes[k - 1])}
      rises == {k \in 2 .. count : Below(closes[k - 1], closes[k])}
      diff(n) == Minus(Exponential(SubSeq(closes, LongPeriod - Period + 1, n), Period, Ratio(2, Period + 1)),
                       Exponential(SubSeq(closes, 1, n), LongPeriod, Ratio(2, LongPeriod + 1)))
      diffs == [k \in 1 .. count - LongPeriod + 1 |-> diff(k + LongPeriod - 1)]
  IN
  /\ count > Period =>
       /\ ta.rsi.value = Q(100) <=> falls = {}
       /\ ta.rsi.value = Zero <=> rises = {} /\ falls # {}
       /\ ~Below(ta.rsi.value, Zero) /\ ~Below(Q(100), ta.rsi.value)
  /\ count >= Period => ~Below(ta.stoch.k.value, Zero) /\ ~Below(Q(100), ta.stoch.k.value)
  /\ ta.stoch.d.value = From(2 * Period - 1,
       Mean([k \in 1 .. Period |-> FastK(Bars1(count - Period + k, Period))]))
  /\ ta.macd.macd = From(LongPeriod + Period - 1, diff(count))
  /\ ta.macd.signalValue = From(LongPeriod + Period - 1, Exponential(diffs, Period, Ratio(2, Period + 1)))

(* Every indicator has the value of its definition over all the closes,    *)
(* however it was updated: technical/ keeps windows and averages of before. *)
IndicatorsAgree == AveragesAgree /\ StatisticsAgree /\ OscillatorsAgree

(* A line is drawn when, and only when, the price leaves the last lines:    *)
(* the last close is always within them, and a line of the other colour    *)
(* went beyond all of them.                                                *)
PriceWithinLines ==
  LET recent == LastOf(lines.values, Period) IN
  count > 0 =>
    /\ \E k \in DOMAIN recent : ~Below(Last(closes), recent[k].low)
    /\ \E k \in DOMAIN recent : ~Below(recent[k].high, Last(closes))
    /\ \A k \in Period + 1 .. Len(lines.values) :
         LET new == lines.values[k] IN
         new.white # lines.values[k - 1].white =>
           \A j \in k - Period .. k - 1 :
             IF new.white THEN Below(lines.values[j].high, new.high) ELSE Below(new.low, lines.values[j].low)

AlignedOnBoth ==
  LET dates(i) == {history[i][k].dateTime : k \in DOMAIN history[i]}
      both     == SetToSortSeq(dates(First) \cap dates(Second), <)
      closeOf(i, dt) == (CHOOSE e \in ToSet(history[i]) : e.dateTime = dt).bar.close
      values(i) == aligned.dest[Index(i)].values
  IN
  /\ \A i \in Instruments :
       /\ aligned.dest[Index(i)].dateTimes = LastOf(both, MaxLen)
       /\ values(i) = LastOf([k \in DOMAIN both |-> closeOf(i, both[k])], MaxLen)
  /\ \A n \in 2 .. MaxLen :
       CrossAbove(values(First), values(Second), n) - CrossBelow(values(First), values(Second), n) \in {-1, 0, 1}

GroupsComplete ==
  LET begin(e) == Beginning(e.dateTime, Frequency)
      begins == SetToSortSeq({begin(e) : e \in ToSet(history[First])}, <)
      group(b) == [k \in DOMAIN SelectSeq(history[First], LAMBDA e : begin(e) = b) |->
                     SelectSeq(history[First], LAMBDA e : begin(e) = b)[k].bar]
      whole(g) == [open |-> g[1].open, close |-> Last(g).close,
                   high |-> Highest({x.high : x \in ToSet(g)}), low |-> Lowest({x.low : x \in ToSet(g)}),
                   volume |-> Total([k \in DOMAIN g |-> g[k].volume])]
      done == IF resampled.range = None THEN begins ELSE Front(begins)
  IN
  /\ resampled.series.dateTimes = LastOf(done, MaxLen)
  /\ resampled.series.values = LastOf([k \in DOMAIN done |-> whole(group(done[k]))], MaxLen)
  /\ resampled.range # None => resampled.grouper = whole(group(Last(begins)))

(* The aligned series have, in order, the last datetimes at which both     *)
(* instruments had a bar, with the closes of each; and so their crossings  *)
(* above and below alternate.  Every bar is in one group, the group of its *)
(* time, and every group goes to the resampled series once, complete and   *)
(* in order.                                                               *)
DerivedSeriesAgree == AlignedOnBoth /\ GroupsComplete

(* The bars of the events of the predicate, among the closes.              *)
Occurrences(c) == {k \in DOMAIN c : EventOccurred(SubSeq(c, 1, k))}

(* The values of a complete event are the closes around it, relative to    *)
(* the close of its bar, whatever other events overlap it and whichever    *)
(* bars the other instrument misses; it is complete as soon as there are   *)
(* enough bars around it.  Nothing has a return over a close of 0, except  *)
(* another 0, and no price is relative to it.                              *)
EventsKeepTheirReturns ==
  \A i \in Instruments :
    LET c         == Closes(history[i])
        at        == InOrder(Occurrences(c))
        event(e)  == profile[i].events[e]
        around(e) == at[e] - LookBack .. at[e] + LookForward
    IN
    /\ DOMAIN profile[i].events = DOMAIN at
    /\ \A e \in DOMAIN at :
         /\ IsComplete(event(e)) <=> \A k \in around(e) : k \in 2 .. Len(c) /\ (c[k - 1] = Zero => c[k] = Zero)
         /\ IsComplete(event(e)) /\ (\A k \in around(e) : c[k - 1] # Zero) =>
              \A t \in Offsets : Normalized(event(e))[t] = Over(c[at[e] + t], c[at[e]])

=============================================================================
