----------------------------- MODULE Technical -----------------------------
(***************************************************************************)
(* technical/: indicators that are given one value at a time (EventWindow, *)
(* EventBasedFilter).  An indicator is a record of what its window keeps,  *)
(* with its last value; a handler maps it to the next one.  Square roots   *)
(* are not taken: a standard deviation is given by its square.             *)
(***************************************************************************)
EXTENDS DataSeries

(* NumPyDeque: a full one loses its first value.                           *)
Shifted(values, v, size) == Append(IF Len(values) < size THEN values ELSE Tail(values), v)

(* EventWindow.onNewValue: None does not enter.                            *)
Enter(values, v, size) == IF v = None THEN values ELSE Shifted(values, v, size)
WindowFull(values, size) == Len(values) = size

Window == [values |-> <<>>, value |-> None]

(* The indicators that calculate a value from the window alone.            *)
Windowed(w, v, size, Calculate(_)) ==
  LET values == Enter(w.values, v, size) IN
  [values |-> values, value |-> IF WindowFull(values, size) THEN Calculate(values) ELSE None]

-----------------------------------------------------------------------------
(* Moving averages *)

(* Mutant: the value that leaves is read after the new one has entered.    *)
SMALate(w, v, period) ==
  LET values == Enter(w.values, v, period) IN
  [values |-> values,
   value  |-> IF v = None \/ Len(values) < period THEN w.value
              ELSE IF w.value = None THEN Mean(values)
              ELSE Minus(Plus(w.value, Over(v, Q(period))), Over(Head(values), Q(period)))]

(* SMAEventWindow: from the average before.                                *)
SMA(w, v, period) ==
  LET values == Enter(w.values, v, period) IN
  [values |-> values,
   value  |-> IF v = None \/ Len(values) < period THEN w.value
              ELSE IF w.value = None THEN Mean(values)
              ELSE Minus(Plus(w.value, Over(v, Q(period))), Over(Head(w.values), Q(period)))]

EMA(w, v, period) ==
  LET values == Enter(w.values, v, period) IN
  [values |-> values,
   value  |-> IF v = None \/ Len(values) < period THEN w.value
              ELSE IF w.value = None THEN Mean(values)
              ELSE Plus(Times(Minus(v, w.value), Ratio(2, period + 1)), w.value)]

WMA(w, v, weights) ==
  Windowed(w, v, Len(weights), LAMBDA values :
    Over(Total([i \in DOMAIN values |-> Times(values[i], Q(weights[i]))]), Q(FoldSeq(+, 0, weights))))

VWAP(w, bar, period) ==
  Windowed(w, bar, period, LAMBDA bars :
    Over(Total([i \in DOMAIN bars |-> Times(bars[i].close, bars[i].volume)]),
         Total([i \in DOMAIN bars |-> bars[i].volume])))

VWAPTypical(w, bar, period) ==
  Windowed(w, bar, period, LAMBDA bars :
    Over(Total([i \in DOMAIN bars |-> Times(TypicalPrice(bars[i]), bars[i].volume)]),
         Total([i \in DOMAIN bars |-> bars[i].volume])))

-----------------------------------------------------------------------------
(* Statistics of the window *)

High(w, v, period) == Windowed(w, v, period, LAMBDA values : Highest(ToSet(values)))
Low(w, v, period)  == Windowed(w, v, period, LAMBDA values : Lowest(ToSet(values)))

RateOfChange(w, v, valuesAgo) ==
  Windowed(w, v, valuesAgo + 1, LAMBDA values :
    LET diff == Minus(Last(values), Head(values)) IN
    IF diff = Zero THEN Zero ELSE IF Head(values) = Zero THEN None ELSE Over(diff, Head(values)))

(* utils.get_change_percentage.                                            *)
RatioToPrevious(w, v) ==
  Windowed(w, v, 2, LAMBDA values :
    Over(Minus(values[2], values[1]), Magnitude(values[1])))

Deviations(values) == LET mean == Mean(values) IN [i \in DOMAIN values |-> Minus(values[i], mean)]
Squares(values)    == [i \in DOMAIN values |-> Times(values[i], values[i])]
Variance(values)   == Mean(Squares(Deviations(values)))

(* The square of StdDev with no degrees of freedom taken away.             *)
StdDev(w, v, period) == Windowed(w, v, period, Variance)

(* The square of ZScore with the sign of ZScore; nan for a flat window.    *)
ZScore(w, v, period) ==
  Windowed(w, v, period, LAMBDA values :
    LET last == Last(Deviations(values)) IN
    IF Variance(values) = Zero THEN None
    ELSE Over(Times(last, Magnitude(last)), Variance(values)))

(* The slope of scipy's linregress.                                        *)
Slope2(xs, ys) ==
  LET dx == Deviations(xs)
      dy == Deviations(ys)
  IN Over(Total([i \in DOMAIN xs |-> Times(dx[i], dy[i])]), Total(Squares(dx)))
Intercept(xs, ys) == Minus(Mean(ys), Times(Slope2(xs, ys), Mean(xs)))

Slope(w, v, period) ==
  Windowed(w, v, period, LAMBDA values : Slope2([i \in DOMAIN values |-> Q(i - 1)], values))

(* TRUE and FALSE are <<1>> and <<0>>, None is between the thresholds.     *)
Trend(w, v, period, positive, negative) ==
  Windowed(w, v, period, LAMBDA values :
    LET slope == Slope2([i \in DOMAIN values |-> Q(i - 1)], values) IN
    IF Below(positive, slope) THEN <<1>> ELSE IF Below(slope, negative) THEN <<0>> ELSE None)

(* LeastSquaresRegressionWindow keeps the timestamps of its values.        *)
Regression0 == [values |-> <<>>, timestamps |-> <<>>, value |-> None]
Regression(w, dateTime, v, size) ==
  LET ys == Enter(w.values, v, size)
      xs == IF v = None THEN w.timestamps ELSE Enter(w.timestamps, Q(dateTime), size)
  IN [values |-> ys, timestamps |-> xs,
      value |-> IF Len(ys) < size THEN None
                ELSE Plus(Times(Slope2(xs, ys), Last(xs)), Intercept(xs, ys))]

-----------------------------------------------------------------------------
(* Indicators with a memory of their own *)

(* CumRetEventWindow: getValue compounds the returns it is asked for.      *)
CumRet0 == [values |-> <<>>, cumRet |-> Zero, value |-> None]
CumRet(w, v) ==
  LET values == Enter(w.values, v, 2)
      net    == Over(Minus(values[2], values[1]), values[1])
      cumRet == IF Len(values) < 2 THEN w.cumRet
                ELSE Minus(Times(Plus(One, w.cumRet), Plus(One, net)), One)
  IN [values |-> values, cumRet |-> cumRet, value |-> IF Len(values) < 2 THEN None ELSE cumRet]

ATR0 == [values |-> <<>>, prevClose |-> None, value |-> None]

TrueRange(prevClose, bar) ==
  LET range == Minus(bar.high, bar.low) IN
  IF prevClose = None THEN range
  ELSE Highest({range, Magnitude(Minus(bar.high, prevClose)), Magnitude(Minus(bar.low, prevClose))})

(* The smoothing of Wilder.                                                *)
Smoothed(average, v, period) == Over(Plus(Times(average, Q(period - 1)), v), Q(period))

ATR(w, bar, period) ==
  LET tr     == TrueRange(w.prevClose, bar)
      values == Enter(w.values, tr, period)
  IN [values |-> values, prevClose |-> bar.close,
      value  |-> IF Len(values) < period THEN w.value
                 ELSE IF w.value = None THEN Mean(values) ELSE Smoothed(w.value, tr, period)]

RSI0 == [values |-> <<>>, gain |-> None, loss |-> None, value |-> None]

GainLossOne(from, to) ==
  IF Below(to, from) THEN [gain |-> Zero, loss |-> Minus(from, to)]
  ELSE [gain |-> Minus(to, from), loss |-> Zero]
AvgGainLoss(values) ==
  LET one == [i \in 1 .. Len(values) - 1 |-> GainLossOne(values[i], values[i + 1])]
  IN [gain |-> Mean([i \in DOMAIN one |-> one[i].gain]),
      loss |-> Mean([i \in DOMAIN one |-> one[i].loss])]

RSI(w, v, period) ==
  LET values == Enter(w.values, v, period + 1)
      first  == AvgGainLoss(values)
      last   == GainLossOne(values[Len(values) - 1], Last(values))
      gain   == IF w.gain = None THEN first.gain ELSE Smoothed(w.gain, last.gain, period)
      loss   == IF w.loss = None THEN first.loss ELSE Smoothed(w.loss, last.loss, period)
  IN IF v = None \/ Len(values) < period + 1 THEN [w EXCEPT !.values = values]
     ELSE [values |-> values, gain |-> gain, loss |-> loss,
           value  |-> IF loss = Zero THEN Q(100)
                      ELSE Minus(Q(100), Over(Q(100), Plus(One, Over(gain, loss))))]

-----------------------------------------------------------------------------
(* Indicators made of others *)

(* BollingerBands: None, or the middle band and the square of the distance *)
(* of the others from it.                                                  *)
Bollinger(sma, stdDev, v, numStdDev) ==
  IF v = None \/ sma.value = None THEN None
  ELSE <<sma.value, Times(stdDev.value, Q(numStdDev * numStdDev))>>

Stoch0 == [k |-> Window, d |-> Window]

FastK(bars) ==
  LET low  == Lowest({bars[i].low : i \in DOMAIN bars})
      high == Highest({bars[i].high : i \in DOMAIN bars})
      delta == Minus(Last(bars).close, low)
  IN IF delta = Zero THEN Zero ELSE Times(Over(delta, Minus(high, low)), Q(100))

(* StochasticOscillator: %D is an SMA over %K.                             *)
Stoch(s, bar, period, dPeriod) ==
  LET k == Windowed(s.k, bar, period, FastK) IN [k |-> k, d |-> SMA(s.d, k.value, dPeriod)]

MACD0(fast, slow) ==
  [skip |-> slow - fast, fast |-> Window, slow |-> Window, signal |-> Window,
   macd |-> None, signalValue |-> None, histogram |-> None]

MACD(m, v, fast, slow, signal) ==
  LET s    == EMA(m.slow, v, slow)
      f    == IF m.skip > 0 THEN m.fast ELSE EMA(m.fast, v, fast)
      diff == IF m.skip = 0 /\ Len(f.values) = fast THEN Minus(f.value, s.value) ELSE None
      g    == EMA(m.signal, diff, signal)
      full == Len(g.values) = signal
  IN [skip |-> Max({m.skip - 1, 0}), fast |-> f, slow |-> s, signal |-> g,
      macd |-> IF full THEN diff ELSE None,
      signalValue |-> IF full THEN g.value ELSE None,
      histogram |-> IF full THEN Minus(diff, g.value) ELSE None]

Line(low, high, white) == [low |-> low, high |-> high, white |-> white]

(* Mutant: one line too many is looked at.                                 *)
OneLineMore(values, reversalLines) == LastOf(values, reversalLines + 1)

(* LineBreak.__isReversal: the lines to break through.                     *)
LinesToBreak(values, reversalLines) == LastOf(values, reversalLines)

(* A new line only if the price goes on or breaks through the last         *)
(* reversalLines lines.                                                    *)
NextLine(ds, bar, reversalLines) ==
  LET lines  == LinesToBreak(ds.values, reversalLines)
      last   == Last(ds.values)
      up     == Line(last.high, bar.close, TRUE)
      down   == Line(bar.close, last.low, FALSE)
  IN IF ds.values = <<>> THEN <<Line(bar.low, bar.high, ~Below(bar.close, bar.open))>>
     ELSE IF last.white
     THEN IF Below(last.high, bar.close) THEN <<up>>
          ELSE IF \A i \in DOMAIN lines : Below(bar.close, lines[i].low) THEN <<down>> ELSE <<>>
     ELSE IF Below(bar.close, last.low) THEN <<down>>
          ELSE IF \A i \in DOMAIN lines : Below(lines[i].high, bar.close) THEN <<up>> ELSE <<>>

LineBreak(ds, dateTime, bar, reversalLines) ==
  LET new == NextLine(ds, bar, reversalLines) IN
  IF new = <<>> THEN ds ELSE AppendTo(ds, dateTime, new[1])

-----------------------------------------------------------------------------
(* cross_above over the last n values of two series *)

(* compute_diff, without the zeros.                                        *)
Diffs(values1, values2) ==
  SelectSeq([i \in DOMAIN values1 |-> Minus(values1[i], values2[i])], LAMBDA d : d # Zero)

(* _get_stripped: the shorter one, aligned on the right.                   *)
CrossAbove(values1, values2, n) ==
  LET len   == Min({n, Len(values1), Len(values2)})
      diffs == Diffs(LastOf(values1, len), LastOf(values2, len))
  IN Cardinality({i \in 2 .. Len(diffs) : ~Positive(diffs[i - 1]) /\ Positive(diffs[i])})

CrossBelow(values1, values2, n) == CrossAbove(values2, values1, n)

=============================================================================
