----------------------------- MODULE DataSeries -----------------------------
(***************************************************************************)
(* dataseries/: series of values with their datetimes that hold the last   *)
(* maxLen of them; the series of a bar feed; two series aligned by their   *)
(* datetimes; and a bar series resampled to a lower frequency.             *)
(*                                                                         *)
(* These are the operations as operators on records; the handlers that     *)
(* call one another through the new-value events are composed in Studies.  *)
(***************************************************************************)
EXTENDS Rationals, SequencesExt, FiniteSetsExt

(* ListDeque.                                                              *)
LastOf(values, n) == SubSeq(values, Max({1, Len(values) - n + 1}), Len(values))

Series(maxLen) == [values |-> <<>>, dateTimes |-> <<>>, maxLen |-> maxLen]

(* SequenceDataSeries.appendWithDateTime.                                  *)
AppendTo(ds, dateTime, value) ==
  [ds EXCEPT !.values    = LastOf(Append(@, value), ds.maxLen),
             !.dateTimes = LastOf(Append(@, dateTime), ds.maxLen)]

-----------------------------------------------------------------------------
(* bar.BasicBar, with fractions for its prices.                            *)

Bar(open, high, low, close, volume) ==
  [open |-> Q(open), high |-> Q(high), low |-> Q(low), close |-> Q(close), volume |-> Q(volume)]

Fraction == Int \X (Nat \ {0})
Shape == [open : Fraction, high : Fraction, low : Fraction, close : Fraction, volume : Fraction]

(* What its constructor requires of the prices.                            *)
WellFormed(bar) ==
  \A price \in {bar.open, bar.close, bar.low} : ~Below(bar.high, price) /\ ~Below(price, bar.low)

TypicalPrice(bar) == Over(Plus(Plus(bar.high, bar.low), bar.close), Q(3))

-----------------------------------------------------------------------------
(* aligned.Syncer: what either source had that the other may still get is  *)
(* buffered, since the sources may not hold it any more.                   *)

Syncer(maxLen) ==
  [buffers |-> <<<<>>, <<>>>>, dest |-> <<Series(maxLen), Series(maxLen)>>]

(* __findPosForDateTime: 0 for None.                                       *)
PosFor(buffer, dateTime) == SelectLastInSeq(buffer, LAMBDA e : e.dateTime = dateTime)

(* Mutant: only the last value of each source is kept for the other.       *)
SyncLastOnly(syncer, i, dateTime, value) ==
  LET j   == 3 - i
      pos == PosFor(syncer.buffers[j], dateTime)
  IN IF pos = 0
     THEN [syncer EXCEPT !.buffers[i] = <<[dateTime |-> dateTime, value |-> value]>>]
     ELSE [syncer EXCEPT !.buffers = <<<<>>, <<>>>>,
                         !.dest[i] = AppendTo(@, dateTime, value),
                         !.dest[j] = AppendTo(@, dateTime, syncer.buffers[j][pos].value)]

(* __onNewValue1 and __onNewValue2, for the source i.                      *)
OnNewValue(syncer, i, dateTime, value) ==
  LET j   == 3 - i
      pos == PosFor(syncer.buffers[j], dateTime)
  IN IF pos = 0
     THEN [syncer EXCEPT !.buffers[i] = Append(@, [dateTime |-> dateTime, value |-> value])]
     ELSE [syncer EXCEPT !.buffers[i] = <<>>,
                         !.buffers[j] = SubSeq(@, pos + 1, Len(@)),
                         !.dest[i] = AppendTo(@, dateTime, value),
                         !.dest[j] = AppendTo(@, dateTime, syncer.buffers[j][pos].value)]

-----------------------------------------------------------------------------
(* resampled.DSResampler with a BarGrouper.  A range is known by where it  *)
(* begins (resamplebase.IntraDayRange).                                    *)

Beginning(dateTime, frequency) == (dateTime \div frequency) * frequency

Resampler(frequency, maxLen) ==
  [frequency |-> frequency, range |-> None, grouper |-> None, series |-> Series(maxLen)]

(* BarGrouper.addValue.                                                    *)
Grouped(grouper, bar) ==
  [grouper EXCEPT !.high = Highest({@, bar.high}), !.low = Lowest({@, bar.low}),
                  !.close = bar.close, !.volume = Plus(@, bar.volume)]

Belongs(r, dateTime) == Beginning(dateTime, r.frequency) = r.range[1]

NewGroup(r, dateTime, bar) ==
  [r EXCEPT !.range = <<Beginning(dateTime, r.frequency)>>, !.grouper = bar]

EmitGroup(r) == [r EXCEPT !.series = AppendTo(@, r.range[1], r.grouper)]

(* DSResampler.__onNewValue.                                               *)
Resample(r, dateTime, bar) ==
  IF r.range = None THEN NewGroup(r, dateTime, bar)
  ELSE IF Belongs(r, dateTime) THEN [r EXCEPT !.grouper = Grouped(@, bar)]
  ELSE NewGroup(EmitGroup(r), dateTime, bar)

(* checkNow: the group is over if the datetime does not belong to it.      *)
CheckNow(r, dateTime) ==
  IF r.range # None /\ ~Belongs(r, dateTime)
  THEN [EmitGroup(r) EXCEPT !.range = None, !.grouper = None] ELSE r

(* pushLast.                                                               *)
PushLast(r) ==
  IF r.range # None THEN [EmitGroup(r) EXCEPT !.range = None, !.grouper = None] ELSE r

=============================================================================
