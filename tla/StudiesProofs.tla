--------------------------- MODULE StudiesProofs ---------------------------
(***************************************************************************)
(* Theorems about what is computed bar by bar, for any bars that the       *)
(* constructor of BasicBar accepts, any period and any number of bars: the *)
(* lines of a line break chart, and the events of the event profiler; and, *)
(* for any executions and prices, what the analyzers of a strategy report. *)
(***************************************************************************)
EXTENDS Studies, Analyzers, DataTheorems

ALine == [low : Fraction, high : Fraction, white : BOOLEAN]
Entry == [dateTime : Nat, bar : Shape]

(* A close is within some lines, between the low of one and the high of    *)
(* another.                                                                *)
Within(c, r) ==
  /\ \E k \in 1 .. Len(r) : ~Below(c, r[k].low)
  /\ \E k \in 1 .. Len(r) : ~Below(r[k].high, c)

(* A line of another colour than the one before is beyond the Period lines *)
(* before it.                                                              *)
Beyond(new, old) == IF new.white THEN Below(old.high, new.high) ELSE Below(new.low, old.low)
Reversals(v) ==
  \A k \in Period + 1 .. Len(v) : v[k].white # v[k - 1].white =>
    \A j \in k - Period .. k - 1 : Beyond(v[k], v[j])

LinesInv ==
  /\ now \in [Instruments -> Nat] /\ history \in [Instruments -> Seq(Entry)]
  /\ lines \in [values : Seq(ALine), dateTimes : Seq(Nat), maxLen : {MaxLen}]
  /\ history[First] # << >> =>
       /\ lines.values # << >>
       /\ Within(history[First][Len(history[First])].bar.close, LastOf(lines.values, Period))
  /\ history[First] = << >> => lines.values = << >>
  /\ Reversals(lines.values)

-----------------------------------------------------------------------------
LEMMA LargerOf ==
  ASSUME NEW n \in Int
  PROVE  Max({1, n}) = IF n <= 1 THEN 1 ELSE n
<1>1. CASE n <= 1
  <2>1. 1 \in {1, n} /\ \A y \in {1, n} : 1 >= y
    BY <1>1
  <2>2. \A x \in {1, n} : (\A y \in {1, n} : x >= y) => x = 1
    BY <1>1
  <2> QED BY <1>1, <2>1, <2>2 DEF Max
<1>2. CASE ~(n <= 1)
  <2>1. n \in {1, n} /\ \A y \in {1, n} : n >= y
    BY <1>2
  <2>2. \A x \in {1, n} : (\A y \in {1, n} : x >= y) => x = n
    BY <1>2
  <2> QED BY <1>2, <2>1, <2>2 DEF Max
<1> QED BY <1>1, <1>2

(* The last n values: all, or those after the first d.                     *)
EndOf(w, s, n) ==
  \E d \in Nat : /\ d + Len(w) = Len(s)
                 /\ d = (IF Len(s) <= n THEN 0 ELSE Len(s) - n)
                 /\ \A k \in 1 .. Len(w) : w[k] = s[d + k]

LEMMA LastOfIs ==
  ASSUME NEW E, NEW s \in Seq(E), NEW n \in Nat \ {0}
  PROVE  LastOf(s, n) \in Seq(E) /\ EndOf(LastOf(s, n), s, n)
<1>1. PICK m \in Nat : m = Len(s) /\ DOMAIN s = 1 .. m
  BY LenProperties
<1>2. PICK d \in Nat : d = (IF m <= n THEN 0 ELSE m - n) /\ d <= m
  <2>1. ASSUME ~(m <= n) PROVE m - n \in Nat /\ m - n <= m
    BY <2>1
  <2>2. (IF m <= n THEN 0 ELSE m - n) \in Nat /\ (IF m <= n THEN 0 ELSE m - n) <= m
    BY <2>1
  <2> QED BY <2>2
<1>3. Max({1, m - n + 1}) = d + 1
  <2>1. m - n + 1 \in Int
    OBVIOUS
  <2> QED BY <1>2, <2>1, LargerOf
<1>4. PICK c \in Nat : c = m - d
  BY <1>2
<1>5. LastOf(s, n) = SubSeq(s, d + 1, m)
  BY <1>1, <1>3 DEF LastOf
<1>6. SubSeq(s, d + 1, m) = [k \in 1 .. c |-> s[d + k]]
  <2>1. SubSeq(s, d + 1, m) = [k \in 1 .. (m - (d + 1) + 1) |-> s[k + (d + 1) - 1]]
    OBVIOUS
  <2>2. m - (d + 1) + 1 = c
    BY <1>4
  <2>3. \A k \in 1 .. c : k + (d + 1) - 1 = d + k
    OBVIOUS
  <2> QED BY <2>1, <2>2, <2>3
<1>7. PICK x : x = LastOf(s, n) /\ x = [k \in 1 .. c |-> s[d + k]]
  BY <1>5, <1>6
<1>8. x \in Seq(E)
  <2>1. ASSUME NEW k \in 1 .. c PROVE s[d + k] \in E
    <3>1. d + k \in 1 .. m
      BY <1>2, <1>4
    <3> QED BY <1>1, <3>1, ElementOfSeq
  <2>2. x \in [1 .. c -> E]
    BY <1>7, <2>1
  <2> QED BY <2>2, SeqDef
<1>9. Len(x) = c
  BY <1>7, <1>8, LenProperties
<1>10. \A k \in 1 .. c : x[k] = s[d + k]
  BY <1>7
<1>11. d + c = m
  BY <1>4
<1>12. /\ d + Len(x) = Len(s)
       /\ d = IF Len(s) <= n THEN 0 ELSE Len(s) - n
       /\ \A k \in 1 .. Len(x) : x[k] = s[d + k]
  BY <1>1, <1>2, <1>9, <1>10, <1>11
<1>13. EndOf(x, s, n)
  BY <1>12, Zenon DEF EndOf
<1> QED BY <1>7, <1>8, <1>13, Zenon

(* The last of them is the last.                                           *)
LEMMA LastOfLast ==
  ASSUME NEW E, NEW s \in Seq(E), s # << >>, NEW n \in Nat \ {0}
  PROVE  /\ Len(LastOf(s, n)) \in Nat \ {0} /\ Len(s) \in Nat \ {0}
         /\ LastOf(s, n)[Len(LastOf(s, n))] = s[Len(s)]
<1>1. PICK r \in Seq(E) : r = LastOf(s, n)
  BY LastOfIs
<1>2. PICK d \in Nat : /\ d + Len(r) = Len(s) /\ d = (IF Len(s) <= n THEN 0 ELSE Len(s) - n)
                       /\ \A k \in 1 .. Len(r) : r[k] = s[d + k]
  <2>1. EndOf(r, s, n)
    BY <1>1, LastOfIs
  <2> QED BY <2>1, Zenon DEF EndOf
<1>3. Len(s) \in Nat /\ Len(s) # 0
  BY LenProperties, EmptySeq
<1>4. Len(r) \in Nat
  BY LenProperties
<1>5. Len(r) # 0
  BY <1>2, <1>3
<1>6. Len(r) \in 1 .. Len(r)
  BY <1>4, <1>5
<1> QED BY <1>1, <1>2, <1>3, <1>4, <1>5, <1>6

(* Of two fractions only one is below the other.                           *)
LEMMA NotBoth ==
  ASSUME NEW a \in Fraction, NEW b \in Fraction, Below(a, b)
  PROVE  ~Below(b, a)
<1>1. a[1] * b[2] \in Int /\ b[1] * a[2] \in Int
  BY DEF Fraction
<1> QED BY <1>1 DEF Below

LEMMA NotBelowItself ==
  ASSUME NEW a \in Fraction
  PROVE  ~Below(a, a)
<1>1. a[1] * a[2] \in Int
  BY DEF Fraction
<1> QED BY <1>1 DEF Below

LEMMA PeriodIs == Period \in Nat \ {0} /\ MaxLen \in Nat \ {0} /\ First \in Instruments
<1>1. /\ Period \in Nat \ {0, 1} /\ LongPeriod \in Nat /\ Period < LongPeriod
      /\ MaxLen \in Nat /\ MaxLen >= LongPeriod
  BY StudiesAssumption
<1> QED BY <1>1 DEF Instruments

-----------------------------------------------------------------------------
(* Lines *)

(* One more line after the ones there are, of which the last MaxLen stay.  *)
LEMMA LineAdded ==
  ASSUME NEW v \in Seq(ALine), NEW new \in ALine, Reversals(v),
         v # << >> /\ new.white # v[Len(v)].white =>
           \A k \in 1 .. Len(LastOf(v, Period)) : Beyond(new, LastOf(v, Period)[k])
  PROVE  /\ LastOf(Append(v, new), MaxLen) \in Seq(ALine)
         /\ LastOf(Append(v, new), MaxLen) # << >>
         /\ Reversals(LastOf(Append(v, new), MaxLen))
         /\ LET r == LastOf(LastOf(Append(v, new), MaxLen), Period)
            IN Len(r) \in 1 .. Len(r) /\ r[Len(r)] = new
<1>1. PICK n \in Nat : n = Len(v)
  BY LenProperties
<1>2. PICK a \in Seq(ALine) : /\ a = Append(v, new) /\ Len(a) = n + 1 /\ a[n + 1] = new
                              /\ \A k \in 1 .. n : a[k] = v[k]
  <2>1. /\ Append(v, new) \in Seq(ALine) /\ Len(Append(v, new)) = Len(v) + 1
        /\ Append(v, new)[Len(v) + 1] = new /\ \A k \in 1 .. Len(v) : Append(v, new)[k] = v[k]
    BY AppendProperties
  <2> QED BY <1>1, <2>1
<1>3. a # << >>
  <2>1. Len(<< >>) = 0 /\ n + 1 # 0
    OBVIOUS
  <2> QED BY <1>2, <2>1
<1>4. PICK w \in Seq(ALine) : w = LastOf(a, MaxLen)
  BY LastOfIs, PeriodIs
<1>5. PICK d \in Nat : d + Len(w) = Len(a) /\ \A k \in 1 .. Len(w) : w[k] = a[d + k]
  <2>1. EndOf(w, a, MaxLen)
    BY <1>4, LastOfIs, PeriodIs
  <2> QED BY <2>1, Zenon DEF EndOf
<1>6. Len(w) \in Nat \ {0} /\ w[Len(w)] = new
  <2>1. Len(LastOf(a, MaxLen)) \in Nat \ {0} /\ LastOf(a, MaxLen)[Len(LastOf(a, MaxLen))] = a[Len(a)]
    BY <1>3, LastOfLast, PeriodIs
  <2> QED BY <1>2, <1>4, <2>1
<1>7. PICK m \in Nat \ {0} : m = Len(w) /\ d + m = n + 1
  BY <1>2, <1>5, <1>6
<1>8. w # << >>
  <2>1. Len(<< >>) = 0
    OBVIOUS
  <2> QED BY <1>7, <2>1
<1>9. PICK p \in Nat \ {0} : p = Period
  BY PeriodIs
<1>10. ASSUME NEW k \in p + 1 .. m, w[k].white # w[k - 1].white, NEW j \in k - p .. k - 1
       PROVE  Beyond(w[k], w[j])
  <2>1. /\ k \in 1 .. m /\ k - 1 \in 1 .. m /\ j \in 1 .. m
        /\ d + k \in p + 1 .. n + 1 /\ d + j \in (d + k) - p .. (d + k) - 1
        /\ d + (k - 1) = (d + k) - 1 /\ d + (k - 1) \in 1 .. n /\ d + j \in 1 .. n
    BY <1>7
  <2>2. w[k] = a[d + k] /\ w[k - 1] = v[(d + k) - 1] /\ w[j] = v[d + j]
    BY <1>2, <1>5, <1>7, <2>1
  <2>3. CASE d + k = n + 1
    <3>1. w[k] = new /\ (d + k) - 1 = n /\ n # 0 /\ p <= n
      <4>1. w[k] = new
        BY <1>2, <2>2, <2>3
      <4>2. (d + k) - 1 = n
        BY <2>3
      <4>3. p + 1 <= n + 1
        BY <2>1, <2>3
      <4>4. p <= n /\ n # 0
        BY <4>3
      <4> QED BY <4>1, <4>2, <4>4
    <3>2. v # << >> /\ new.white # v[n].white
      <4>1. Len(<< >>) = 0
        OBVIOUS
      <4> QED BY <1>1, <1>10, <2>2, <3>1, <4>1
    <3>3. \A x \in 1 .. Len(LastOf(v, Period)) : Beyond(new, LastOf(v, Period)[x])
      BY <1>1, <3>2
    <3>4. PICK r \in Seq(ALine) : r = LastOf(v, p)
      BY LastOfIs
    <3>5. PICK e \in Nat : /\ e + Len(r) = n /\ e = (IF n <= p THEN 0 ELSE n - p)
                           /\ \A x \in 1 .. Len(r) : r[x] = v[e + x]
      <4>1. EndOf(r, v, p)
        BY <3>4, LastOfIs
      <4>2. \E e \in Nat : /\ e + Len(r) = Len(v) /\ e = (IF Len(v) <= p THEN 0 ELSE Len(v) - p)
                           /\ \A x \in 1 .. Len(r) : r[x] = v[e + x]
        BY <4>1, Zenon DEF EndOf
      <4> QED BY <1>1, <4>2
    <3>6. e = n - p /\ Len(r) = p
      <4>1. Len(r) \in Nat
        BY LenProperties
      <4>2. e = n - p
        BY <3>1, <3>5
      <4> QED BY <3>5, <4>1, <4>2
    <3>7. PICK x \in 1 .. p : e + x = d + j
      <4>1. d + j \in n + 1 - p .. n
        BY <2>1, <2>3
      <4>2. d + j - e \in 1 .. p /\ e + (d + j - e) = d + j
        BY <3>6, <4>1
      <4> QED BY <4>2
    <3>8. r[x] = v[d + j] /\ Beyond(new, r[x])
      BY <1>9, <3>3, <3>4, <3>5, <3>6, <3>7
    <3> QED BY <2>2, <3>1, <3>8
  <2>4. CASE d + k # n + 1
    <3>1. d + k \in p + 1 .. n /\ d + k \in 1 .. n
      BY <2>1, <2>4
    <3>2. w[k] = v[d + k]
      BY <1>2, <2>2, <3>1
    <3>3. v[d + k].white # v[(d + k) - 1].white
      BY <1>10, <2>2, <3>2
    <3>4. Beyond(v[d + k], v[d + j])
      BY <1>1, <1>9, <2>1, <3>1, <3>3 DEF Reversals
    <3> QED BY <2>2, <3>2, <3>4
  <2> QED BY <2>3, <2>4
<1>11. Reversals(w)
  BY <1>7, <1>9, <1>10 DEF Reversals
<1>12. PICK r \in Seq(ALine) : r = LastOf(w, Period)
  BY LastOfIs, PeriodIs
<1>13. Len(r) \in Nat \ {0} /\ r[Len(r)] = new
  <2>1. Len(LastOf(w, Period)) \in Nat \ {0} /\ LastOf(w, Period)[Len(LastOf(w, Period))] = w[Len(w)]
    BY <1>8, LastOfLast, PeriodIs
  <2> QED BY <1>6, <1>12, <2>1
<1>14. Len(r) \in 1 .. Len(r)
  BY <1>13
<1> QED BY <1>2, <1>4, <1>8, <1>11, <1>12, <1>13, <1>14

(* What a bar draws: nothing when it stays within the lines to break, or a *)
(* line with its close at one end, beyond them if its colour is another.   *)
LEMMA NextLineIs ==
  ASSUME NEW ds, ds.values \in Seq(ALine), NEW bar \in Shape, WellFormed(bar)
  PROVE  \/ /\ NextLine(ds, bar, Period) = << >> /\ ds.values # << >>
            /\ Within(bar.close, LastOf(ds.values, Period))
         \/ \E new \in ALine :
              /\ NextLine(ds, bar, Period) = <<new>>
              /\ ~Below(bar.close, new.low) /\ ~Below(new.high, bar.close)
              /\ ds.values # << >> /\ new.white # ds.values[Len(ds.values)].white =>
                   \A k \in 1 .. Len(LastOf(ds.values, Period)) : Beyond(new, LastOf(ds.values, Period)[k])
<1>1. PICK v \in Seq(ALine) : v = ds.values
  OBVIOUS
<1>2. PICK c \in Fraction : c = bar.close
  BY DEF Shape
<1>3. bar.low \in Fraction /\ bar.high \in Fraction /\ ~Below(bar.high, c) /\ ~Below(c, bar.low)
  BY <1>2 DEF Shape, WellFormed
<1>4. CASE v = << >>
  <2>1. PICK new : new = Line(bar.low, bar.high, ~Below(bar.close, bar.open))
    OBVIOUS
  <2>2. new \in ALine /\ new.low = bar.low /\ new.high = bar.high
    BY <1>3, <2>1 DEF Line, ALine
  <2>3. NextLine(ds, bar, Period) = <<new>>
    BY <1>1, <1>4, <2>1, Zenon DEF NextLine
  <2> QED BY <1>1, <1>2, <1>3, <1>4, <2>2, <2>3
<1>5. CASE v # << >>
  <2>1. PICK r \in Seq(ALine) : r = LastOf(v, Period)
    BY LastOfIs, PeriodIs
  <2>2. PICK last \in ALine : last = v[Len(v)] /\ last = Last(ds.values)
    <3>1. Len(v) \in Nat \ {0}
      BY <1>5, LastOfLast, PeriodIs
    <3>2. Len(v) \in 1 .. Len(v)
      BY <3>1
    <3>3. v[Len(v)] \in ALine
      BY <3>2, ElementOfSeq
    <3> QED BY <1>1, <3>3 DEF Last
  <2>3. /\ Len(r) \in Nat \ {0} /\ r[Len(r)] = last
    <3>1. Len(LastOf(v, Period)) \in Nat \ {0} /\ LastOf(v, Period)[Len(LastOf(v, Period))] = v[Len(v)]
      BY <1>5, LastOfLast, PeriodIs
    <3> QED BY <2>1, <2>2, <3>1
  <2>4. Len(r) \in 1 .. Len(r) /\ DOMAIN r = 1 .. Len(r)
    BY <2>3, LenProperties
  <2>5. PICK up : up = Line(last.high, c, TRUE)
    OBVIOUS
  <2>6. PICK down : down = Line(c, last.low, FALSE)
    OBVIOUS
  <2>7. /\ last.low \in Fraction /\ last.high \in Fraction /\ last.white \in BOOLEAN
        /\ up \in ALine /\ up.low = last.high /\ up.high = c /\ up.white = TRUE
        /\ down \in ALine /\ down.low = c /\ down.high = last.low /\ down.white = FALSE
    BY <2>5, <2>6 DEF Line, ALine
  <2>8. NextLine(ds, bar, Period) =
          IF last.white
          THEN IF Below(last.high, c) THEN <<up>>
               ELSE IF \A i \in 1 .. Len(r) : Below(c, r[i].low) THEN <<down>> ELSE << >>
          ELSE IF Below(c, last.low) THEN <<down>>
               ELSE IF \A i \in 1 .. Len(r) : Below(r[i].high, c) THEN <<up>> ELSE << >>
    <3>1. /\ ds.values # << >> /\ LinesToBreak(ds.values, Period) = r /\ Last(ds.values) = last
          /\ Line(last.high, bar.close, TRUE) = up /\ Line(bar.close, last.low, FALSE) = down
      BY <1>1, <1>2, <1>5, <2>1, <2>2, <2>5, <2>6 DEF LinesToBreak
    <3> QED BY <1>2, <2>4, <3>1, Zenon DEF NextLine
  <2>9. ASSUME NEW new \in {up, down}, NextLine(ds, bar, Period) = <<new>>,
               ~Below(c, new.low), ~Below(new.high, c),
               new.white # last.white => \A k \in 1 .. Len(r) : Beyond(new, r[k])
        PROVE  \E x \in ALine :
                 /\ NextLine(ds, bar, Period) = <<x>>
                 /\ ~Below(bar.close, x.low) /\ ~Below(x.high, bar.close)
                 /\ ds.values # << >> /\ x.white # ds.values[Len(ds.values)].white =>
                      \A k \in 1 .. Len(LastOf(ds.values, Period)) : Beyond(x, LastOf(ds.values, Period)[k])
    BY <1>1, <1>2, <2>1, <2>2, <2>7, <2>9
  <2>10. ASSUME NextLine(ds, bar, Period) = << >>,
                \E k \in 1 .. Len(r) : ~Below(c, r[k].low),
                \E k \in 1 .. Len(r) : ~Below(r[k].high, c)
         PROVE  /\ NextLine(ds, bar, Period) = << >> /\ ds.values # << >>
                /\ Within(bar.close, LastOf(ds.values, Period))
    BY <1>1, <1>2, <1>5, <2>1, <2>10 DEF Within
  <2>11. CASE last.white /\ Below(last.high, c)
    <3>1. ~Below(c, up.low) /\ ~Below(up.high, c) /\ up.white = last.white
      BY <2>7, <2>11, NotBoth, NotBelowItself
    <3> QED BY <2>8, <2>9, <2>11, <3>1
  <2>12. CASE last.white /\ ~Below(last.high, c) /\ \A i \in 1 .. Len(r) : Below(c, r[i].low)
    <3>1. Below(c, last.low)
      BY <2>3, <2>4, <2>12
    <3>2. ~Below(c, down.low) /\ ~Below(down.high, c)
      BY <2>7, <3>1, NotBoth, NotBelowItself
    <3>3. \A k \in 1 .. Len(r) : Beyond(down, r[k])
      BY <2>7, <2>12 DEF Beyond
    <3> QED BY <2>8, <2>9, <2>12, <3>2, <3>3
  <2>13. CASE last.white /\ ~Below(last.high, c) /\ ~(\A i \in 1 .. Len(r) : Below(c, r[i].low))
    <3>1. NextLine(ds, bar, Period) = << >>
      BY <2>8, <2>13
    <3>2. \E k \in 1 .. Len(r) : ~Below(r[k].high, c)
      BY <2>3, <2>4, <2>13
    <3> QED BY <2>10, <2>13, <3>1, <3>2
  <2>14. CASE ~last.white /\ Below(c, last.low)
    <3>1. ~Below(c, down.low) /\ ~Below(down.high, c) /\ down.white = last.white
      BY <2>7, <2>14, NotBoth, NotBelowItself
    <3> QED BY <2>8, <2>9, <2>14, <3>1
  <2>15. CASE ~last.white /\ ~Below(c, last.low) /\ \A i \in 1 .. Len(r) : Below(r[i].high, c)
    <3>1. Below(last.high, c)
      BY <2>3, <2>4, <2>15
    <3>2. ~Below(c, up.low) /\ ~Below(up.high, c)
      BY <2>7, <3>1, NotBoth, NotBelowItself
    <3>3. \A k \in 1 .. Len(r) : Beyond(up, r[k])
      BY <2>7, <2>15 DEF Beyond
    <3> QED BY <2>8, <2>9, <2>15, <3>2, <3>3
  <2>16. CASE ~last.white /\ ~Below(c, last.low) /\ ~(\A i \in 1 .. Len(r) : Below(r[i].high, c))
    <3>1. NextLine(ds, bar, Period) = << >>
      BY <2>8, <2>16
    <3>2. \E k \in 1 .. Len(r) : ~Below(c, r[k].low)
      BY <2>3, <2>4, <2>16
    <3> QED BY <2>10, <2>16, <3>1, <3>2
  <2> QED BY <2>11, <2>12, <2>13, <2>14, <2>15, <2>16
<1> QED BY <1>4, <1>5

LEMMA LinesInit == Init => LinesInv
<1> SUFFICES ASSUME Init PROVE LinesInv
  OBVIOUS
<1>1. << >> \in Seq(ALine) /\ << >> \in Seq(Nat) /\ << >> \in Seq(Entry) /\ Len(<< >>) = 0
  OBVIOUS
<1>2. /\ now = [i \in Instruments |-> 0] /\ history = [i \in Instruments |-> << >>]
      /\ lines = [values |-> << >>, dateTimes |-> << >>, maxLen |-> MaxLen]
  BY DEF Init, Series
<1>3. Reversals(<< >>)
  <2>1. Period + 1 .. 0 = {}
    BY PeriodIs
  <2> QED BY <1>1, <2>1 DEF Reversals
<1>4. history[First] = << >> /\ lines.values = << >>
  BY <1>2, PeriodIs
<1>5. /\ now \in [Instruments -> Nat] /\ history \in [Instruments -> Seq(Entry)]
      /\ lines \in [values : Seq(ALine), dateTimes : Seq(Nat), maxLen : {MaxLen}]
  BY <1>1, <1>2
<1> QED BY <1>3, <1>4, <1>5 DEF LinesInv

(* A bar of First.                                                         *)
LEMMA LinesBar ==
  ASSUME LinesInv, OnBar
  PROVE  LinesInv'
<1>1. PICK i \in Instruments : \E b \in Bars(i) :
        /\ now' = [now EXCEPT ![i] = now[i] + 1]
        /\ history' = [history EXCEPT ![i] = Append(@, [dateTime |-> now[i] + 1, bar |-> b])]
        /\ IF i = First THEN lines' = LineBreak(lines, now[i] + 1, b, Period) ELSE lines' = lines
  BY DEF OnBar
<1>11. PICK bar \in Bars(i) :
        /\ now' = [now EXCEPT ![i] = now[i] + 1]
        /\ history' = [history EXCEPT ![i] = Append(@, [dateTime |-> now[i] + 1, bar |-> bar])]
        /\ IF i = First THEN lines' = LineBreak(lines, now[i] + 1, bar, Period) ELSE lines' = lines
  BY <1>1
<1>2. PICK dt \in Nat : dt = now[i] + 1
  BY DEF LinesInv
<1>3. bar \in Shape /\ WellFormed(bar)
  BY StudiesAssumption DEF Instruments
<1>4. PICK e \in Entry : e = [dateTime |-> dt, bar |-> bar]
  BY <1>3 DEF Entry
<1>5. PICK h \in Seq(Entry) : h = history[i]
  BY DEF LinesInv
<1>6. PICK g \in Seq(Entry) : g = Append(h, e) /\ g # << >> /\ g[Len(g)] = e
  <2>1. /\ Append(h, e) \in Seq(Entry) /\ Len(Append(h, e)) = Len(h) + 1
        /\ Append(h, e)[Len(h) + 1] = e
    BY AppendProperties
  <2>2. Append(h, e) # << >>
    <3>1. Len(h) \in Nat /\ Len(<< >>) = 0
      BY LenProperties
    <3>2. Len(h) + 1 # 0
      BY <3>1
    <3> QED BY <2>1, <3>1, <3>2
  <2> QED BY <2>1, <2>2
<1>7. history' = [history EXCEPT ![i] = g]
  BY <1>11, <1>2, <1>4, <1>5, <1>6
<1>8. /\ now' \in [Instruments -> Nat] /\ history' \in [Instruments -> Seq(Entry)]
      /\ history'[First] = IF i = First THEN g ELSE history[First]
  BY <1>11, <1>2, <1>7, PeriodIs DEF LinesInv
<1>9. CASE i # First
  <2>1. history'[First] = history[First] /\ lines' = lines
    BY <1>11, <1>8, <1>9
  <2> QED BY <1>8, <2>1 DEF LinesInv, Within, Reversals, Beyond
<1>10. CASE i = First
  <2>1. PICK v \in Seq(ALine), d \in Seq(Nat) :
          lines = [values |-> v, dateTimes |-> d, maxLen |-> MaxLen] /\ Reversals(v)
    BY DEF LinesInv
  <2>2. lines.values = v /\ lines.dateTimes = d /\ lines.maxLen = MaxLen
    BY <2>1
  <2>3. lines' = LineBreak(lines, dt, bar, Period)
    BY <1>11, <1>2, <1>10
  <2>4. history'[First] = g /\ g[Len(g)].bar.close = bar.close
    BY <1>4, <1>6, <1>8, <1>10
  <2>5. CASE /\ NextLine(lines, bar, Period) = << >> /\ v # << >>
             /\ Within(bar.close, LastOf(v, Period))
    <3>1. lines' = lines
      BY <2>3, <2>5, Zenon DEF LineBreak
    <3>2. lines'.values = v
      BY <2>2, <3>1
    <3>3. Within(history'[First][Len(history'[First])].bar.close, LastOf(v, Period))
      BY <2>4, <2>5
    <3>4. history'[First] # << >>
      BY <1>6, <2>4
    <3> QED BY <1>8, <2>1, <2>5, <3>1, <3>2, <3>3, <3>4 DEF LinesInv, Within, Reversals, Beyond
  <2>6. ASSUME NEW new \in ALine, NextLine(lines, bar, Period) = <<new>>,
               ~Below(bar.close, new.low), ~Below(new.high, bar.close),
               v # << >> /\ new.white # v[Len(v)].white =>
                 \A k \in 1 .. Len(LastOf(v, Period)) : Beyond(new, LastOf(v, Period)[k])
        PROVE  LinesInv'
    <3>1. PICK w : w = LastOf(Append(v, new), MaxLen)
      OBVIOUS
    <3>2. PICK r : r = LastOf(w, Period)
      OBVIOUS
    <3>3. /\ w \in Seq(ALine) /\ w # << >> /\ Reversals(w)
          /\ Len(r) \in 1 .. Len(r) /\ r[Len(r)] = new
      <4>1. /\ LastOf(Append(v, new), MaxLen) \in Seq(ALine)
            /\ LastOf(Append(v, new), MaxLen) # << >>
            /\ Reversals(LastOf(Append(v, new), MaxLen))
            /\ LET x == LastOf(LastOf(Append(v, new), MaxLen), Period)
               IN Len(x) \in 1 .. Len(x) /\ x[Len(x)] = new
        BY <2>1, <2>6, LineAdded
      <4> QED BY <3>1, <3>2, <4>1
    <3>4. PICK t : t = LastOf(Append(d, dt), MaxLen) /\ t \in Seq(Nat)
      <4>1. Append(d, dt) \in Seq(Nat)
        BY AppendProperties
      <4> QED BY <4>1, LastOfIs, PeriodIs
    <3>5. lines' = [values |-> w, dateTimes |-> t, maxLen |-> MaxLen]
      <4>1. <<new>> # << >> /\ <<new>>[1] = new
        OBVIOUS
      <4>2. lines' = AppendTo(lines, dt, new)
        BY <2>3, <2>6, <4>1 DEF LineBreak
      <4>3. AppendTo(lines, dt, new) =
              [lines EXCEPT !.values = LastOf(Append(@, new), lines.maxLen),
                            !.dateTimes = LastOf(Append(@, dt), lines.maxLen)]
        BY DEF AppendTo
      <4> QED BY <2>1, <3>1, <3>4, <4>2, <4>3
    <3>6. lines'.values = w /\ lines' \in [values : Seq(ALine), dateTimes : Seq(Nat), maxLen : {MaxLen}]
      BY <3>3, <3>4, <3>5
    <3>7. Within(bar.close, r)
      BY <2>6, <3>3 DEF Within
    <3>8. history'[First] # << >> /\ Within(history'[First][Len(history'[First])].bar.close, LastOf(w, Period))
      BY <1>6, <2>4, <3>2, <3>7
    <3> QED BY <1>8, <3>3, <3>6, <3>8 DEF LinesInv, Within, Reversals, Beyond
  <2>7. \/ /\ NextLine(lines, bar, Period) = << >> /\ v # << >>
           /\ Within(bar.close, LastOf(v, Period))
        \/ \E new \in ALine :
              /\ NextLine(lines, bar, Period) = <<new>>
              /\ ~Below(bar.close, new.low) /\ ~Below(new.high, bar.close)
              /\ v # << >> /\ new.white # v[Len(v)].white =>
                   \A k \in 1 .. Len(LastOf(v, Period)) : Beyond(new, LastOf(v, Period)[k])
    <3>1. PICK ds : ds = lines /\ ds.values = v
      BY <2>2
    <3>2. ds.values \in Seq(ALine)
      BY <3>1
    <3>3. \/ /\ NextLine(ds, bar, Period) = << >> /\ ds.values # << >>
             /\ Within(bar.close, LastOf(ds.values, Period))
          \/ \E new \in ALine :
               /\ NextLine(ds, bar, Period) = <<new>>
               /\ ~Below(bar.close, new.low) /\ ~Below(new.high, bar.close)
               /\ ds.values # << >> /\ new.white # ds.values[Len(ds.values)].white =>
                    \A k \in 1 .. Len(LastOf(ds.values, Period)) : Beyond(new, LastOf(ds.values, Period)[k])
      BY <1>3, <3>2, NextLineIs
    <3> QED BY <3>1, <3>3
  <2> QED BY <2>5, <2>6, <2>7
<1> QED BY <1>9, <1>10

LEMMA LinesStep ==
  ASSUME LinesInv, [Next]_vars
  PROVE  LinesInv'
<1>1. CASE OnBar
  BY <1>1, LinesBar
<1>2. CASE NoBar
  <2>1. /\ \E i \in Instruments : now' = [now EXCEPT ![i] = @ + 1]
        /\ UNCHANGED <<lines, history>>
    BY <1>2 DEF NoBar
  <2>2. now' \in [Instruments -> Nat]
    BY <2>1 DEF LinesInv
  <2> QED BY <2>1, <2>2 DEF LinesInv, Within, Reversals, Beyond
<1>3. CASE Push \/ UNCHANGED vars
  <2>1. UNCHANGED <<now, lines, history>>
    BY <1>3 DEF Push, vars
  <2> QED BY <2>1 DEF LinesInv, Within, Reversals, Beyond
<1> QED BY <1>1, <1>2, <1>3 DEF Next

LEMMA LinesInvImplies == LinesInv => PriceWithinLines
<1> SUFFICES ASSUME LinesInv PROVE PriceWithinLines
  OBVIOUS
<1>1. PICK h \in Seq(Entry) : h = history[First] /\ DOMAIN h = 1 .. Len(h)
  <2>1. history[First] \in Seq(Entry)
    BY PeriodIs DEF LinesInv
  <2> QED BY <2>1, LenProperties
<1>2. PICK n \in Nat : n = Len(h)
  BY LenProperties
<1>3. PICK c : c = closes /\ c = [k \in 1 .. n |-> h[k].bar.close]
  BY <1>1, <1>2 DEF closes, Closes
<1>4. c \in Seq(Fraction) /\ Len(c) = n
  <2>1. \A k \in 1 .. n : h[k].bar.close \in Fraction
    <3>1. \A k \in 1 .. n : h[k] \in Entry
      BY <1>2, ElementOfSeq
    <3> QED BY <3>1 DEF Entry, Shape
  <2>2. c \in [1 .. n -> Fraction]
    BY <1>3, <2>1
  <2>3. c \in Seq(Fraction)
    BY <2>2, SeqDef
  <2> QED BY <2>2, <2>3, LenProperties
<1>5. PICK v \in Seq(ALine) : v = lines.values
  BY DEF LinesInv
<1>6. PICK r \in Seq(ALine) : r = LastOf(v, Period) /\ DOMAIN r = 1 .. Len(r)
  <2>1. LastOf(v, Period) \in Seq(ALine)
    BY LastOfIs, PeriodIs
  <2> QED BY <2>1, LenProperties
<1>7. count = n
  BY <1>3, <1>4 DEF count
<1>8. ASSUME n > 0
      PROVE  /\ \E k \in DOMAIN r : ~Below(Last(closes), r[k].low)
             /\ \E k \in DOMAIN r : ~Below(r[k].high, Last(closes))
  <2>1. h # << >>
    <3>1. Len(<< >>) = 0
      OBVIOUS
    <3> QED BY <1>2, <1>8, <3>1
  <2>2. n \in 1 .. n
    BY <1>8
  <2>3. Last(closes) = h[n].bar.close
    BY <1>3, <1>4, <2>2 DEF Last
  <2>4. Within(h[n].bar.close, r)
    BY <1>1, <1>2, <1>5, <1>6, <2>1 DEF LinesInv
  <2> QED BY <1>6, <2>3, <2>4 DEF Within
<1>9. \A k \in Period + 1 .. Len(v) : v[k].white # v[k - 1].white =>
        \A j \in k - Period .. k - 1 :
          IF v[k].white THEN Below(v[j].high, v[k].high) ELSE Below(v[k].low, v[j].low)
  BY <1>5 DEF LinesInv, Reversals, Beyond
<1> QED BY <1>5, <1>6, <1>7, <1>8, <1>9 DEF PriceWithinLines

(* The last close is within the last lines, and a line of another colour   *)
(* broke through all of those before it (technical/linebreak.py).          *)
THEOREM PriceWithinLinesCorrect == Spec => []PriceWithinLines
<1>1. LinesInv /\ [Next]_vars => LinesInv'
  BY LinesStep
<1> QED BY <1>1, LinesInit, LinesInvImplies, PTL DEF Spec

-----------------------------------------------------------------------------
(* The arithmetic of fractions: gcd, lowest terms, the sums of a sequence. *)
Divides(k, n) == \E q \in Nat : n = k * q
IsGcd(g, a, b) ==
  /\ g \in Nat /\ Divides(g, a) /\ Divides(g, b)
  /\ \A k \in Nat : Divides(k, a) /\ Divides(k, b) => Divides(k, g)

LEMMA Canceled ==
  ASSUME NEW x \in Int, NEW y \in Int, NEW z \in Int, z # 0, x * z = y * z
  PROVE  x = y
<1>1. (x - y) * z = 0
  OBVIOUS
<1>2. PICK d \in Int : d = x - y
  OBVIOUS
<1>3. d * z = 0 => d = 0
  OBVIOUS
<1> QED BY <1>1, <1>2, <1>3

(* Division without a rest.                                                *)
LEMMA ExactDivision ==
  ASSUME NEW g \in Nat, g # 0, NEW z \in Int
  PROVE  (g * z) \div g = z
<1>1. PICK q \in Int, r \in Int : q = (g * z) \div g /\ r = (g * z) % g /\ g * z = g * q + r /\ 0 <= r /\ r < g
  OBVIOUS
<1>2. PICK d \in Int : d = z - q
  OBVIOUS
<1>3. g * d = r
  BY <1>1, <1>2
<1>4. d >= 1 => g * d >= g
  OBVIOUS
<1>5. d <= -1 => g * d <= -g
  OBVIOUS
<1>6. d = 0
  BY <1>1, <1>3, <1>4, <1>5
<1> QED BY <1>1, <1>2, <1>6

(* The common divisors of two numbers are those of the smaller and of the  *)
(* rest that it leaves.                                                    *)
LEMMA RestDivides ==
  ASSUME NEW a \in Nat, NEW b \in Nat, b # 0, NEW k \in Nat, Divides(k, b)
  PROVE  Divides(k, a) <=> Divides(k, a % b)
<1>1. PICK q \in Nat, r \in Nat : r = a % b /\ a = b * q + r
  <2>1. a \div b \in Nat /\ a % b \in Nat /\ a = b * (a \div b) + (a % b)
    OBVIOUS
  <2> QED BY <2>1
<1>2. PICK x \in Nat : b = k * x
  BY DEF Divides
<1>3. ASSUME Divides(k, r) PROVE Divides(k, a)
  <2>1. PICK y \in Nat : r = k * y
    BY <1>3 DEF Divides
  <2>2. a = k * (x * q + y) /\ x * q + y \in Nat
    BY <1>1, <1>2, <2>1
  <2> QED BY <2>2 DEF Divides
<1>4. ASSUME Divides(k, a) PROVE Divides(k, r)
  <2>1. PICK y \in Nat : a = k * y
    BY <1>4 DEF Divides
  <2>2. PICK d \in Int : d = y - x * q
    OBVIOUS
  <2>3. r = k * d
    <3>1. k * y = (k * x) * q + r
      BY <1>1, <1>2, <2>1
    <3>2. k * (y - x * q) = k * y - (k * x) * q
      OBVIOUS
    <3> QED BY <2>2, <3>1, <3>2
  <2>4. k # 0
    BY <1>2
  <2>5. d < 0 => k * d < 0
    BY <2>4
  <2>6. d \in Nat
    BY <2>3, <2>5
  <2> QED BY <2>3, <2>6 DEF Divides
<1> QED BY <1>1, <1>3, <1>4

LEMMA GcdOfRest ==
  ASSUME NEW a \in Nat, NEW b \in Nat, b # 0, NEW g
  PROVE  IsGcd(g, a, b) <=> IsGcd(g, b, a % b)
BY RestDivides DEF IsGcd

LEMMA GcdUnique ==
  ASSUME NEW a, NEW b, NEW g, NEW h, IsGcd(g, a, b), IsGcd(h, a, b)
  PROVE  g = h
<1>1. g \in Nat /\ h \in Nat /\ Divides(g, h) /\ Divides(h, g)
  BY DEF IsGcd
<1>2. PICK x \in Nat : h = g * x
  BY <1>1 DEF Divides
<1>3. PICK y \in Nat : g = h * y
  BY <1>1 DEF Divides
<1>4. CASE g = 0
  BY <1>1, <1>2, <1>4
<1>5. CASE g # 0
  <2>1. g * (x * y) = g * 1
    BY <1>1, <1>2, <1>3
  <2>2. x * y = 1
    <3>1. PICK p \in Nat : p = x * y
      OBVIOUS
    <3>2. p * g = 1 * g
      BY <1>1, <2>1, <3>1
    <3> QED BY <1>1, <1>5, <3>1, <3>2, Canceled
  <2>3. x = 1
    BY <2>2
  <2> QED BY <1>1, <1>2, <2>3
<1> QED BY <1>4, <1>5

LEMMA GcdOfZero ==
  ASSUME NEW a \in Nat
  PROVE  IsGcd(a, a, 0)
<1>1. a = a * 1 /\ 0 = a * 0
  OBVIOUS
<1> QED BY <1>1 DEF IsGcd, Divides

LEMMA GcdExists == \A a, b \in Nat : \E g : IsGcd(g, a, b)
<1> DEFINE B == {b \in Nat : \E a \in Nat : ~ \E g : IsGcd(g, a, b)}
<1>1. SUFFICES ASSUME B # {} PROVE FALSE
  OBVIOUS
<1>2. PICK b \in B : \A k \in B : b <= k
  <2> HIDE DEF B
  <2>1. B \in SUBSET Nat
    BY DEF B
  <2> QED BY <1>1, <2>1, LeastNatural
<1>3. PICK a \in Nat : ~ \E g : IsGcd(g, a, b)
  OBVIOUS
<1>4. b # 0
  BY <1>3, GcdOfZero
<1>5. a % b \in Nat /\ a % b < b
  BY <1>4
<1>6. a % b \notin B
  BY <1>2, <1>5
<1>7. PICK g : IsGcd(g, b, a % b)
  BY <1>5, <1>6
<1> QED BY <1>3, <1>4, <1>7, GcdOfRest

(* The recursive function gcd is the greatest common divisor.              *)
LEMMA GcdIs == \A a, b \in Nat : IsGcd(gcd[<<a, b>>], a, b)
<1> DEFINE Step(f) == [p \in Nat \X Nat |-> IF p[2] = 0 THEN p[1] ELSE f[<<p[2], p[1] % p[2]>>]]
           F == [p \in Nat \X Nat |-> CHOOSE g : IsGcd(g, p[1], p[2])]
<1>1. ASSUME NEW a \in Nat, NEW b \in Nat PROVE IsGcd(F[<<a, b>>], a, b)
  <2>1. F[<<a, b>>] = CHOOSE g : IsGcd(g, a, b)
    OBVIOUS
  <2> HIDE DEF F
  <2> QED BY <2>1, GcdExists
<1>2. F = Step(F)
  <2>1. ASSUME NEW p \in Nat \X Nat
        PROVE  F[p] = IF p[2] = 0 THEN p[1] ELSE F[<<p[2], p[1] % p[2]>>]
    <3>1. PICK a \in Nat, b \in Nat : p = <<a, b>> /\ p[1] = a /\ p[2] = b
      OBVIOUS
    <3>2. IsGcd(F[p], a, b)
      BY <1>1, <3>1
    <3> HIDE DEF F
    <3>3. CASE b = 0
      BY <3>1, <3>2, <3>3, GcdOfZero, GcdUnique
    <3>4. CASE b # 0
      <4>1. a % b \in Nat
        BY <3>4
      <4>2. IsGcd(F[<<b, a % b>>], b, a % b)
        BY <1>1, <4>1
      <4>3. IsGcd(F[<<b, a % b>>], a, b)
        BY <3>4, <4>2, GcdOfRest
      <4> QED BY <3>1, <3>2, <3>4, <4>3, GcdUnique
    <3> QED BY <3>3, <3>4
  <2>2. F = [p \in Nat \X Nat |-> F[p]]
    OBVIOUS
  <2> HIDE DEF F
  <2> QED BY <2>1, <2>2
<1> HIDE DEF F
<1>3. gcd = CHOOSE f : f = Step(f)
  BY DEF gcd
<1>4. gcd = Step(gcd)
  <2> HIDE DEF Step
  <2> QED BY <1>2, <1>3
<1>5. ASSUME NEW a \in Nat, NEW b \in Nat
      PROVE  gcd[<<a, b>>] = IF b = 0 THEN a ELSE gcd[<<b, a % b>>]
  BY <1>4
<1> DEFINE B == {b \in Nat : \E a \in Nat : ~ IsGcd(gcd[<<a, b>>], a, b)}
<1>6. SUFFICES ASSUME B # {} PROVE FALSE
  OBVIOUS
<1>7. PICK b \in B : \A k \in B : b <= k
  <2> HIDE DEF B
  <2>1. B \in SUBSET Nat
    BY DEF B
  <2> QED BY <1>6, <2>1, LeastNatural
<1>8. PICK a \in Nat : ~ IsGcd(gcd[<<a, b>>], a, b)
  OBVIOUS
<1>9. b # 0
  BY <1>5, <1>8, GcdOfZero
<1>10. a % b \in Nat /\ a % b < b
  BY <1>9
<1>11. IsGcd(gcd[<<b, a % b>>], b, a % b)
  BY <1>7, <1>10
<1>12. IsGcd(gcd[<<a, b>>], a, b)
  BY <1>5, <1>9, <1>11, GcdOfRest
<1> QED BY <1>8, <1>12

-----------------------------------------------------------------------------
LEMMA GcdOfMultiples ==
  ASSUME NEW a \in Nat, NEW b \in Nat, NEW k \in Nat, k # 0, IsGcd(1, a, b)
  PROVE  IsGcd(k, k * a, k * b)
<1>1. PICK g : IsGcd(g, k * a, k * b)
  <2>1. k * a \in Nat /\ k * b \in Nat
    OBVIOUS
  <2> QED BY <2>1, GcdExists
<1>2. Divides(k, k * a) /\ Divides(k, k * b)
  BY DEF Divides
<1>3. PICK t \in Nat : g = k * t
  BY <1>1, <1>2 DEF IsGcd, Divides
<1>4. ASSUME NEW c \in Nat, Divides(g, k * c)
      PROVE  Divides(t, c)
  <2>1. PICK q \in Nat : k * c = g * q
    BY <1>4 DEF Divides
  <2>2. PICK y \in Nat : y = t * q
    OBVIOUS
  <2>3. (k * t) * q = k * (t * q)
    OBVIOUS
  <2>4. c * k = y * k
    BY <1>3, <2>1, <2>2, <2>3
  <2>5. c = y
    BY <2>4, Canceled
  <2> QED BY <2>2, <2>5 DEF Divides
<1>5. Divides(t, 1)
  <2>1. Divides(t, a) /\ Divides(t, b)
    BY <1>1, <1>4 DEF IsGcd
  <2> QED BY <2>1 DEF IsGcd
<1>6. t = 1
  <2>1. PICK q \in Nat : 1 = t * q
    BY <1>5 DEF Divides
  <2> QED BY <2>1
<1>7. g = k
  BY <1>3, <1>6
<1> QED BY <1>1, <1>7

(* A fraction has one form in lowest terms.                                *)
LEMMA EqualNumbers ==
  ASSUME NEW a \in Number, NEW b \in Number, a[1] * b[2] = b[1] * a[2]
  PROVE  a = b
<1>1. PICK x \in Int, y \in Nat \ {0} : a = <<x, y>> /\ a[1] = x /\ a[2] = y
  BY DEF Number
<1>2. PICK u \in Int, v \in Nat \ {0} : b = <<u, v>> /\ b[1] = u /\ b[2] = v
  BY DEF Number
<1>3. Abs(x) \in Nat /\ Abs(u) \in Nat
  BY DEF Abs
<1>4. IsGcd(1, Abs(x), y) /\ IsGcd(1, Abs(u), v)
  BY <1>1, <1>2, <1>3, GcdIs DEF Number
<1>5. IsGcd(v, v * Abs(x), v * y) /\ IsGcd(y, y * Abs(u), y * v)
  BY <1>3, <1>4, GcdOfMultiples
<1>6. x * v = u * y
  BY <1>1, <1>2
<1>7. ASSUME NEW k \in Int, NEW m \in Nat PROVE Abs(k * m) = m * Abs(k)
  <2>1. k < 0 => k * m <= 0
    OBVIOUS
  <2>2. k >= 0 => k * m >= 0
    OBVIOUS
  <2>3. -(k * m) = m * (-k)
    OBVIOUS
  <2>4. CASE k < 0 /\ k * m < 0
    BY <2>3, <2>4 DEF Abs
  <2>5. CASE k < 0 /\ k * m = 0
    BY <2>3, <2>5 DEF Abs
  <2>6. CASE k >= 0
    BY <2>2, <2>6 DEF Abs
  <2> QED BY <2>1, <2>4, <2>5, <2>6
<1>8. v * Abs(x) = y * Abs(u)
  BY <1>6, <1>7
<1>9. v * y = y * v
  OBVIOUS
<1>10. v = y
  BY <1>5, <1>8, <1>9, GcdUnique
<1>11. x = u
  BY <1>6, <1>10, Canceled
<1> QED BY <1>1, <1>2, <1>10, <1>11

(* Ratio is the fraction in lowest terms.                                  *)
LEMMA RatioIs ==
  ASSUME NEW n \in Int, NEW d \in Int, d # 0
  PROVE  Ratio(n, d) \in Number /\ Ratio(n, d)[1] * d = n * Ratio(n, d)[2]
<1>1. PICK m \in Nat, e \in Nat, s \in {1, -1} :
        m = Abs(n) /\ e = Abs(d) /\ e # 0 /\ s = (IF d < 0 THEN -1 ELSE 1) /\ d = s * e
  <2>1. Abs(n) \in Nat /\ Abs(d) \in Nat /\ Abs(d) # 0
    BY DEF Abs
  <2>2. d = (IF d < 0 THEN -1 ELSE 1) * Abs(d)
    BY DEF Abs
  <2>3. (IF d < 0 THEN -1 ELSE 1) \in {1, -1}
    OBVIOUS
  <2> QED BY <2>1, <2>2, <2>3
<1>2. PICK g \in Nat : g = gcd[<<m, e>>] /\ IsGcd(g, m, e)
  BY GcdIs DEF IsGcd
<1>3. PICK x \in Nat, y \in Nat : m = g * x /\ e = g * y
  BY <1>2 DEF IsGcd, Divides
<1>4. g # 0 /\ y # 0
  BY <1>1, <1>3
<1>5. PICK z \in Int : n = g * z /\ Abs(z) = x
  <2>1. CASE n >= 0
    <3>1. n = g * x /\ Abs(x) = x
      BY <1>1, <1>3, <2>1 DEF Abs
    <3> QED BY <3>1
  <2>2. CASE n < 0
    <3>1. n = -(g * x) /\ x # 0
      BY <1>1, <1>3, <2>2 DEF Abs
    <3>2. -(g * x) = g * (-x)
      OBVIOUS
    <3>3. Abs(-x) = x
      BY <3>1 DEF Abs
    <3> QED BY <3>1, <3>2, <3>3
  <2> QED BY <2>1, <2>2
<1>6. n \div g = z
  BY <1>4, <1>5, ExactDivision
<1>7. d \div g = s * y
  <2>1. d = g * (s * y)
    BY <1>1, <1>3
  <2>2. s * y \in Int
    OBVIOUS
  <2> QED BY <1>4, <2>1, <2>2, ExactDivision
<1>8. Ratio(n, d) = <<s * z, s * (s * y)>>
  BY <1>1, <1>2, <1>6, <1>7 DEF Ratio
<1>9. s * (s * y) = y /\ s * z \in Int /\ Abs(s * z) = x
  BY <1>5 DEF Abs
<1>10. PICK w \in Int : w = s * z /\ Ratio(n, d) = <<w, y>> /\ Abs(w) = x
  BY <1>8, <1>9
<1>11. IsGcd(1, x, y)
  <2>1. Divides(1, x) /\ Divides(1, y)
    BY DEF Divides
  <2>2. ASSUME NEW k \in Nat, Divides(k, x), Divides(k, y) PROVE Divides(k, 1)
    <3>1. PICK p \in Nat : x = k * p
      BY <2>2 DEF Divides
    <3>2. PICK q \in Nat : y = k * q
      BY <2>2 DEF Divides
    <3>3. PICK h \in Nat : h = g * k
      OBVIOUS
    <3>4. m = h * p /\ e = h * q
      BY <1>3, <3>1, <3>2, <3>3
    <3>5. Divides(h, g)
      BY <1>2, <3>4 DEF IsGcd, Divides
    <3>6. PICK t \in Nat : g = h * t
      BY <3>5 DEF Divides
    <3>7. PICK kt \in Nat : kt = k * t
      OBVIOUS
    <3>8. kt * g = 1 * g
      <4>1. (g * k) * t = (k * t) * g
        OBVIOUS
      <4> QED BY <3>3, <3>6, <3>7, <4>1
    <3>9. kt = 1
      BY <1>4, <3>8, Canceled
    <3> QED BY <3>7, <3>9 DEF Divides
  <2> QED BY <2>1, <2>2 DEF IsGcd
<1>12. gcd[<<x, y>>] = 1
  BY <1>11, GcdIs, GcdUnique
<1>13. <<w, y>> \in Number
  BY <1>4, <1>10, <1>12 DEF Number
<1>14. w * d = n * y
  <2>1. (s * z) * (s * (g * y)) = (g * z) * y
    OBVIOUS
  <2>2. d = s * (g * y)
    BY <1>1, <1>3
  <2> QED BY <1>5, <1>10, <2>1, <2>2
<1> QED BY <1>10, <1>13, <1>14

-----------------------------------------------------------------------------
(* a is the number n / d.                                                  *)
Is(a, n, d) == a \in Number /\ n \in Int /\ d \in Int /\ d # 0 /\ a[1] * d = n * a[2]

LEMMA NumberIs ==
  ASSUME NEW a \in Number
  PROVE  a[1] \in Int /\ a[2] \in Nat /\ a[2] # 0 /\ a = <<a[1], a[2]>> /\ Is(a, a[1], a[2])
BY DEF Number, Is

LEMMA IsRatio ==
  ASSUME NEW n \in Int, NEW d \in Int, d # 0
  PROVE  Is(Ratio(n, d), n, d)
BY RatioIs DEF Is

LEMMA IsEqual ==
  ASSUME NEW a, NEW n, NEW d, NEW b, NEW m, NEW e, Is(a, n, d), Is(b, m, e), n * e = m * d
  PROVE  a = b
<1>1. PICK x \in Int, y \in Nat : a[1] = x /\ a[2] = y /\ y # 0
  BY NumberIs DEF Is
<1>2. PICK u \in Int, v \in Nat : b[1] = u /\ b[2] = v /\ v # 0
  BY NumberIs DEF Is
<1>3. n \in Int /\ d \in Int /\ d # 0 /\ m \in Int /\ e \in Int /\ e # 0 /\ x * d = n * y /\ u * e = m * v
  BY <1>1, <1>2 DEF Is
<1>4. (x * v) * (d * e) = (u * y) * (d * e)
  <2>1. (x * v) * (d * e) = (x * d) * (v * e)
    BY <1>3
  <2>2. (n * y) * (v * e) = (n * e) * (y * v)
    BY <1>3
  <2>3. (m * d) * (y * v) = (m * v) * (d * y)
    BY <1>3
  <2>4. (u * e) * (d * y) = (u * y) * (d * e)
    BY <1>3
  <2> QED BY <1>3, <2>1, <2>2, <2>3, <2>4
<1>5. d * e # 0 /\ d * e \in Int /\ x * v \in Int /\ u * y \in Int
  BY <1>3
<1>6. x * v = u * y
  BY <1>4, <1>5, Canceled
<1> QED BY <1>1, <1>2, <1>6, EqualNumbers DEF Is

(* The same number over another denominator.                               *)
LEMMA IsScaled ==
  ASSUME NEW a, NEW n, NEW d, NEW k \in Int, k # 0, Is(a, n, d)
  PROVE  Is(a, n * k, d * k)
<1>1. PICK x \in Int, y \in Nat : a[1] = x /\ a[2] = y /\ y # 0
  BY NumberIs DEF Is
<1>2. n \in Int /\ d \in Int /\ d # 0 /\ x * d = n * y
  BY <1>1 DEF Is
<1>3. x * (d * k) = (n * k) * y /\ d * k # 0 /\ n * k \in Int /\ d * k \in Int
  <2>1. x * (d * k) = (x * d) * k
    BY <1>2
  <2>2. (n * y) * k = (n * k) * y
    BY <1>2
  <2> QED BY <1>2, <2>1, <2>2
<1> QED BY <1>1, <1>3 DEF Is

LEMMA IsRescaled ==
  ASSUME NEW a, NEW n \in Int, NEW d \in Int, NEW m \in Int, NEW e \in Int, e # 0,
         Is(a, n, d), n * e = m * d
  PROVE  Is(a, m, e)
<1>1. PICK x \in Int, y \in Nat : a[1] = x /\ a[2] = y /\ y # 0 /\ d # 0 /\ x * d = n * y
  BY NumberIs DEF Is
<1>2. (x * e) * d = (m * y) * d
  <2>1. (x * e) * d = (x * d) * e
    OBVIOUS
  <2>2. (n * y) * e = (n * e) * y
    OBVIOUS
  <2>3. (m * d) * y = (m * y) * d
    OBVIOUS
  <2> QED BY <1>1, <2>1, <2>2, <2>3
<1>3. x * e = m * y
  BY <1>1, <1>2, Canceled
<1> QED BY <1>1, <1>3 DEF Is

LEMMA IsQ == \A n \in Int : Q(n) \in Number /\ Is(Q(n), n, 1) /\ \A d \in Int : d # 0 => Is(Q(n), n * d, d)
<1> SUFFICES ASSUME NEW n \in Int
             PROVE  Q(n) \in Number /\ Is(Q(n), n, 1) /\ \A d \in Int : d # 0 => Is(Q(n), n * d, d)
  OBVIOUS
<1>1. Ratio(n, 1) = Q(n)
  <2>1. gcd[<<Abs(n), Abs(1)>>] = 1
    <3>1. Abs(n) \in Nat /\ Abs(1) = 1
      BY DEF Abs
    <3>2. Divides(1, Abs(n)) /\ Divides(1, 1)
      BY <3>1 DEF Divides
    <3>3. IsGcd(1, Abs(n), 1)
      BY <3>1, <3>2 DEF IsGcd
    <3> QED BY <3>1, <3>3, GcdIs, GcdUnique
  <2> QED BY <2>1 DEF Ratio, Q
<1>2. Is(Q(n), n, 1)
  BY <1>1, IsRatio
<1>3. ASSUME NEW d \in Int, d # 0 PROVE Is(Q(n), n * d, d)
  <2>1. Is(Q(n), n * d, 1 * d)
    BY <1>2, <1>3, IsScaled
  <2> QED BY <2>1
<1> QED BY <1>2, <1>3 DEF Is

LEMMA IsPlus ==
  ASSUME NEW a, NEW b, NEW n, NEW m, NEW d, Is(a, n, d), Is(b, m, d)
  PROVE  Is(Plus(a, b), n + m, d) /\ Is(Minus(a, b), n - m, d)
<1>1. PICK x \in Int, y \in Nat : a[1] = x /\ a[2] = y /\ y # 0
  BY NumberIs DEF Is
<1>2. PICK u \in Int, v \in Nat : b[1] = u /\ b[2] = v /\ v # 0
  BY NumberIs DEF Is
<1>3. n \in Int /\ d \in Int /\ d # 0 /\ m \in Int /\ x * d = n * y /\ u * d = m * v
  BY <1>1, <1>2 DEF Is
<1>4. y * v \in Int /\ y * v # 0 /\ x * v + u * y \in Int /\ x * v - u * y \in Int
      /\ n + m \in Int /\ n - m \in Int
  BY <1>1, <1>2, <1>3
<1>5. (x * v) * d = n * (y * v) /\ (u * y) * d = m * (y * v)
  <2>1. (x * v) * d = (x * d) * v /\ (n * y) * v = n * (y * v)
    BY <1>3
  <2>2. (u * y) * d = (u * d) * y /\ (m * v) * y = m * (y * v)
    BY <1>3
  <2> QED BY <1>3, <2>1, <2>2
<1>6. (x * v + u * y) * d = (n + m) * (y * v) /\ (x * v - u * y) * d = (n - m) * (y * v)
  <2>1. (x * v + u * y) * d = (x * v) * d + (u * y) * d /\ (x * v - u * y) * d = (x * v) * d - (u * y) * d
    BY <1>3
  <2>2. (n + m) * (y * v) = n * (y * v) + m * (y * v) /\ (n - m) * (y * v) = n * (y * v) - m * (y * v)
    BY <1>3
  <2> QED BY <1>5, <2>1, <2>2
<1>7. Is(Ratio(x * v + u * y, y * v), x * v + u * y, y * v) /\ Is(Ratio(x * v - u * y, y * v), x * v - u * y, y * v)
  BY <1>4, IsRatio
<1>8. Is(Ratio(x * v + u * y, y * v), n + m, d)
  BY <1>3, <1>4, <1>6, <1>7, IsRescaled
<1>9. Is(Ratio(x * v - u * y, y * v), n - m, d)
  BY <1>3, <1>4, <1>6, <1>7, IsRescaled
<1> QED BY <1>1, <1>2, <1>8, <1>9 DEF Plus, Minus

LEMMA IsTimes ==
  ASSUME NEW a, NEW b, NEW n, NEW m, NEW d, NEW e, Is(a, n, d), Is(b, m, e)
  PROVE  Is(Times(a, b), n * m, d * e)
<1>1. PICK x \in Int, y \in Nat : a[1] = x /\ a[2] = y /\ y # 0
  BY NumberIs DEF Is
<1>2. PICK u \in Int, v \in Nat : b[1] = u /\ b[2] = v /\ v # 0
  BY NumberIs DEF Is
<1>3. n \in Int /\ d \in Int /\ d # 0 /\ m \in Int /\ e \in Int /\ e # 0 /\ x * d = n * y /\ u * e = m * v
  BY <1>1, <1>2 DEF Is
<1>4. y * v \in Int /\ y * v # 0 /\ x * u \in Int /\ n * m \in Int /\ d * e \in Int /\ d * e # 0
  BY <1>1, <1>2, <1>3
<1>5. (x * u) * (d * e) = (n * m) * (y * v)
  <2>1. (x * u) * (d * e) = (x * d) * (u * e)
    BY <1>3
  <2>2. (n * y) * (m * v) = (n * m) * (y * v)
    BY <1>3
  <2> QED BY <1>3, <2>1, <2>2
<1>6. Is(Ratio(x * u, y * v), x * u, y * v)
  BY <1>4, IsRatio
<1>7. Is(Ratio(x * u, y * v), n * m, d * e)
  BY <1>4, <1>5, <1>6, IsRescaled
<1> QED BY <1>1, <1>2, <1>7 DEF Times

LEMMA IsTimesQ ==
  ASSUME NEW a, NEW n, NEW d, NEW k \in Int, Is(a, n, d)
  PROVE  Is(Times(a, Q(k)), n * k, d)
<1>1. Is(Q(k), k, 1)
  BY IsQ
<1>2. Is(Times(a, Q(k)), n * k, d * 1)
  BY <1>1, IsTimes
<1> QED BY <1>2 DEF Is

LEMMA IsOver ==
  ASSUME NEW a, NEW b, NEW n, NEW m, NEW d, m # 0, Is(a, n, d), Is(b, m, d)
  PROVE  Is(Over(a, b), n, m)
<1>1. PICK x \in Int, y \in Nat : a[1] = x /\ a[2] = y /\ y # 0
  BY NumberIs DEF Is
<1>2. PICK u \in Int, v \in Nat : b[1] = u /\ b[2] = v /\ v # 0
  BY NumberIs DEF Is
<1>3. n \in Int /\ d \in Int /\ d # 0 /\ m \in Int /\ x * d = n * y /\ u * d = m * v
  BY <1>1, <1>2 DEF Is
<1>4. u # 0
  <2>1. m * v # 0
    BY <1>2, <1>3
  <2> QED BY <1>3, <2>1
<1>5. y * u \in Int /\ y * u # 0 /\ x * v \in Int
  BY <1>1, <1>2, <1>4
<1>6. ((x * v) * m) * d = (n * (y * u)) * d
  <2>1. ((x * v) * m) * d = (x * d) * (m * v)
    BY <1>3
  <2>2. (n * y) * (u * d) = (n * (y * u)) * d
    BY <1>3
  <2> QED BY <1>3, <2>1, <2>2
<1>7. (x * v) * m = n * (y * u)
  <2>1. (x * v) * m \in Int /\ n * (y * u) \in Int
    BY <1>3
  <2> QED BY <1>3, <1>6, <2>1, Canceled
<1>8. Is(Ratio(x * v, y * u), x * v, y * u)
  BY <1>5, IsRatio
<1>9. Is(Ratio(x * v, y * u), n, m)
  BY <1>3, <1>5, <1>7, <1>8, IsRescaled
<1> QED BY <1>1, <1>2, <1>9 DEF Over

LEMMA IsOverQ ==
  ASSUME NEW a, NEW n, NEW d, NEW k \in Int, k # 0, Is(a, n, d)
  PROVE  Is(Over(a, Q(k)), n, d * k)
<1>1. n \in Int /\ d \in Int /\ d # 0 /\ k * d # 0 /\ k * d = d * k
  BY DEF Is
<1>2. Is(Q(k), k * d, d)
  BY <1>1, IsQ
<1> QED BY <1>1, <1>2, IsOver

(* The results are numbers.                                                *)
LEMMA Numbers ==
  ASSUME NEW a \in Number, NEW b \in Number
  PROVE  /\ Plus(a, b) \in Number /\ Minus(a, b) \in Number /\ Times(a, b) \in Number
         /\ b # Zero => Over(a, b) \in Number
         /\ Zero \in Number /\ One \in Number
<1>1. PICK x \in Int, y \in Nat : a = <<x, y>> /\ a[1] = x /\ a[2] = y /\ y # 0
  BY NumberIs
<1>2. PICK u \in Int, v \in Nat : b = <<u, v>> /\ b[1] = u /\ b[2] = v /\ v # 0
  BY NumberIs
<1>3. y * v \in Int /\ y * v # 0 /\ x * v + u * y \in Int /\ x * v - u * y \in Int /\ x * u \in Int
  BY <1>1, <1>2
<1>4. Zero \in Number /\ One \in Number
  BY IsQ DEF Zero, One
<1>5. ASSUME b # Zero PROVE Over(a, b) \in Number
  <2>1. u # 0
    <3> SUFFICES ASSUME u = 0 PROVE FALSE
      OBVIOUS
    <3>1. b[1] * Zero[2] = Zero[1] * b[2]
      BY <1>2 DEF Zero, Q
    <3> QED BY <1>4, <1>5, <3>1, EqualNumbers
  <2>2. y * u \in Int /\ y * u # 0 /\ x * v \in Int
    BY <1>1, <1>2, <2>1
  <2> QED BY <1>1, <1>2, <2>2, RatioIs DEF Over
<1> QED BY <1>1, <1>2, <1>3, <1>4, <1>5, RatioIs DEF Plus, Minus, Times

(* Some numbers have a common denominator.                                 *)
Over1(f, n, s, d) == s \in [1 .. n -> Int] /\ d \in Nat \ {0} /\ \A k \in 1 .. n : Is(f[k], s[k], d)

LEMMA CommonDenominator ==
  ASSUME NEW n \in Nat, NEW f, \A k \in 1 .. n : f[k] \in Number
  PROVE  \E s \in [1 .. n -> Int], d \in Nat \ {0} : \A k \in 1 .. n : Is(f[k], s[k], d)
<1> DEFINE B == {m \in 0 .. n : ~ \E s, d : Over1(f, m, s, d)}
<1>1. ASSUME B # {} PROVE FALSE
  <2>1. PICK m \in B : \A k \in B : m <= k
    <3> HIDE DEF B
    <3>1. B \in SUBSET Nat
      BY DEF B
    <3> QED BY <1>1, <3>1, LeastNatural
  <2>2. m # 0
    <3>1. Over1(f, 0, [k \in 1 .. 0 |-> 0], 1)
      BY DEF Over1
    <3> QED BY <3>1
  <2>3. PICK p \in 0 .. n : p = m - 1 /\ m = p + 1 /\ p \notin B /\ m \in 1 .. n
    BY <2>1, <2>2
  <2>4. PICK s, d : Over1(f, p, s, d)
    BY <2>3
  <2>5. PICK x \in Int, y \in Nat : f[m][1] = x /\ f[m][2] = y /\ y # 0 /\ Is(f[m], x, y)
    BY <2>3, NumberIs
  <2>6. d \in Nat /\ d # 0 /\ d * y \in Nat \ {0} /\ x * d \in Int
    BY <2>4, <2>5 DEF Over1
  <2>7. PICK t : t = [k \in 1 .. m |-> IF k = m THEN x * d ELSE s[k] * y]
    OBVIOUS
  <2>8. ASSUME NEW k \in 1 .. m PROVE t[k] \in Int /\ Is(f[k], t[k], d * y)
    <3>1. CASE k = m
      <4>1. Is(f[m], x * d, y * d)
        <5>1. d \in Int /\ d # 0
          BY <2>6
        <5>2. Is(f[m], x, y)
          BY <2>5
        <5> QED BY ONLY <5>1, <5>2, IsScaled
      <4>2. y * d = d * y
        BY <2>6
      <4> QED BY <2>6, <2>7, <3>1, <4>1, <4>2
    <3>2. CASE k # m
      <4>1. k \in 1 .. p
        BY <2>3, <3>2
      <4>2. s[k] \in Int /\ Is(f[k], s[k], d)
        BY <2>4, <4>1 DEF Over1
      <4>3. Is(f[k], s[k] * y, d * y)
        BY <2>5, <4>2, IsScaled
      <4> QED BY <2>5, <2>7, <3>2, <4>2, <4>3
    <3> QED BY <3>1, <3>2
  <2>9. t \in [1 .. m -> Int]
    BY <2>7, <2>8
  <2>10. Over1(f, m, t, d * y)
    BY <2>6, <2>8, <2>9 DEF Over1
  <2> QED BY <2>10
<1>2. PICK s, d : Over1(f, n, s, d)
  BY <1>1
<1> QED BY <1>2 DEF Over1

-----------------------------------------------------------------------------
(* Sums of sequences of numbers.                                           *)
PartialSums(f, s) ==
  /\ f \in [0 .. Len(s) -> Number] /\ f[0] = Zero
  /\ \A k \in 1 .. Len(s) : f[k] = Plus(f[k - 1], s[k])

SumsFrom(f, s, n) == f = [k \in 0 .. n |-> IF k = 0 THEN Zero ELSE Plus(f[k - 1], s[k])]

LEMMA SumsExist ==
  ASSUME NEW s \in Seq(Number)
  PROVE  \E f \in [0 .. Len(s) -> Number] : SumsFrom(f, s, Len(s))
<1>1. PICK m \in Nat : m = Len(s)
  BY LenProperties
<1> DEFINE B == {j \in 0 .. m : ~ \E f \in [0 .. j -> Number] : SumsFrom(f, s, j)}
<1>2. SUFFICES ASSUME B # {} PROVE FALSE
  BY <1>1
<1>3. PICK j \in B : \A k \in B : j <= k
  <2>1. B \in SUBSET Nat
    OBVIOUS
  <2> HIDE DEF B
  <2> QED BY <1>2, <2>1, LeastNatural
<1>4. j \in 0 .. m /\ ~ \E f \in [0 .. j -> Number] : SumsFrom(f, s, j)
  OBVIOUS
<1>5. CASE j = 0
  <2>1. PICK f \in [0 .. 0 -> Number] : f = [k \in 0 .. 0 |-> Zero]
    <3>1. Zero \in Number
      BY IsQ DEF Zero
    <3> QED BY <3>1
  <2>2. [k \in 0 .. 0 |-> IF k = 0 THEN Zero ELSE Plus(f[k - 1], s[k])] = [k \in 0 .. 0 |-> Zero]
    OBVIOUS
  <2>3. SumsFrom(f, s, 0)
    BY <2>1, <2>2 DEF SumsFrom
  <2> QED BY <1>4, <1>5, <2>3
<1>6. CASE j # 0
  <2>1. PICK i \in Nat : j = i + 1 /\ i \in 0 .. m
    <3>1. j - 1 \in Nat /\ j = (j - 1) + 1 /\ j - 1 \in 0 .. m
      BY <1>4, <1>6
    <3> QED BY <3>1
  <2>2. PICK f \in [0 .. i -> Number] : SumsFrom(f, s, i)
    <3>1. i \notin B
      BY <1>3, <2>1
    <3> QED BY <2>1, <3>1
  <2>3. PICK e \in Number : e = Plus(f[i], s[j])
    <3>1. f[i] \in Number
      OBVIOUS
    <3>2. s[j] \in Number
      BY <1>1, <1>4, <1>6, ElementOfSeq
    <3> QED BY <3>1, <3>2, Numbers
  <2>4. PICK g : g = [k \in 0 .. j |-> IF k = j THEN e ELSE f[k]]
    OBVIOUS
  <2>5. /\ \A k \in 0 .. i : k \in 0 .. j /\ k # j /\ g[k] = f[k]
        /\ g[j] = e /\ j - 1 = i /\ j \in 0 .. j
    BY <2>1, <2>4
  <2>6. g \in [0 .. j -> Number]
    <3>1. \A k \in 0 .. j : k # j => k \in 0 .. i
      BY <2>1
    <3> QED BY <2>4, <3>1
  <2>7. ASSUME NEW k \in 0 .. j
        PROVE  g[k] = IF k = 0 THEN Zero ELSE Plus(g[k - 1], s[k])
    <3>1. CASE k = j
      <4>1. g[k - 1] = f[i]
        BY <2>5, <3>1
      <4> QED BY <1>6, <2>3, <2>5, <3>1, <4>1
    <3>2. CASE k # j
      <4>1. k \in 0 .. i
        BY <2>1, <3>2
      <4>2. g[k] = f[k]
        BY <2>5, <4>1
      <4>3. f[k] = IF k = 0 THEN Zero ELSE Plus(f[k - 1], s[k])
        BY <2>2, <4>1 DEF SumsFrom
      <4>4. k # 0 => g[k - 1] = f[k - 1]
        BY <2>5, <4>1
      <4> QED BY <4>2, <4>3, <4>4
    <3> QED BY <3>1, <3>2
  <2>8. g = [k \in 0 .. j |-> g[k]]
    BY <2>4
  <2>9. SumsFrom(g, s, j)
    BY <2>7, <2>8, Zenon DEF SumsFrom
  <2> QED BY <1>4, <2>6, <2>9
<1> QED BY <1>5, <1>6

LEMMA TotalIs ==
  ASSUME NEW s \in Seq(Number)
  PROVE  /\ Total(s) \in Number
         /\ \E f : PartialSums(f, s) /\ Total(s) = f[Len(s)]
<1>1. PICK m \in Nat : m = Len(s)
  BY LenProperties
<1>2. PICK g : g = CHOOSE f : SumsFrom(f, s, m)
  OBVIOUS
<1>3. Total(s) = g[m]
  BY <1>1, <1>2 DEF Total, SumsFrom
<1>4. SumsFrom(g, s, m)
  BY <1>1, <1>2, SumsExist
<1>5. g[0] = Zero
  BY <1>4 DEF SumsFrom
<1>6. ASSUME NEW k \in 1 .. m PROVE g[k] = Plus(g[k - 1], s[k])
  <2>1. k \in 0 .. m /\ k # 0
    OBVIOUS
  <2> QED BY <1>4, <2>1 DEF SumsFrom
<1>7. \A k \in 0 .. m : g[k] \in Number
  <2> DEFINE B == {k \in 0 .. m : g[k] \notin Number}
  <2>1. SUFFICES ASSUME B # {} PROVE FALSE
    OBVIOUS
  <2>2. PICK j \in B : \A k \in B : j <= k
    <3>1. B \in SUBSET Nat
      OBVIOUS
    <3> HIDE DEF B
    <3> QED BY <2>1, <3>1, LeastNatural
  <2>3. j \in 0 .. m /\ g[j] \notin Number
    OBVIOUS
  <2>4. j # 0
    BY <1>5, <2>3, IsQ DEF Zero
  <2>5. j - 1 \in 0 .. m /\ ~(j <= j - 1)
    BY <2>3, <2>4
  <2>6. g[j - 1] \in Number
    BY <2>2, <2>5
  <2>7. s[j] \in Number
    BY <1>1, <2>3, <2>4, ElementOfSeq
  <2>8. g[j] = Plus(g[j - 1], s[j])
    BY <1>6, <2>3, <2>4
  <2> QED BY <2>3, <2>6, <2>7, <2>8, Numbers
<1>8. g \in [0 .. m -> Number]
  <2>1. g = [k \in 0 .. m |-> g[k]]
    BY <1>4 DEF SumsFrom
  <2> QED BY <1>7, <2>1
<1> QED BY <1>1, <1>3, <1>5, <1>6, <1>8 DEF PartialSums

LEMMA TotalOfNone == Total(<< >>) = Zero
<1>1. << >> \in Seq(Number) /\ Len(<< >>) = 0
  OBVIOUS
<1>2. PICK f : PartialSums(f, << >>) /\ Total(<< >>) = f[0]
  BY <1>1, TotalIs
<1> QED BY <1>2 DEF PartialSums

LEMMA TotalAppend ==
  ASSUME NEW s \in Seq(Number), NEW x \in Number
  PROVE  Total(Append(s, x)) = Plus(Total(s), x)
<1>1. PICK n \in Nat, t \in Seq(Number) : n = Len(s) /\ t = Append(s, x) /\ Len(t) = n + 1 /\ t[n + 1] = x
        /\ \A k \in 1 .. n : t[k] = s[k]
  <2>1. Len(s) \in Nat /\ Append(s, x) \in Seq(Number) /\ Len(Append(s, x)) = Len(s) + 1
        /\ Append(s, x)[Len(s) + 1] = x /\ \A k \in 1 .. Len(s) : Append(s, x)[k] = s[k]
    BY LenProperties, AppendProperties
  <2> QED BY <2>1
<1>2. PICK f : PartialSums(f, s) /\ Total(s) = f[n]
  BY <1>1, TotalIs
<1>3. PICK g : PartialSums(g, t) /\ Total(t) = g[n + 1]
  BY <1>1, TotalIs
<1> DEFINE B == {k \in 0 .. n : g[k] # f[k]}
<1>4. B = {}
  <2>1. SUFFICES ASSUME B # {} PROVE FALSE
    OBVIOUS
  <2>2. PICK j \in B : \A k \in B : j <= k
    <3>1. B \in SUBSET Nat
      OBVIOUS
    <3> HIDE DEF B
    <3> QED BY <2>1, <3>1, LeastNatural
  <2>3. j \in 0 .. n /\ g[j] # f[j]
    OBVIOUS
  <2>4. j # 0
    BY <1>2, <1>3, <2>3 DEF PartialSums
  <2>5. j - 1 \in 0 .. n /\ ~(j <= j - 1) /\ j \in 1 .. n /\ j \in 1 .. n + 1
    BY <2>3, <2>4
  <2>6. g[j - 1] = f[j - 1]
    BY <2>2, <2>5
  <2>7. g[j] = Plus(g[j - 1], t[j])
    BY <1>1, <1>3, <2>5 DEF PartialSums
  <2>8. f[j] = Plus(f[j - 1], s[j])
    BY <1>1, <1>2, <2>5 DEF PartialSums
  <2> QED BY <1>1, <2>3, <2>5, <2>6, <2>7, <2>8
<1>5. g[n] = f[n]
  BY <1>4
<1>6. g[n + 1] = Plus(g[(n + 1) - 1], t[n + 1])
  <2>1. n + 1 \in 1 .. Len(t)
    BY <1>1
  <2> QED BY <1>3, <2>1 DEF PartialSums
<1>7. (n + 1) - 1 = n
  OBVIOUS
<1> QED BY <1>1, <1>2, <1>3, <1>5, <1>6, <1>7

-----------------------------------------------------------------------------
(* Identities of sums.                                                     *)
LEMMA ThreeNumbers ==
  ASSUME NEW a \in Number, NEW b \in Number, NEW c \in Number
  PROVE  \E x, y, z \in Int, d \in Nat \ {0} : Is(a, x, d) /\ Is(b, y, d) /\ Is(c, z, d)
<1>1. PICK f : f = [k \in 1 .. 3 |-> IF k = 1 THEN a ELSE IF k = 2 THEN b ELSE c]
  OBVIOUS
<1>2. f[1] = a /\ f[2] = b /\ f[3] = c /\ \A k \in 1 .. 3 : f[k] \in Number
  BY <1>1
<1>3. PICK s \in [1 .. 3 -> Int], d \in Nat \ {0} : \A k \in 1 .. 3 : Is(f[k], s[k], d)
  <2>1. 3 \in Nat
    OBVIOUS
  <2> QED BY <1>2, <2>1, CommonDenominator
<1>4. Is(a, s[1], d) /\ Is(b, s[2], d) /\ Is(c, s[3], d)
  BY <1>2, <1>3
<1>5. s[1] \in Int /\ s[2] \in Int /\ s[3] \in Int
  OBVIOUS
<1> QED BY <1>4, <1>5

LEMMA FourNumbers ==
  ASSUME NEW a \in Number, NEW b \in Number, NEW c \in Number, NEW e \in Number
  PROVE  \E x, y, z, w \in Int, d \in Nat \ {0} : Is(a, x, d) /\ Is(b, y, d) /\ Is(c, z, d) /\ Is(e, w, d)
<1>1. PICK f : f = [k \in 1 .. 4 |-> IF k = 1 THEN a ELSE IF k = 2 THEN b ELSE IF k = 3 THEN c ELSE e]
  OBVIOUS
<1>2. f[1] = a /\ f[2] = b /\ f[3] = c /\ f[4] = e /\ \A k \in 1 .. 4 : f[k] \in Number
  BY <1>1
<1>3. PICK s \in [1 .. 4 -> Int], d \in Nat \ {0} : \A k \in 1 .. 4 : Is(f[k], s[k], d)
  <2>1. 4 \in Nat
    OBVIOUS
  <2> QED BY <1>2, <2>1, CommonDenominator
<1>4. Is(a, s[1], d) /\ Is(b, s[2], d) /\ Is(c, s[3], d) /\ Is(e, s[4], d)
  BY <1>2, <1>3
<1>5. s[1] \in Int /\ s[2] \in Int /\ s[3] \in Int /\ s[4] \in Int
  OBVIOUS
<1> QED BY <1>4, <1>5

LEMMA SumsOfNumbers ==
  ASSUME NEW a \in Number, NEW b \in Number, NEW c \in Number, NEW e \in Number
  PROVE  /\ Plus(a, b) = Plus(b, a)
         /\ Plus(Plus(a, b), c) = Plus(Plus(a, c), b)
         /\ Plus(Plus(a, b), Plus(c, e)) = Plus(Plus(a, c), Plus(b, e))
         /\ Plus(a, Zero) = a
<1>1. PICK x \in Int, y \in Int, z \in Int, w \in Int, d \in Nat \ {0} :
        Is(a, x, d) /\ Is(b, y, d) /\ Is(c, z, d) /\ Is(e, w, d)
  BY FourNumbers
<1>2. d \in Int /\ d # 0
  OBVIOUS
<1>3. Is(Zero, 0 * d, d)
  BY <1>2, IsQ DEF Zero
<1>4. Is(Plus(a, b), x + y, d) /\ Is(Plus(b, a), y + x, d) /\ Is(Plus(a, c), x + z, d)
      /\ Is(Plus(c, e), z + w, d) /\ Is(Plus(b, e), y + w, d)
  BY <1>1, IsPlus
<1>5. Is(Plus(Plus(a, b), c), (x + y) + z, d) /\ Is(Plus(Plus(a, c), b), (x + z) + y, d)
  BY <1>1, <1>4, IsPlus
<1>6. Is(Plus(Plus(a, b), Plus(c, e)), (x + y) + (z + w), d) /\ Is(Plus(Plus(a, c), Plus(b, e)), (x + z) + (y + w), d)
  BY <1>1, <1>4, IsPlus
<1>7. Is(Plus(a, Zero), x + 0 * d, d)
  BY <1>1, <1>3, IsPlus
<1>8. Plus(a, b) = Plus(b, a)
  <2>1. (x + y) * d = (y + x) * d
    OBVIOUS
  <2> QED BY <1>4, <2>1, IsEqual
<1>9. Plus(Plus(a, b), c) = Plus(Plus(a, c), b)
  <2>1. ((x + y) + z) * d = ((x + z) + y) * d
    OBVIOUS
  <2> QED BY <1>5, <2>1, IsEqual
<1>10. Plus(Plus(a, b), Plus(c, e)) = Plus(Plus(a, c), Plus(b, e))
  <2>1. ((x + y) + (z + w)) * d = ((x + z) + (y + w)) * d
    OBVIOUS
  <2> QED BY <1>6, <2>1, IsEqual
<1>11. Plus(a, Zero) = a
  <2>1. (x + 0 * d) * d = x * d
    BY <1>2
  <2> QED BY <1>1, <1>7, <2>1, IsEqual
<1> QED BY <1>8, <1>9, <1>10, <1>11

(* One summand changes.                                                    *)
LEMMA TotalChanged ==
  ASSUME NEW s \in Seq(Number), NEW t \in Seq(Number), Len(s) = Len(t), NEW i \in 1 .. Len(s),
         \A k \in 1 .. Len(s) : k # i => t[k] = s[k]
  PROVE  Plus(Total(t), s[i]) = Plus(Total(s), t[i])
<1>1. PICK n \in Nat : n = Len(s) /\ n = Len(t)
  BY LenProperties
<1>2. PICK f : PartialSums(f, s) /\ Total(s) = f[n]
  BY <1>1, TotalIs
<1>3. PICK g : PartialSums(g, t) /\ Total(t) = g[n]
  BY <1>1, TotalIs
<1>4. s[i] \in Number /\ t[i] \in Number /\ \A k \in 1 .. n : s[k] \in Number /\ t[k] \in Number
  BY <1>1, ElementOfSeq
<1> DEFINE Holds(k) == IF k < i THEN g[k] = f[k] ELSE Plus(g[k], s[i]) = Plus(f[k], t[i])
           B == {k \in 0 .. n : ~Holds(k)}
<1>5. B = {}
  <2>1. SUFFICES ASSUME B # {} PROVE FALSE
    OBVIOUS
  <2>2. PICK j \in B : \A k \in B : j <= k
    <3>1. B \in SUBSET Nat
      OBVIOUS
    <3> HIDE DEF B
    <3> QED BY <2>1, <3>1, LeastNatural
  <2>3. j \in 0 .. n /\ ~Holds(j)
    OBVIOUS
  <2>4. j # 0
    <3>1. Holds(0)
      BY <1>2, <1>3 DEF PartialSums
    <3> QED BY <2>3, <3>1
  <2>5. j - 1 \in 0 .. n /\ ~(j <= j - 1) /\ j \in 1 .. n
    BY <2>3, <2>4
  <2>6. Holds(j - 1)
    BY <2>2, <2>5
  <2>7. PICK a \in Number, b \in Number : a = g[j - 1] /\ b = f[j - 1]
    BY <1>1, <1>2, <1>3, <2>5 DEF PartialSums
  <2>8. g[j] = Plus(a, t[j])
    BY <1>1, <1>3, <2>5, <2>7 DEF PartialSums
  <2>9. f[j] = Plus(b, s[j])
    BY <1>1, <1>2, <2>5, <2>7 DEF PartialSums
  <2>10. CASE j < i
    <3>1. t[j] = s[j]
      BY <1>1, <2>5, <2>10
    <3>2. a = b
      BY <2>5, <2>6, <2>7, <2>10
    <3> QED BY <2>3, <2>8, <2>9, <2>10, <3>1, <3>2
  <2>11. CASE j = i
    <3>1. a = b
      BY <2>6, <2>7, <2>11
    <3>2. Plus(Plus(a, t[i]), s[i]) = Plus(Plus(a, s[i]), t[i])
      BY <1>4, SumsOfNumbers
    <3> QED BY <2>3, <2>8, <2>9, <2>11, <3>1, <3>2
  <2>12. CASE j > i
    <3>1. t[j] = s[j]
      BY <1>1, <2>5, <2>12
    <3>2. Plus(a, s[i]) = Plus(b, t[i])
      <4>1. ~(j - 1 < i)
        BY <2>5, <2>12
      <4> QED BY <2>6, <2>7, <4>1
    <3>3. a \in Number /\ b \in Number /\ s[i] \in Number /\ s[j] \in Number /\ t[i] \in Number
      BY <1>4, <2>5, <2>7
    <3>4. Plus(Plus(a, s[j]), s[i]) = Plus(Plus(a, s[i]), s[j])
      BY ONLY <3>3, SumsOfNumbers
    <3>5. Plus(Plus(b, s[j]), t[i]) = Plus(Plus(b, t[i]), s[j])
      BY ONLY <3>3, SumsOfNumbers
    <3> QED BY <2>3, <2>8, <2>9, <2>12, <3>1, <3>2, <3>4, <3>5
  <2> QED BY <2>5, <2>10, <2>11, <2>12
<1>6. Holds(n)
  BY <1>5
<1> QED BY <1>1, <1>2, <1>3, <1>6

(* The sum of sums.                                                        *)
LEMMA TotalOfSums ==
  ASSUME NEW s \in Seq(Number), NEW t \in Seq(Number), NEW u \in Seq(Number),
         Len(s) = Len(u), Len(t) = Len(u), \A k \in 1 .. Len(u) : u[k] = Plus(s[k], t[k])
  PROVE  Total(u) = Plus(Total(s), Total(t))
<1>1. PICK n \in Nat : n = Len(s) /\ n = Len(t) /\ n = Len(u)
  BY LenProperties
<1>2. PICK f : PartialSums(f, s) /\ Total(s) = f[n]
  BY <1>1, TotalIs
<1>3. PICK g : PartialSums(g, t) /\ Total(t) = g[n]
  BY <1>1, TotalIs
<1>4. PICK h : PartialSums(h, u) /\ Total(u) = h[n]
  BY <1>1, TotalIs
<1>5. \A k \in 1 .. n : s[k] \in Number /\ t[k] \in Number
  BY <1>1, ElementOfSeq
<1> DEFINE Holds(k) == h[k] = Plus(f[k], g[k])
           B == {k \in 0 .. n : ~Holds(k)}
<1>6. B = {}
  <2>1. SUFFICES ASSUME B # {} PROVE FALSE
    OBVIOUS
  <2>2. PICK j \in B : \A k \in B : j <= k
    <3>1. B \in SUBSET Nat
      OBVIOUS
    <3> HIDE DEF B
    <3> QED BY <2>1, <3>1, LeastNatural
  <2>3. j \in 0 .. n /\ ~Holds(j)
    OBVIOUS
  <2>4. j # 0
    <3>1. Plus(Zero, Zero) = Zero
      BY SumsOfNumbers, Numbers, IsQ DEF Zero
    <3>2. Holds(0)
      BY <1>2, <1>3, <1>4, <3>1 DEF PartialSums
    <3> QED BY <2>3, <3>2
  <2>5. j - 1 \in 0 .. n /\ ~(j <= j - 1) /\ j \in 1 .. n
    BY <2>3, <2>4
  <2>6. Holds(j - 1)
    BY <2>2, <2>5
  <2>7. PICK a \in Number, b \in Number : a = f[j - 1] /\ b = g[j - 1]
    BY <1>1, <1>2, <1>3, <2>5 DEF PartialSums
  <2>8. f[j] = Plus(a, s[j]) /\ g[j] = Plus(b, t[j])
    BY <1>1, <1>2, <1>3, <2>5, <2>7 DEF PartialSums
  <2>9. h[j] = Plus(Plus(a, b), Plus(s[j], t[j]))
    BY <1>1, <1>4, <2>5, <2>6, <2>7 DEF PartialSums
  <2>10. Plus(Plus(a, b), Plus(s[j], t[j])) = Plus(Plus(a, s[j]), Plus(b, t[j]))
    BY <1>5, <2>5, SumsOfNumbers
  <2> QED BY <2>3, <2>8, <2>9, <2>10
<1>7. Holds(n)
  BY <1>6
<1> QED BY <1>1, <1>2, <1>3, <1>4, <1>7

-----------------------------------------------------------------------------
(* The analyzers: trackers of positions.                                   *)
LEMMA SixNumbers ==
  ASSUME NEW a \in Number, NEW b \in Number, NEW c \in Number, NEW e \in Number,
         NEW g \in Number, NEW h \in Number
  PROVE  \E s \in [1 .. 6 -> Int], d \in Nat \ {0} :
           /\ Is(a, s[1], d) /\ Is(b, s[2], d) /\ Is(c, s[3], d)
           /\ Is(e, s[4], d) /\ Is(g, s[5], d) /\ Is(h, s[6], d)
<1>1. PICK f : f = [k \in 1 .. 6 |-> IF k = 1 THEN a ELSE IF k = 2 THEN b ELSE IF k = 3 THEN c
                                      ELSE IF k = 4 THEN e ELSE IF k = 5 THEN g ELSE h]
  OBVIOUS
<1>2. f[1] = a /\ f[2] = b /\ f[3] = c /\ f[4] = e /\ f[5] = g /\ f[6] = h /\ \A k \in 1 .. 6 : f[k] \in Number
  BY <1>1
<1>3. PICK s \in [1 .. 6 -> Int], d \in Nat \ {0} : \A k \in 1 .. 6 : Is(f[k], s[k], d)
  <2>1. 6 \in Nat
    OBVIOUS
  <2> QED BY <1>2, <2>1, CommonDenominator
<1>4. Is(a, s[1], d) /\ Is(b, s[2], d) /\ Is(c, s[3], d) /\ Is(e, s[4], d) /\ Is(g, s[5], d) /\ Is(h, s[6], d)
  BY <1>2, <1>3
<1> QED BY <1>4

(* One number has one numerator over a denominator.                        *)
LEMMA IsSame ==
  ASSUME NEW a, NEW n, NEW m, NEW d, Is(a, n, d), Is(a, m, d)
  PROVE  n = m
<1>1. PICK x \in Int, y \in Nat : a[1] = x /\ a[2] = y /\ y # 0
  BY NumberIs DEF Is
<1>2. n \in Int /\ m \in Int /\ n * y = m * y
  BY <1>1 DEF Is
<1> QED BY <1>1, <1>2, Canceled

LEMMA IsEqual1 ==
  ASSUME NEW a, NEW b, NEW n, NEW d, Is(a, n, d), Is(b, n, d)
  PROVE  a = b
BY IsEqual DEF Is

-----------------------------------------------------------------------------
(* Trackers of positions *)
Tracker ==
  [pnl : Number, avgPrice : Number, position : Int, commissions : Number, totalCommited : Number]

(* What a tracker has gained, less what is invested in its position.       *)
Book(t) == Minus(Minus(t.pnl, Times(t.avgPrice, Q(t.position))), t.commissions)
Cost(quantity, price, commission) == Plus(Times(price, Q(quantity)), commission)

(* A tracker over common denominators.                                     *)
TrackerIs(t, pnl, avg, com, d) == Is(t.pnl, pnl, d) /\ Is(t.avgPrice, avg, d) /\ Is(t.commissions, com, d)

LEMMA BookIs ==
  ASSUME NEW t \in Tracker, NEW pnl, NEW inv, NEW com, NEW d,
         Is(t.pnl, pnl, d), Is(Times(t.avgPrice, Q(t.position)), inv, d), Is(t.commissions, com, d)
  PROVE  Is(Book(t), pnl - inv - com, d)
BY IsPlus DEF Book

LEMMA NewTrackerIs == NewTracker \in Tracker /\ Book(NewTracker) = Zero
<1>1. Zero \in Number /\ Is(Zero, 0, 1)
  BY IsQ DEF Zero
<1>2. NewTracker \in Tracker
  BY <1>1 DEF NewTracker, Tracker
<1>3. Is(Times(Zero, Q(0)), 0 * 0, 1)
  BY <1>1, IsTimesQ
<1>4. Is(Book(NewTracker), 0 - 0 * 0 - 0, 1)
  BY <1>1, <1>2, <1>3, BookIs DEF NewTracker
<1>5. 0 - 0 * 0 - 0 = 0
  OBVIOUS
<1>6. Is(Book(NewTracker), 0, 1)
  BY <1>4, <1>5
<1> QED BY <1>1, <1>2, <1>6, IsEqual1

(* The parts of a tracker after an execution.                              *)
MovedOver(new, t, quantity, pnl, avg, p, d) ==
  \E g, inv \in Int :
    /\ Is(new.pnl, g, d) /\ Is(Times(new.avgPrice, Q(new.position)), inv, d)
    /\ g - inv = pnl - avg * t.position - p * quantity

MovedTo(new, t, quantity, price) ==
  /\ new \in Tracker /\ new.position = t.position + quantity
  /\ new.commissions = t.commissions
  /\ \A pnl, avg, p, d \in Int :
       d # 0 /\ Is(t.pnl, pnl, d) /\ Is(t.avgPrice, avg, d) /\ Is(price, p, d) =>
         MovedOver(new, t, quantity, pnl, avg, p, d)

LEMMA Opened ==
  ASSUME NEW t \in Tracker, NEW q \in Int, NEW p \in Number, t.position = 0
  PROVE  MovedTo(OpenNewPosition(t, q, p), t, q, p)
<1>1. PICK new : new = OpenNewPosition(t, q, p)
  OBVIOUS
<1>2. Abs(q) \in Int
  BY DEF Abs
<1>3. Q(Abs(q)) \in Number
  BY <1>2, IsQ
<1>4. Times(p, Q(Abs(q))) \in Number
  BY <1>3, Numbers
<1>5. /\ new \in Tracker /\ new.pnl = t.pnl /\ new.avgPrice = p /\ new.position = q
      /\ new.commissions = t.commissions
  BY <1>1, <1>4 DEF OpenNewPosition, Tracker
<1>6. ASSUME NEW pnl \in Int, NEW avg \in Int, NEW x \in Int, NEW d \in Int, d # 0,
             Is(t.pnl, pnl, d), Is(t.avgPrice, avg, d), Is(p, x, d)
      PROVE  \E g, inv \in Int :
               /\ Is(new.pnl, g, d) /\ Is(Times(new.avgPrice, Q(new.position)), inv, d)
               /\ g - inv = pnl - avg * t.position - x * q
  <2>1. Is(Times(p, Q(q)), x * q, d)
    BY <1>6, IsTimesQ
  <2>2. pnl - x * q = pnl - avg * t.position - x * q /\ x * q \in Int
    OBVIOUS
  <2> QED BY <1>5, <1>6, <2>1, <2>2
<1>7. new.position = t.position + q
  BY <1>5
<1> QED BY <1>1, <1>5, <1>6, <1>7 DEF MovedTo, MovedOver

LEMMA Extended ==
  ASSUME NEW t \in Tracker, NEW q \in Int, NEW p \in Number, t.position * q > 0
  PROVE  MovedTo(ExtendCurrentPosition(t, q, p), t, q, p)
<1>1. PICK new : new = ExtendCurrentPosition(t, q, p)
  OBVIOUS
<1>2. PICK pos \in Int : pos = t.position
  BY DEF Tracker
<1>3. PICK s \in {1, -1}, a \in Nat, b \in Nat :
        a # 0 /\ b # 0 /\ pos = s * a /\ q = s * b /\ Abs(pos) = a /\ Abs(q) = b /\ Abs(pos + q) = a + b
  <2>1. CASE pos > 0
    <3>1. q > 0
      BY <1>2, <2>1
    <3>2. pos \in Nat /\ q \in Nat /\ Abs(pos) = pos /\ Abs(q) = q /\ Abs(pos + q) = pos + q
      BY <2>1, <3>1 DEF Abs
    <3> QED BY <2>1, <3>1, <3>2
  <2>2. CASE pos < 0
    <3>1. q < 0
      BY <1>2, <2>2
    <3>2. -pos \in Nat /\ -q \in Nat /\ Abs(pos) = -pos /\ Abs(q) = -q /\ Abs(pos + q) = -pos + -q
      BY <2>2, <3>1 DEF Abs
    <3>3. pos = (-1) * (-pos) /\ q = (-1) * (-q) /\ -1 \in {1, -1} /\ -pos # 0 /\ -q # 0
      BY <2>2, <3>1
    <3> QED BY <3>2, <3>3
  <2>3. CASE pos = 0
    BY <1>2, <2>3
  <2> QED BY <2>1, <2>2, <2>3
<1>4. PICK k \in Int : k = a + b /\ k # 0
  BY <1>3
<1>5. PICK paid : paid = Plus(Times(t.avgPrice, Q(a)), Times(p, Q(b)))
  OBVIOUS
<1>6. t.avgPrice \in Number /\ t.pnl \in Number /\ t.commissions \in Number
  BY DEF Tracker
<1>7. paid \in Number
  <2>1. Q(a) \in Number /\ Q(b) \in Number
    BY IsQ
  <2>2. Times(t.avgPrice, Q(a)) \in Number /\ Times(p, Q(b)) \in Number
    BY <1>6, <2>1, Numbers
  <2> QED BY <1>5, <2>2, Numbers
<1>8. Over(paid, Q(k)) \in Number
  <2>1. Is(paid, paid[1], paid[2])
    BY <1>7, NumberIs
  <2>2. Is(Over(paid, Q(k)), paid[1], paid[2] * k)
    BY <1>4, <2>1, IsOverQ
  <2> QED BY <2>2 DEF Is
<1>9. /\ new \in Tracker /\ new.pnl = t.pnl /\ new.avgPrice = Over(paid, Q(k)) /\ new.position = pos + q
      /\ new.commissions = t.commissions
  <2>1. new = [t EXCEPT !.avgPrice = Over(paid, Q(k)), !.position = pos + q, !.totalCommited = paid]
    BY <1>1, <1>2, <1>3, <1>4, <1>5 DEF ExtendCurrentPosition
  <2>2. PICK r \in Int : r = pos + q
    OBVIOUS
  <2>3. PICK avg \in Number : avg = Over(paid, Q(k))
    BY <1>8
  <2>4. new = [t EXCEPT !.avgPrice = avg, !.position = r, !.totalCommited = paid]
    BY <2>1, <2>2, <2>3
  <2>5. /\ new \in Tracker /\ new.pnl = t.pnl /\ new.avgPrice = avg /\ new.position = r
        /\ new.commissions = t.commissions
    BY ONLY <1>7, <2>4, t \in Tracker, avg \in Number, r \in Int DEF Tracker
  <2> QED BY <2>2, <2>3, <2>5
<1>10. ASSUME NEW pnl \in Int, NEW avg \in Int, NEW x \in Int, NEW d \in Int, d # 0,
             Is(t.pnl, pnl, d), Is(t.avgPrice, avg, d), Is(p, x, d)
      PROVE  \E g, inv \in Int :
               /\ Is(new.pnl, g, d) /\ Is(Times(new.avgPrice, Q(new.position)), inv, d)
               /\ g - inv = pnl - avg * t.position - x * q
  <2>1. Is(Times(t.avgPrice, Q(a)), avg * a, d) /\ Is(Times(p, Q(b)), x * b, d)
    <3>1. a \in Int /\ b \in Int
      OBVIOUS
    <3> QED BY <1>10, <3>1, IsTimesQ
  <2>2. Is(paid, avg * a + x * b, d)
    BY <1>5, <2>1, IsPlus
  <2>3. Is(new.avgPrice, avg * a + x * b, d * k)
    BY <1>4, <1>9, <2>2, IsOverQ
  <2>4. pos + q \in Int /\ pos + q = s * k
    BY <1>3, <1>4
  <2>5. Is(Times(new.avgPrice, Q(new.position)), (avg * a + x * b) * (s * k), d * k)
    BY <1>9, <2>3, <2>4, IsTimesQ
  <2>6. PICK inv \in Int : inv = avg * pos + x * q
    OBVIOUS
  <2>7. ((avg * a + x * b) * (s * k)) * d = inv * (d * k)
    <3>1. avg * (s * a) + x * (s * b) = (avg * a + x * b) * s
      OBVIOUS
    <3>2. inv = (avg * a + x * b) * s
      BY <1>3, <2>6, <3>1
    <3>3. ((avg * a + x * b) * (s * k)) * d = ((avg * a + x * b) * s) * (d * k)
      OBVIOUS
    <3> QED BY <3>2, <3>3
  <2>8. Is(Times(new.avgPrice, Q(new.position)), inv, d)
    <3>1. (avg * a + x * b) * (s * k) \in Int /\ d * k \in Int
      OBVIOUS
    <3> QED BY <1>10, <2>5, <2>7, <3>1, IsRescaled
  <2>9. pnl - inv = pnl - avg * t.position - x * q
    BY <1>2, <2>6
  <2> QED BY <1>9, <1>10, <2>8, <2>9
<1>11. new.position = t.position + q
  BY <1>2, <1>9
<1> QED BY <1>1, <1>9, <1>10, <1>11 DEF MovedTo, MovedOver

LEMMA Reduced ==
  ASSUME NEW t \in Tracker, NEW q \in Int, NEW p \in Number
  PROVE  MovedTo(ReduceCurrentPosition(t, q, p), t, q, p)
<1>1. PICK new : new = ReduceCurrentPosition(t, q, p)
  OBVIOUS
<1>2. PICK pos \in Int : pos = t.position
  BY DEF Tracker
<1>3. t.avgPrice \in Number /\ t.pnl \in Number /\ t.commissions \in Number /\ Zero \in Number /\ -q \in Int
  BY IsQ DEF Tracker, Zero
<1>4. PICK gain : gain = Times(Minus(p, t.avgPrice), Q(-q))
  OBVIOUS
<1>5. gain \in Number /\ Plus(t.pnl, gain) \in Number
  <2>1. Q(-q) \in Number
    BY <1>3, IsQ
  <2>2. Minus(p, t.avgPrice) \in Number
    BY <1>3, Numbers
  <2>3. gain \in Number
    BY <1>4, <2>1, <2>2, Numbers
  <2> QED BY <1>3, <2>3, Numbers
<1>6. /\ new \in Tracker /\ new.pnl = Plus(t.pnl, gain) /\ new.position = pos + q
      /\ new.avgPrice = (IF pos + q = 0 THEN Zero ELSE t.avgPrice)
      /\ new.commissions = t.commissions
  <2>1. PICK r \in Int : r = pos + q
    OBVIOUS
  <2>2. PICK avg \in Number : avg = IF r = 0 THEN Zero ELSE t.avgPrice
    BY <1>3
  <2>3. PICK pnl \in Number : pnl = Plus(t.pnl, gain)
    BY <1>5
  <2>4. new = [t EXCEPT !.pnl = pnl, !.position = r, !.avgPrice = avg]
    BY <1>1, <1>2, <1>4, <2>1, <2>2, <2>3 DEF ReduceCurrentPosition
  <2>5. /\ new \in Tracker /\ new.pnl = pnl /\ new.avgPrice = avg /\ new.position = r
        /\ new.commissions = t.commissions
    BY ONLY <2>4, t \in Tracker, avg \in Number, pnl \in Number, r \in Int DEF Tracker
  <2> QED BY <2>1, <2>2, <2>3, <2>5
<1>7. ASSUME NEW pnl \in Int, NEW avg \in Int, NEW x \in Int, NEW d \in Int, d # 0,
             Is(t.pnl, pnl, d), Is(t.avgPrice, avg, d), Is(p, x, d)
      PROVE  \E g, inv \in Int :
               /\ Is(new.pnl, g, d) /\ Is(Times(new.avgPrice, Q(new.position)), inv, d)
               /\ g - inv = pnl - avg * t.position - x * q
  <2>1. Is(Minus(p, t.avgPrice), x - avg, d)
    BY <1>7, IsPlus
  <2>2. Is(gain, (x - avg) * (-q), d)
    BY <1>3, <1>4, <2>1, IsTimesQ
  <2>3. Is(new.pnl, pnl + (x - avg) * (-q), d)
    BY <1>6, <1>7, <2>2, IsPlus
  <2>4. Is(Times(new.avgPrice, Q(new.position)), avg * (pos + q), d)
    <3>1. pos + q \in Int
      OBVIOUS
    <3>2. CASE pos + q = 0
      <4>1. Is(Zero, 0 * d, d)
        BY <1>7, IsQ DEF Zero
      <4>2. Is(Times(Zero, Q(pos + q)), (0 * d) * (pos + q), d)
        BY <3>1, <4>1, IsTimesQ
      <4>3. (0 * d) * (pos + q) = avg * (pos + q)
        BY <3>2
      <4> QED BY <1>6, <3>2, <4>2, <4>3
    <3>3. CASE pos + q # 0
      BY <1>6, <1>7, <3>1, <3>3, IsTimesQ
    <3> QED BY <3>2, <3>3
  <2>5. PICK g \in Int, inv \in Int : g = pnl + (x - avg) * (-q) /\ inv = avg * (pos + q)
    OBVIOUS
  <2>6. g - inv = pnl - avg * pos - x * q
    <3>1. pnl + (x - avg) * (-q) - avg * (pos + q) = pnl - avg * pos - x * q
      OBVIOUS
    <3> QED BY <2>5, <3>1
  <2> QED BY <1>2, <2>3, <2>4, <2>5, <2>6
<1>8. new.position = t.position + q
  BY <1>2, <1>6
<1> QED BY <1>1, <1>6, <1>7, <1>8 DEF MovedTo, MovedOver

LEMMA Reversed ==
  ASSUME NEW t \in Tracker, NEW q \in Int, NEW p \in Number
  PROVE  MovedTo(OpenNewPosition(ReduceCurrentPosition(t, -t.position, p), t.position + q, p), t, q, p)
<1>1. PICK pos \in Int : pos = t.position /\ -pos \in Int /\ pos + q \in Int
  BY DEF Tracker
<1>2. PICK mid : mid = ReduceCurrentPosition(t, -pos, p)
  OBVIOUS
<1>3. MovedTo(mid, t, -pos, p)
  BY <1>1, <1>2, Reduced
<1>4. mid \in Tracker /\ mid.position = 0 /\ mid.commissions = t.commissions
  BY <1>1, <1>3 DEF MovedTo
<1>5. mid.avgPrice = Zero
  <2>1. t.position + -pos = 0
    BY <1>1
  <2> QED BY <1>2, <2>1 DEF ReduceCurrentPosition, Tracker
<1>6. PICK new : new = OpenNewPosition(mid, pos + q, p)
  OBVIOUS
<1>7. MovedTo(new, mid, pos + q, p)
  BY <1>1, <1>4, <1>6, Opened
<1>8. new \in Tracker /\ new.position = t.position + q /\ new.commissions = t.commissions
  BY <1>1, <1>4, <1>7 DEF MovedTo
<1>9. ASSUME NEW pnl \in Int, NEW avg \in Int, NEW x \in Int, NEW d \in Int, d # 0,
             Is(t.pnl, pnl, d), Is(t.avgPrice, avg, d), Is(p, x, d)
      PROVE  \E g, inv \in Int :
               /\ Is(new.pnl, g, d) /\ Is(Times(new.avgPrice, Q(new.position)), inv, d)
               /\ g - inv = pnl - avg * t.position - x * q
  <2>1. PICK g \in Int, inv \in Int :
          /\ Is(mid.pnl, g, d) /\ Is(Times(mid.avgPrice, Q(mid.position)), inv, d)
          /\ g - inv = pnl - avg * t.position - x * (-pos)
    <3>1. MovedOver(mid, t, -pos, pnl, avg, x, d)
      BY <1>3, <1>9 DEF MovedTo
    <3> QED BY <3>1 DEF MovedOver
  <2>2. Is(Zero, 0, d)
    <3>1. Is(Zero, 0 * d, d)
      BY <1>9, IsQ DEF Zero
    <3>2. 0 * d = 0
      OBVIOUS
    <3> QED BY <3>1, <3>2
  <2>3. inv = 0
    <3>1. Is(Times(Zero, Q(0)), 0 * 0, d)
      BY <2>2, IsTimesQ
    <3>2. 0 * 0 = 0
      OBVIOUS
    <3> QED BY <1>4, <1>5, <2>1, <3>1, <3>2, IsSame
  <2>4. PICK h \in Int, rest \in Int :
          /\ Is(new.pnl, h, d) /\ Is(Times(new.avgPrice, Q(new.position)), rest, d)
          /\ h - rest = g - 0 * mid.position - x * (pos + q)
    <3>1. Is(mid.avgPrice, 0, d) /\ Is(mid.pnl, g, d) /\ 0 \in Int
      BY <1>5, <2>1, <2>2
    <3>2. MovedOver(new, mid, pos + q, g, 0, x, d)
      BY <1>7, <1>9, <2>1, <3>1 DEF MovedTo
    <3> QED BY <3>2 DEF MovedOver
  <2>5. h - rest = pnl - avg * pos - x * q
    <3>1. x * (pos + q) = x * pos + x * q /\ x * (-pos) = -(x * pos)
      OBVIOUS
    <3>2. 0 * mid.position = 0
      BY <1>4
    <3> QED BY <1>1, <2>1, <2>3, <2>4, <3>1, <3>2
  <2> QED BY <1>1, <2>4, <2>5
<1> QED BY <1>1, <1>2, <1>6, <1>8, <1>9 DEF MovedTo, MovedOver

LEMMA MovedIs ==
  ASSUME NEW t \in Tracker, NEW q \in Int, q # 0, NEW p \in Number
  PROVE  MovedTo(Moved(t, q, p), t, q, p)
<1>1. PICK pos \in Int : pos = t.position
  BY DEF Tracker
<1>2. CASE pos = 0
  <2>1. Moved(t, q, p) = OpenNewPosition(t, q, p)
    BY <1>1, <1>2 DEF Moved
  <2> QED BY <1>1, <1>2, <2>1, Opened
<1>3. CASE pos # 0 /\ pos * q > 0
  <2>1. Moved(t, q, p) = ExtendCurrentPosition(t, q, p)
    BY <1>1, <1>3 DEF Moved
  <2> QED BY <1>1, <1>3, <2>1, Extended
<1>4. CASE pos # 0 /\ ~(pos * q > 0) /\ Abs(q) <= Abs(pos)
  <2>1. Moved(t, q, p) = ReduceCurrentPosition(t, q, p)
    BY <1>1, <1>4 DEF Moved
  <2> QED BY <1>1, <1>4, <2>1, Reduced
<1>5. CASE pos # 0 /\ ~(pos * q > 0) /\ ~(Abs(q) <= Abs(pos))
  <2>1. Moved(t, q, p) = OpenNewPosition(ReduceCurrentPosition(t, -pos, p), pos + q, p)
    BY <1>1, <1>5 DEF Moved
  <2> QED BY <1>1, <1>5, <2>1, Reversed
<1> QED BY <1>2, <1>3, <1>4, <1>5

(* An execution moves its cost from the book of a tracker.                 *)
LEMMA Updated ==
  ASSUME NEW t \in Tracker, NEW q \in Int, q # 0, NEW p \in Number, NEW c \in Number
  PROVE  /\ Update(t, q, p, c) \in Tracker /\ Update(t, q, p, c).position = t.position + q
         /\ Book(Update(t, q, p, c)) \in Number /\ Book(t) \in Number
         /\ Plus(Book(Update(t, q, p, c)), Cost(q, p, c)) = Book(t)
<1>1. PICK mid : mid = Moved(t, q, p) /\ MovedTo(mid, t, q, p)
  BY MovedIs
<1>2. mid \in Tracker /\ mid.position = t.position + q /\ mid.commissions = t.commissions
  BY <1>1 DEF MovedTo
<1>3. t.avgPrice \in Number /\ t.pnl \in Number /\ t.commissions \in Number /\ t.position \in Int
  BY DEF Tracker
<1>4. PICK com \in Number : com = Plus(t.commissions, c)
  BY <1>3, Numbers
<1>5. PICK new : new = Update(t, q, p, c)
  OBVIOUS
<1>6. new = [mid EXCEPT !.commissions = com]
  BY <1>1, <1>2, <1>4, <1>5 DEF Update
<1>7. /\ new \in Tracker /\ new.position = mid.position /\ new.pnl = mid.pnl
      /\ new.avgPrice = mid.avgPrice /\ new.commissions = com
  BY <1>2, <1>6 DEF Tracker
<1>8. PICK pnl \in Int, avg \in Int, cs \in Int, x \in Int, y \in Int, z \in Int, d \in Nat \ {0} :
        Is(t.pnl, pnl, d) /\ Is(t.avgPrice, avg, d) /\ Is(t.commissions, cs, d)
        /\ Is(p, x, d) /\ Is(c, y, d) /\ Is(Zero, z, d)
  <2>1. Zero \in Number
    BY IsQ DEF Zero
  <2>2. PICK s \in [1 .. 6 -> Int], d \in Nat \ {0} :
          /\ Is(t.pnl, s[1], d) /\ Is(t.avgPrice, s[2], d) /\ Is(t.commissions, s[3], d)
          /\ Is(p, s[4], d) /\ Is(c, s[5], d) /\ Is(Zero, s[6], d)
    BY <1>3, <2>1, SixNumbers
  <2>3. /\ s[1] \in Int /\ s[2] \in Int /\ s[3] \in Int
        /\ s[4] \in Int /\ s[5] \in Int /\ s[6] \in Int
    OBVIOUS
  <2> QED BY <2>2, <2>3
<1>9. d \in Int /\ d # 0
  OBVIOUS
<1>10. PICK g \in Int, inv \in Int :
        /\ Is(mid.pnl, g, d) /\ Is(Times(mid.avgPrice, Q(mid.position)), inv, d)
        /\ g - inv = pnl - avg * t.position - x * q
  <2>1. MovedOver(mid, t, q, pnl, avg, x, d)
    BY <1>1, <1>8, <1>9 DEF MovedTo
  <2> QED BY <2>1 DEF MovedOver
<1>11. Is(com, cs + y, d)
  BY <1>4, <1>8, IsPlus
<1>12. Is(Book(new), g - inv - (cs + y), d)
  BY <1>7, <1>10, <1>11, BookIs
<1>13. Is(Times(p, Q(q)), x * q, d)
  BY <1>8, IsTimesQ
<1>14. Is(Cost(q, p, c), x * q + y, d)
  BY <1>8, <1>13, IsPlus DEF Cost
<1>15. Is(Plus(Book(new), Cost(q, p, c)), (g - inv - (cs + y)) + (x * q + y), d)
  BY <1>12, <1>14, IsPlus
<1>16. Is(Times(t.avgPrice, Q(t.position)), avg * t.position, d)
  BY <1>3, <1>8, IsTimesQ
<1>17. Is(Book(t), pnl - avg * t.position - cs, d)
  BY <1>8, <1>16, BookIs
<1>18. (g - inv - (cs + y)) + (x * q + y) = pnl - avg * t.position - cs
  <2>1. PICK m \in Int, n \in Int : m = avg * t.position /\ n = x * q
    BY <1>3
  <2> QED BY <1>10, <2>1
<1>19. Plus(Book(new), Cost(q, p, c)) = Book(t)
  BY <1>15, <1>17, <1>18, IsEqual1
<1>20. Book(new) \in Number /\ Book(t) \in Number
  BY <1>12, <1>17 DEF Is
<1> QED BY <1>2, <1>5, <1>7, <1>19, <1>20

(* A tracker without a position.                                           *)
LEMMA ClosedBook ==
  ASSUME NEW t \in Tracker, t.position = 0
  PROVE  PnL(t, Zero) = Book(t)
<1>1. PICK pnl \in Int, avg \in Int, com \in Int, d \in Nat \ {0} :
        Is(t.pnl, pnl, d) /\ Is(t.avgPrice, avg, d) /\ Is(t.commissions, com, d)
  <2>1. t.pnl \in Number /\ t.avgPrice \in Number /\ t.commissions \in Number /\ Zero \in Number
    BY IsQ DEF Tracker, Zero
  <2> QED BY <2>1, ThreeNumbers
<1>2. Is(Zero, 0, d)
  <2>1. d \in Int /\ d # 0 /\ 0 * d = 0
    OBVIOUS
  <2> QED BY <2>1, IsQ DEF Zero
<1>3. Is(PnL(t, Zero), (pnl + 0) - com, d)
  <2>1. PnL(t, Zero) = Minus(Plus(t.pnl, Zero), t.commissions)
    BY DEF PnL
  <2>2. Is(Plus(t.pnl, Zero), pnl + 0, d)
    BY <1>1, <1>2, IsPlus
  <2> QED BY <1>1, <2>1, <2>2, IsPlus
<1>4. Is(Times(t.avgPrice, Q(t.position)), avg * 0, d)
  <2>1. Is(t.avgPrice, avg, d) /\ 0 \in Int /\ t.position = 0
    BY <1>1
  <2>2. Is(Times(t.avgPrice, Q(0)), avg * 0, d)
    BY <2>1, IsTimesQ
  <2> QED BY <2>1, <2>2
<1>5. Is(Book(t), pnl - avg * 0 - com, d)
  BY <1>1, <1>4, BookIs
<1>6. (pnl + 0) - com = pnl - avg * 0 - com
  OBVIOUS
<1> QED BY <1>3, <1>5, <1>6, IsEqual1

-----------------------------------------------------------------------------
(* What Trades makes of an execution.                                      *)
TradeOf == [profit : Number, return : Number, commissions : Number]

LEMMA TradeType ==
  ASSUME NEW t \in Tracker, t.position = 0
  PROVE  Trade(t) \in TradeOf /\ Trade(t).profit = Book(t) /\ Book(t) \in Number
<1>1. t.pnl \in Number /\ t.avgPrice \in Number /\ t.commissions \in Number /\ t.totalCommited \in Number
      /\ Zero \in Number
  BY IsQ DEF Tracker, Zero
<1>2. PnL(t, Zero) = Book(t)
  BY ClosedBook
<1>3. PnL(t, Zero) \in Number
  <2>1. PnL(t, Zero) = Minus(Plus(t.pnl, Zero), t.commissions)
    BY DEF PnL
  <2> QED BY <1>1, <2>1, Numbers
<1>4. NetReturn(t) \in Number
  BY <1>1, <1>3, Numbers DEF NetReturn
<1> QED BY <1>1, <1>2, <1>3, <1>4 DEF Trade, TradeOf

LEMMA Split ==
  ASSUME NEW p \in Number, NEW c \in Number, NEW q \in Int, q # 0, NEW old \in Int, old # 0,
         old * (old + q) < 0
  PROVE  /\ Proportional(c, old, q) \in Number /\ Proportional(c, old + q, q) \in Number
         /\ Plus(Cost(-old, p, Proportional(c, old, q)), Cost(old + q, p, Proportional(c, old + q, q))) = Cost(q, p, c)
<1>1. PICK new \in Int : new = old + q /\ new # 0
  <2>1. old + q = 0 => old * (old + q) = 0
    OBVIOUS
  <2> QED BY <2>1
<1>2. PICK a \in Int, b \in Int, n \in Int : a = Abs(old) /\ b = Abs(new) /\ n = Abs(q) /\ n = a + b /\ n # 0
  <2>1. CASE old > 0
    <3>1. new < 0
      <4>1. new > 0 => old * new > 0
        BY <2>1
      <4> QED BY <1>1, <4>1
    <3> QED BY <1>1, <2>1, <3>1 DEF Abs
  <2>2. CASE old < 0
    <3>1. new > 0
      <4>1. new < 0 => old * new > 0
        BY <2>2
      <4> QED BY <1>1, <4>1
    <3> QED BY <1>1, <2>2, <3>1 DEF Abs
  <2> QED BY <2>1, <2>2
<1>3. PICK x \in Int, y \in Int, z1 \in Int, z2 \in Int, d \in Nat \ {0} :
        Is(p, x, d) /\ Is(c, y, d) /\ Is(p, z1, d) /\ Is(p, z2, d)
  BY FourNumbers
<1>4. d \in Int /\ d # 0 /\ d * n \in Int /\ d * n # 0
  <2>1. n * d = 0 * d => n = 0
    BY Canceled
  <2>2. d * n = n * d /\ 0 * d = 0
    OBVIOUS
  <2> QED BY <1>2, <2>1, <2>2
<1>5. ASSUME NEW k \in Int, NEW j, Abs(j) = k
      PROVE  Is(Proportional(c, j, q), y * k, d * n)
  <2>1. Is(Times(c, Q(k)), y * k, d)
    BY <1>3, IsTimesQ
  <2>2. Is(Over(Times(c, Q(k)), Q(n)), y * k, d * n)
    BY <1>2, <2>1, IsOverQ
  <2> QED BY <1>2, <1>5, <2>2 DEF Proportional
<1>6. Is(p, x * n, d * n)
  BY <1>2, <1>3, IsScaled
<1>7. Is(Proportional(c, old, q), y * a, d * n) /\ Is(Proportional(c, new, q), y * b, d * n)
  BY <1>2, <1>5
<1>8. -old \in Int
  OBVIOUS
<1>9. Is(Times(p, Q(-old)), (x * n) * (-old), d * n) /\ Is(Times(p, Q(new)), (x * n) * new, d * n)
  BY <1>6, <1>8, IsTimesQ
<1>10. Is(Cost(-old, p, Proportional(c, old, q)), (x * n) * (-old) + y * a, d * n)
  BY <1>7, <1>9, IsPlus DEF Cost
<1>11. Is(Cost(new, p, Proportional(c, new, q)), (x * n) * new + y * b, d * n)
  BY <1>7, <1>9, IsPlus DEF Cost
<1>12. Is(Plus(Cost(-old, p, Proportional(c, old, q)), Cost(new, p, Proportional(c, new, q))),
          ((x * n) * (-old) + y * a) + ((x * n) * new + y * b), d * n)
  BY <1>10, <1>11, IsPlus
<1>13. Is(Times(p, Q(q)), x * q, d)
  BY <1>3, IsTimesQ
<1>14. Is(Cost(q, p, c), x * q + y, d)
  BY <1>3, <1>13, IsPlus DEF Cost
<1>15. Is(Cost(q, p, c), (x * q + y) * n, d * n)
  BY <1>2, <1>14, IsScaled
<1>16. ((x * n) * (-old) + y * a) + ((x * n) * new + y * b) = (x * q + y) * n
  <2>1. (x * n) * (-old) + (x * n) * new = (x * n) * (new - old)
    OBVIOUS
  <2>2. new - old = q
    BY <1>1
  <2>3. y * a + y * b = y * (a + b)
    OBVIOUS
  <2>4. (x * n) * q = (x * q) * n
    OBVIOUS
  <2> QED BY <1>2, <2>1, <2>2, <2>3, <2>4
<1>17. Plus(Cost(-old, p, Proportional(c, old, q)), Cost(new, p, Proportional(c, new, q))) = Cost(q, p, c)
  BY <1>12, <1>15, <1>16, IsEqual1
<1> QED BY <1>1, <1>7, <1>17 DEF Is

(* What Trades is told of the trades that ended.                           *)
Gained(ended, gain) ==
  \/ ended = << >> /\ gain = Zero
  \/ \E trade \in TradeOf : ended = <<trade>> /\ trade.profit = gain

LEMMA ZeroPlus ==
  ASSUME NEW a \in Number
  PROVE  Plus(Zero, a) = a /\ Plus(a, Zero) = a
<1>1. Zero \in Number
  BY IsQ DEF Zero
<1>2. Plus(Zero, a) = Plus(a, Zero) /\ Plus(a, Zero) = a
  BY <1>1, SumsOfNumbers
<1> QED BY <1>2

MovedBy(new, t, quantity) == new \in Tracker /\ new.position = t.position + quantity
Settles(e, old, quantity, price, commission) ==
  \E gain \in Number :
    /\ Gained(e.trades, gain)
    /\ Plus(Plus(Book(e.tracker), gain), Cost(quantity, price, commission)) = old

(* An execution moves its cost from the book of a tracker to what Trades   *)
(* counts.                                                                 *)
LEMMA ExecutedIs ==
  ASSUME NEW t \in Tracker, NEW q \in Int, q # 0, NEW p \in Number, NEW c \in Number,
         NEW e, e = Executed(t, q, p, c)
  PROVE  MovedBy(e.tracker, t, q) /\ Book(e.tracker) \in Number /\ Settles(e, Book(t), q, p, c)
<1>1. PICK old \in Int, new \in Int : old = t.position /\ new = old + q
  BY DEF Tracker
<1>2. PICK whole : whole = Update(t, q, p, c)
  OBVIOUS
<1>3. /\ whole \in Tracker /\ whole.position = new /\ Book(whole) \in Number /\ Book(t) \in Number
      /\ Plus(Book(whole), Cost(q, p, c)) = Book(t)
  BY <1>1, <1>2, Updated
<1>4. Zero \in Number
  BY IsQ DEF Zero
<1>5. CASE old # 0 /\ new = 0
  <2>1. e = [tracker |-> NewTracker, trades |-> <<Trade(whole)>>]
    BY <1>1, <1>2, <1>5 DEF Executed
  <2>2. Trade(whole) \in TradeOf /\ Trade(whole).profit = Book(whole)
    BY <1>3, <1>5, TradeType
  <2>3. Gained(e.trades, Book(whole))
    BY <2>1, <2>2 DEF Gained
  <2>4. Plus(Plus(Book(e.tracker), Book(whole)), Cost(q, p, c)) = Book(t)
    BY <1>3, <2>1, NewTrackerIs, ZeroPlus
  <2>5. e.tracker \in Tracker /\ e.tracker.position = new /\ Book(e.tracker) \in Number
    BY <1>4, <1>5, <2>1, NewTrackerIs DEF NewTracker
  <2> QED BY <1>1, <1>3, <2>3, <2>4, <2>5 DEF Settles, MovedBy
<1>6. CASE ~(old # 0 /\ new = 0) /\ old * new < 0
  <2>1. PICK c1, c2 : c1 = Proportional(c, old, q) /\ c2 = Proportional(c, new, q)
    OBVIOUS
  <2>2. old # 0 /\ new # 0 /\ -old \in Int /\ -old # 0 /\ old * (old + q) < 0
    <3>1. old \in Int /\ q \in Int /\ new = old + q /\ old * new < 0
      BY <1>1, <1>6
    <3>2. old * (old + q) < 0
      BY ONLY <3>1
    <3>3. old # 0 /\ new # 0
      BY ONLY <3>1
    <3>4. -old \in Int /\ -old # 0
      BY ONLY <3>1, <3>3
    <3> QED BY ONLY <3>2, <3>3, <3>4
  <2>3. c1 \in Number /\ c2 \in Number
        /\ Plus(Cost(-old, p, c1), Cost(new, p, c2)) = Cost(q, p, c)
    <3>1. /\ Proportional(c, old, q) \in Number /\ Proportional(c, old + q, q) \in Number
          /\ Plus(Cost(-old, p, Proportional(c, old, q)), Cost(old + q, p, Proportional(c, old + q, q)))
             = Cost(q, p, c)
      BY <2>2, Split
    <3> QED BY ONLY <1>1, <2>1, <3>1
  <2>4. PICK ended : ended = Update(t, -old, p, c1)
    OBVIOUS
  <2>5. /\ ended \in Tracker /\ ended.position = t.position + -old /\ Book(ended) \in Number
        /\ Plus(Book(ended), Cost(-old, p, c1)) = Book(t)
    BY <2>2, <2>3, <2>4, Updated
  <2>6. ended.position = 0
    BY <1>1, <2>5
  <2>7. PICK begun : begun = Update(NewTracker, new, p, c2)
    OBVIOUS
  <2>8. /\ begun \in Tracker /\ begun.position = NewTracker.position + new /\ Book(begun) \in Number
        /\ Plus(Book(begun), Cost(new, p, c2)) = Zero
    BY <2>2, <2>3, <2>7, Updated, NewTrackerIs
  <2>9. begun.position = new
    BY <2>8 DEF NewTracker
  <2>10. e = [tracker |-> begun, trades |-> <<Trade(ended)>>]
    BY <1>1, <1>6, <2>1, <2>4, <2>7 DEF Executed
  <2>11. Trade(ended) \in TradeOf /\ Trade(ended).profit = Book(ended)
    BY <2>5, <2>6, TradeType
  <2>12. Gained(e.trades, Book(ended))
    BY <2>10, <2>11 DEF Gained
  <2>13. Cost(-old, p, c1) \in Number /\ Cost(new, p, c2) \in Number
    <3>1. Q(-old) \in Number /\ Q(new) \in Number
      BY <2>2, IsQ
    <3>2. Times(p, Q(-old)) \in Number /\ Times(p, Q(new)) \in Number
      BY <3>1, Numbers
    <3> QED BY <2>3, <3>2, Numbers DEF Cost
  <2>14. Plus(Plus(Book(begun), Book(ended)), Cost(q, p, c)) = Book(t)
    <3>1. Plus(Cost(-old, p, c1), Cost(new, p, c2)) = Plus(Cost(new, p, c2), Cost(-old, p, c1))
      BY <2>13, SumsOfNumbers
    <3>2. Plus(Plus(Book(begun), Book(ended)), Plus(Cost(new, p, c2), Cost(-old, p, c1)))
          = Plus(Plus(Book(begun), Cost(new, p, c2)), Plus(Book(ended), Cost(-old, p, c1)))
      BY <2>5, <2>8, <2>13, SumsOfNumbers
    <3> QED BY <1>3, <2>3, <2>5, <2>8, <3>1, <3>2, ZeroPlus
  <2> QED BY <1>1, <1>3, <2>5, <2>8, <2>9, <2>10, <2>12, <2>14 DEF Settles, MovedBy
<1>7. CASE ~(old # 0 /\ new = 0) /\ ~(old * new < 0)
  <2>1. e = [tracker |-> whole, trades |-> << >>]
    BY <1>1, <1>2, <1>7 DEF Executed
  <2>2. Gained(e.trades, Zero)
    BY <2>1 DEF Gained
  <2>3. Plus(Book(whole), Zero) = Book(whole)
    BY <1>3, ZeroPlus
  <2> QED BY <1>1, <1>3, <1>4, <2>1, <2>2, <2>3 DEF Settles, MovedBy
<1> QED BY <1>5, <1>6, <1>7

-----------------------------------------------------------------------------
(* Sums over the instruments.                                              *)
Held == SetToSeq(Traded)
SumOver(b) == Total([k \in DOMAIN Held |-> b[Held[k]]])

LEMMA HeldIs ==
  /\ Held \in Seq(Traded) /\ DOMAIN Held = 1 .. Len(Held)
  /\ \A i \in Traded : \E k \in 1 .. Len(Held) : Held[k] = i
  /\ \A j, k \in 1 .. Len(Held) : Held[j] = Held[k] => j = k
<1>1. IsFiniteSet(Traded)
  BY AnalyzersAssumption
<1>2. PICK n \in Nat : n = Cardinality(Traded)
  BY <1>1, FS_CardinalityType
<1>3. PICK f \in Bijection(1 .. n, Traded) : TRUE
  BY <1>1, <1>2, FS_CardinalityType DEF ExistsBijection
<1>4. f \in [1 .. n -> Traded] /\ IsInjective(f)
  BY <1>3 DEF Bijection, Injection, IsInjective
<1>5. Held \in [1 .. n -> Traded] /\ IsInjective(Held)
  BY <1>2, <1>4 DEF Held, SetToSeq
<1>6. Held \in Seq(Traded) /\ Len(Held) = n /\ DOMAIN Held = 1 .. n
  BY <1>5, SeqDef, LenProperties
<1>7. Held \in Injection(1 .. n, Traded)
  BY <1>5 DEF Injection, IsInjective
<1>8. Cardinality(1 .. n) = Cardinality(Traded)
  BY <1>2, FS_Interval
<1>9. Held \in Surjection(1 .. n, Traded)
  BY <1>1, <1>7, <1>8, FS_Injection
<1> QED BY <1>5, <1>6, <1>9 DEF Surjection, IsInjective

LEMMA SumOverIs ==
  ASSUME NEW b, \A i \in Traded : b[i] \in Number
  PROVE  /\ [k \in DOMAIN Held |-> b[Held[k]]] \in Seq(Number)
         /\ Len([k \in DOMAIN Held |-> b[Held[k]]]) = Len(Held)
         /\ SumOver(b) \in Number
<1>1. PICK n \in Nat : n = Len(Held) /\ DOMAIN Held = 1 .. n
  BY HeldIs, LenProperties
<1>2. \A k \in 1 .. n : Held[k] \in Traded
  BY <1>1, HeldIs, ElementOfSeq
<1>3. PICK s : s = [k \in 1 .. n |-> b[Held[k]]]
  OBVIOUS
<1>4. s \in [1 .. n -> Number]
  BY <1>2, <1>3
<1>5. s \in Seq(Number) /\ Len(s) = n
  BY <1>4, SeqDef, LenProperties
<1> QED BY <1>1, <1>3, <1>5, TotalIs DEF SumOver

(* One instrument changes.                                                 *)
LEMMA SumOverChanged ==
  ASSUME NEW b, \A i \in Traded : b[i] \in Number, NEW c, \A i \in Traded : c[i] \in Number,
         NEW i \in Traded, \A j \in Traded : j # i => c[j] = b[j]
  PROVE  Plus(SumOver(c), b[i]) = Plus(SumOver(b), c[i])
<1>1. PICK n \in Nat : n = Len(Held) /\ DOMAIN Held = 1 .. n
  BY HeldIs, LenProperties
<1>2. \A k \in 1 .. n : Held[k] \in Traded
  BY <1>1, HeldIs, ElementOfSeq
<1>3. PICK s \in Seq(Number) : s = [k \in DOMAIN Held |-> b[Held[k]]] /\ Len(s) = n /\ SumOver(b) = Total(s)
  BY <1>1, SumOverIs DEF SumOver
<1>4. PICK t \in Seq(Number) : t = [k \in DOMAIN Held |-> c[Held[k]]] /\ Len(t) = n /\ SumOver(c) = Total(t)
  BY <1>1, SumOverIs DEF SumOver
<1>5. PICK k \in 1 .. n : Held[k] = i
  BY <1>1, HeldIs
<1>6. s[k] = b[i] /\ t[k] = c[i]
  BY <1>1, <1>3, <1>4, <1>5
<1>7. \A j \in 1 .. n : j # k => t[j] = s[j]
  <2>1. \A j \in 1 .. n : j # k => Held[j] # i
    BY <1>1, <1>5, HeldIs
  <2> QED BY <1>1, <1>2, <1>3, <1>4, <2>1
<1>8. Plus(Total(t), s[k]) = Plus(Total(s), t[k])
  <2>1. Len(s) = Len(t) /\ k \in 1 .. Len(s) /\ \A j \in 1 .. Len(s) : j # k => t[j] = s[j]
    BY <1>3, <1>4, <1>7
  <2> QED BY ONLY <2>1, s \in Seq(Number), t \in Seq(Number), TotalChanged
<1> QED BY <1>3, <1>4, <1>6, <1>8

LEMMA SumOverSums ==
  ASSUME NEW a, \A i \in Traded : a[i] \in Number, NEW b, \A i \in Traded : b[i] \in Number,
         NEW c, \A i \in Traded : c[i] = Plus(a[i], b[i])
  PROVE  SumOver(c) = Plus(SumOver(a), SumOver(b))
<1>1. PICK n \in Nat : n = Len(Held) /\ DOMAIN Held = 1 .. n
  BY HeldIs, LenProperties
<1>2. \A k \in 1 .. n : Held[k] \in Traded
  BY <1>1, HeldIs, ElementOfSeq
<1>3. \A i \in Traded : c[i] \in Number
  BY Numbers
<1>4. PICK s \in Seq(Number) : s = [k \in DOMAIN Held |-> a[Held[k]]] /\ Len(s) = n /\ SumOver(a) = Total(s)
  BY <1>1, SumOverIs DEF SumOver
<1>5. PICK t \in Seq(Number) : t = [k \in DOMAIN Held |-> b[Held[k]]] /\ Len(t) = n /\ SumOver(b) = Total(t)
  BY <1>1, SumOverIs DEF SumOver
<1>6. PICK u \in Seq(Number) : u = [k \in DOMAIN Held |-> c[Held[k]]] /\ Len(u) = n /\ SumOver(c) = Total(u)
  BY <1>1, <1>3, SumOverIs DEF SumOver
<1>7. \A k \in 1 .. n : u[k] = Plus(s[k], t[k])
  BY <1>1, <1>2, <1>4, <1>5, <1>6
<1>8. Total(u) = Plus(Total(s), Total(t))
  <2>1. Len(s) = Len(u) /\ Len(t) = Len(u) /\ \A k \in 1 .. Len(u) : u[k] = Plus(s[k], t[k])
    BY <1>4, <1>5, <1>6, <1>7
  <2> QED BY ONLY <2>1, s \in Seq(Number), t \in Seq(Number), u \in Seq(Number), TotalOfSums
<1> QED BY <1>4, <1>5, <1>6, <1>8

LEMMA SumOverZeros ==
  ASSUME NEW b, \A i \in Traded : b[i] = Zero
  PROVE  SumOver(b) = Zero
<1>1. Zero \in Number
  BY IsQ DEF Zero
<1>2. \A i \in Traded : b[i] \in Number /\ b[i] = Plus(b[i], b[i])
  BY <1>1, ZeroPlus
<1>3. PICK s \in Number : s = SumOver(b) /\ s = Plus(s, s)
  <2>1. \A i \in Traded : b[i] \in Number
    BY <1>2
  <2>2. \A i \in Traded : b[i] = Plus(b[i], b[i])
    BY <1>2
  <2>3. SumOver(b) \in Number
    BY <2>1, SumOverIs
  <2>4. SumOver(b) = Plus(SumOver(b), SumOver(b))
    BY ONLY <2>1, <2>2, SumOverSums, Zenon
  <2> QED BY <2>3, <2>4
<1>4. PICK x \in Int, d \in Int : Is(s, x, d)
  BY NumberIs DEF Is
<1>5. Is(s, x + x, d) /\ d # 0
  <2>1. Is(Plus(s, s), x + x, d)
    BY <1>4, IsPlus
  <2> QED BY <1>3, <1>4, <2>1 DEF Is
<1>6. x = x + x
  BY <1>4, <1>5, IsSame
<1>7. x = 0 * d
  BY <1>6
<1>8. Is(Zero, 0 * d, d)
  BY <1>5, IsQ DEF Zero
<1> QED BY <1>3, <1>4, <1>7, <1>8, IsEqual1

(* One summand of b changes from what it was before an execution to new.   *)
Settling(p, b, i, b1, new, gain, v, c) ==
  /\ p \in Number /\ b \in Number /\ i \in Number /\ b1 \in Number
  /\ new \in Number /\ gain \in Number /\ v \in Number /\ c \in Number
  /\ Plus(b1, Plus(Plus(new, gain), Plus(v, c))) = Plus(b, new)

LEMMA Settled ==
  ASSUME NEW p, NEW b, NEW i, NEW b1, NEW new, NEW gain, NEW v, NEW c,
         Settling(p, b, i, b1, new, gain, v, c)
  PROVE  Plus(Plus(Plus(p, gain), b1), i) = Minus(Minus(Plus(Plus(p, b), i), v), c)
<1> USE DEF Settling
<1> DEFINE old == Plus(Plus(new, gain), Plus(v, c))
           cs  == Plus(Plus(p, b), i)
<1>0. old \in Number
  <2>1. Plus(new, gain) \in Number /\ Plus(v, c) \in Number
    BY Numbers
  <2> QED BY <2>1, Numbers
<1>01. Plus(b1, old) = Plus(b, new) /\ Plus(Plus(new, gain), Plus(v, c)) = old
       /\ Plus(Plus(p, b), i) = cs
  OBVIOUS
<1> HIDE DEF old, cs
<1>1. PICK f : f = <<p, b, i, b1, old, new, gain, v, c>>
  OBVIOUS
<1>2. /\ f[1] = p /\ f[2] = b /\ f[3] = i /\ f[4] = b1 /\ f[5] = old /\ f[6] = new
      /\ f[7] = gain /\ f[8] = v /\ f[9] = c
  BY <1>1
<1>3. \A k \in 1 .. 9 : f[k] \in Number
  BY <1>0, <1>2
<1>4. PICK s \in [1 .. 9 -> Int], d \in Nat \ {0} : \A k \in 1 .. 9 : Is(f[k], s[k], d)
  <2>1. 9 \in Nat
    OBVIOUS
  <2> QED BY <1>3, <2>1, CommonDenominator
<1>5. PICK xp \in Int, xb \in Int, xi \in Int, xb1 \in Int, xo \in Int, xn \in Int, xg \in Int,
           xv \in Int, xc \in Int :
        /\ Is(p, xp, d) /\ Is(b, xb, d) /\ Is(i, xi, d) /\ Is(b1, xb1, d) /\ Is(old, xo, d)
        /\ Is(new, xn, d) /\ Is(gain, xg, d) /\ Is(v, xv, d) /\ Is(c, xc, d)
  <2>1. /\ Is(p, s[1], d) /\ Is(b, s[2], d) /\ Is(i, s[3], d) /\ Is(b1, s[4], d) /\ Is(old, s[5], d)
        /\ Is(new, s[6], d) /\ Is(gain, s[7], d) /\ Is(v, s[8], d) /\ Is(c, s[9], d)
    BY <1>2, <1>4
  <2>2. /\ s[1] \in Int /\ s[2] \in Int /\ s[3] \in Int /\ s[4] \in Int /\ s[5] \in Int
        /\ s[6] \in Int /\ s[7] \in Int /\ s[8] \in Int /\ s[9] \in Int
    OBVIOUS
  <2> QED BY <2>1, <2>2
<1>6. Is(cs, xp + xb + xi, d)
  <2>1. Is(Plus(p, b), xp + xb, d)
    BY <1>5, IsPlus
  <2>2. Is(Plus(Plus(p, b), i), xp + xb + xi, d)
    BY <1>5, <2>1, IsPlus
  <2> QED BY <1>01, <2>2
<1>7. xb1 + xo = xb + xn
  <2>1. Is(Plus(b1, old), xb1 + xo, d) /\ Is(Plus(b, new), xb + xn, d)
    BY <1>5, IsPlus
  <2> QED BY <1>01, <2>1, IsSame
<1>8. (xn + xg) + (xv + xc) = xo
  <2>1. Is(Plus(new, gain), xn + xg, d) /\ Is(Plus(v, c), xv + xc, d)
    BY <1>5, IsPlus
  <2>2. Is(Plus(Plus(new, gain), Plus(v, c)), (xn + xg) + (xv + xc), d)
    BY <2>1, IsPlus
  <2> QED BY <1>01, <1>5, <2>2, IsSame
<1>9. Is(Plus(Plus(Plus(p, gain), b1), i), xp + xg + xb1 + xi, d)
  <2>1. Is(Plus(p, gain), xp + xg, d)
    BY <1>5, IsPlus
  <2>2. Is(Plus(Plus(p, gain), b1), xp + xg + xb1, d)
    BY <1>5, <2>1, IsPlus
  <2> QED BY <1>5, <2>2, IsPlus
<1>10. PICK y \in Int : y = xp + xb + xi /\ Is(cs, y, d)
  BY <1>6
<1>11. Is(Minus(Minus(cs, v), c), (y - xv) - xc, d)
  <2>1. Is(Minus(cs, v), y - xv, d)
    BY <1>5, <1>10, IsPlus
  <2> QED BY <1>5, <2>1, IsPlus
<1>12. xp + xg + xb1 + xi = (y - xv) - xc
  BY <1>7, <1>8, <1>10
<1>13. Plus(Plus(Plus(p, gain), b1), i) = Minus(Minus(cs, v), c)
  BY <1>9, <1>11, <1>12, IsEqual1
<1> QED BY <1>01, <1>13

(* What is gained is not paid in.                                          *)
LEMMA Earned ==
  ASSUME NEW p \in Number, NEW b \in Number, NEW i \in Number, NEW v \in Number
  PROVE  Plus(p, Plus(b, v)) = Minus(Plus(Plus(Plus(p, b), i), v), i)
<1>1. PICK xp \in Int, xb \in Int, xi \in Int, xv \in Int, d \in Nat \ {0} :
        Is(p, xp, d) /\ Is(b, xb, d) /\ Is(i, xi, d) /\ Is(v, xv, d)
  BY FourNumbers
<1>2. Is(Plus(p, Plus(b, v)), xp + (xb + xv), d)
  <2>1. Is(Plus(b, v), xb + xv, d)
    BY <1>1, IsPlus
  <2> QED BY <1>1, <2>1, IsPlus
<1>3. Is(Minus(Plus(Plus(Plus(p, b), i), v), i), xp + xb + xi + xv - xi, d)
  <2>1. Is(Plus(p, b), xp + xb, d)
    BY <1>1, IsPlus
  <2>2. Is(Plus(Plus(p, b), i), xp + xb + xi, d)
    BY <1>1, <2>1, IsPlus
  <2>3. Is(Plus(Plus(Plus(p, b), i), v), xp + xb + xi + xv, d)
    BY <1>1, <2>2, IsPlus
  <2> QED BY <1>1, <2>3, IsPlus
<1>4. xp + (xb + xv) = xp + xb + xi + xv - xi
  OBVIOUS
<1> QED BY <1>2, <1>3, <1>4, IsEqual1

(* What a position is worth at a price.                                    *)
LEMMA PnLIs ==
  ASSUME NEW t \in Tracker, NEW price \in Number, price # Zero
  PROVE  /\ PnL(t, price) = Plus(Book(t), Times(price, Q(t.position)))
         /\ Book(t) \in Number /\ Times(price, Q(t.position)) \in Number
<1>1. t.avgPrice \in Number /\ t.pnl \in Number /\ t.commissions \in Number /\ t.position \in Int
  BY DEF Tracker
<1>2. PICK g \in Int, avg \in Int, com \in Int, x \in Int, d \in Nat \ {0} :
        Is(t.pnl, g, d) /\ Is(t.avgPrice, avg, d) /\ Is(t.commissions, com, d) /\ Is(price, x, d)
  <2>1. PICK p \in Number, a \in Number, c \in Number : p = t.pnl /\ a = t.avgPrice /\ c = t.commissions
    BY <1>1
  <2>2. \E g, avg, com, x \in Int, d \in Nat \ {0} : Is(p, g, d) /\ Is(a, avg, d) /\ Is(c, com, d) /\ Is(price, x, d)
    BY ONLY price \in Number, p \in Number, a \in Number, c \in Number, FourNumbers
  <2> QED BY ONLY <2>1, <2>2
<1>3. Is(Minus(price, t.avgPrice), x - avg, d)
  BY <1>2, IsPlus
<1>4. /\ Is(Times(Minus(price, t.avgPrice), Q(t.position)), (x - avg) * t.position, d)
      /\ Is(Times(t.avgPrice, Q(t.position)), avg * t.position, d)
      /\ Is(Times(price, Q(t.position)), x * t.position, d)
  BY <1>1, <1>2, <1>3, IsTimesQ
<1>5. PnL(t, price) = Minus(Plus(t.pnl, Times(Minus(price, t.avgPrice), Q(t.position))), t.commissions)
  BY DEF PnL
<1>6. Is(PnL(t, price), (g + (x - avg) * t.position) - com, d)
  <2>1. Is(Plus(t.pnl, Times(Minus(price, t.avgPrice), Q(t.position))), g + (x - avg) * t.position, d)
    BY <1>2, <1>4, IsPlus
  <2> QED BY <1>2, <1>5, <2>1, IsPlus
<1>7. Is(Book(t), g - avg * t.position - com, d)
  BY <1>2, <1>4, BookIs
<1>8. Is(Plus(Book(t), Times(price, Q(t.position))), (g - avg * t.position - com) + x * t.position, d)
  BY <1>4, <1>7, IsPlus
<1>9. (g + (x - avg) * t.position) - com = (g - avg * t.position - com) + x * t.position
  BY <1>1
<1>10. PnL(t, price) = Plus(Book(t), Times(price, Q(t.position)))
  BY <1>6, <1>8, <1>9, IsEqual1
<1> QED BY <1>4, <1>7, <1>10 DEF Is

-----------------------------------------------------------------------------
(* The books of the trackers                                               *)
Books(trackers) == [i \in Traded |-> Book(trackers[i])]
Values(prices, held) == [i \in Traded |-> Times(prices[i], Q(held[i]))]
Profits(ts) == Total([k \in DOMAIN ts |-> ts[k].profit])

BooksTypeOK ==
  /\ bars \in Nat
  /\ close \in [Traded -> Number] /\ (bars > 0 => \A i \in Traded : close[i] # Zero)
  /\ cash \in Number /\ shares \in [Traded -> Int]
  /\ posTrackers \in [Traded -> Tracker] /\ positions \in [Traded -> Tracker]
  /\ trades \in Seq(TradeOf)

Tracked(trackers, held) == \A i \in Traded : trackers[i].position = held[i]
Balanced(profits, trackers, money) ==
  Plus(Plus(profits, SumOver(Books(trackers))), Q(InitialCash)) = money

BooksInv ==
  /\ BooksTypeOK
  /\ Tracked(posTrackers, shares) /\ Tracked(positions, shares)
  /\ Balanced(Profits(trades), posTrackers, cash) /\ Balanced(Zero, positions, cash)

LEMMA CashIs == Q(InitialCash) \in Number /\ InitialCash \in Nat \ {0} /\ Zero \in Number
BY AnalyzersAssumption, IsQ DEF Zero

LEMMA ProfitsIs ==
  ASSUME NEW ts \in Seq(TradeOf)
  PROVE  /\ [k \in DOMAIN ts |-> ts[k].profit] \in Seq(Number)
         /\ Len([k \in DOMAIN ts |-> ts[k].profit]) = Len(ts)
         /\ Profits(ts) \in Number
<1>1. PICK n \in Nat : n = Len(ts) /\ DOMAIN ts = 1 .. n
  BY LenProperties
<1>2. \A k \in 1 .. n : ts[k].profit \in Number
  <2>1. \A k \in 1 .. n : ts[k] \in TradeOf
    BY <1>1, ElementOfSeq
  <2> QED BY <2>1 DEF TradeOf
<1>3. PICK s : s = [k \in 1 .. n |-> ts[k].profit]
  OBVIOUS
<1>4. s \in [1 .. n -> Number]
  BY <1>2, <1>3
<1>5. s \in Seq(Number) /\ Len(s) = n
  BY <1>4, SeqDef, LenProperties
<1> QED BY <1>1, <1>3, <1>5, TotalIs DEF Profits

LEMMA ProfitsGained ==
  ASSUME NEW ts \in Seq(TradeOf), NEW ended, NEW gain \in Number, Gained(ended, gain)
  PROVE  ts \o ended \in Seq(TradeOf) /\ Profits(ts \o ended) = Plus(Profits(ts), gain)
<1>1. CASE ended = << >> /\ gain = Zero
  <2>1. ts \o << >> = ts
    BY ConcatEmptySeq
  <2>2. Plus(Profits(ts), Zero) = Profits(ts)
    BY ProfitsIs, ZeroPlus
  <2> QED BY <1>1, <2>1, <2>2
<1>2. ASSUME NEW trade \in TradeOf, ended = <<trade>>, trade.profit = gain
      PROVE  ts \o ended \in Seq(TradeOf) /\ Profits(ts \o ended) = Plus(Profits(ts), gain)
  <2>1. ts \o ended = Append(ts, trade)
    BY <1>2
  <2>2. PICK n \in Nat : n = Len(ts) /\ DOMAIN ts = 1 .. n
    BY LenProperties
  <2>3. PICK us \in Seq(TradeOf) : us = Append(ts, trade) /\ Len(us) = n + 1 /\ us[n + 1] = trade
          /\ (\A k \in 1 .. n : us[k] = ts[k]) /\ DOMAIN us = 1 .. n + 1
    <3>1. Append(ts, trade) \in Seq(TradeOf) /\ Len(Append(ts, trade)) = Len(ts) + 1
          /\ Append(ts, trade)[Len(ts) + 1] = trade /\ \A k \in 1 .. Len(ts) : Append(ts, trade)[k] = ts[k]
      BY AppendProperties
    <3> QED BY <2>2, <3>1, LenProperties
  <2>4. PICK s \in Seq(Number) : s = [k \in DOMAIN ts |-> ts[k].profit] /\ Len(s) = n /\ Profits(ts) = Total(s)
    BY <2>2, ProfitsIs DEF Profits
  <2>5. PICK t \in Seq(Number) : t = [k \in DOMAIN us |-> us[k].profit] /\ Len(t) = n + 1 /\ Profits(us) = Total(t)
    BY <2>3, ProfitsIs DEF Profits
  <2>6. PICK r \in Seq(Number) : r = Append(s, gain) /\ Len(r) = n + 1 /\ r[n + 1] = gain
          /\ (\A k \in 1 .. n : r[k] = s[k])
    <3>1. Append(s, gain) \in Seq(Number) /\ Len(Append(s, gain)) = Len(s) + 1
          /\ Append(s, gain)[Len(s) + 1] = gain /\ \A k \in 1 .. Len(s) : Append(s, gain)[k] = s[k]
      BY AppendProperties
    <3> QED BY <2>4, <3>1
  <2>7. \A k \in 1 .. n + 1 : t[k] = r[k]
    <3>1. t[n + 1] = gain
      BY <1>2, <2>3, <2>5
    <3>2. \A k \in 1 .. n : k \in 1 .. n + 1 /\ t[k] = s[k]
      BY <2>2, <2>3, <2>4, <2>5
    <3>3. \A k \in 1 .. n + 1 : k = n + 1 \/ k \in 1 .. n
      OBVIOUS
    <3> QED BY <2>6, <3>1, <3>2, <3>3
  <2>8. t = r
    BY <2>5, <2>6, <2>7, SeqEqual
  <2>9. Total(r) = Plus(Total(s), gain)
    BY <2>6, TotalAppend
  <2> QED BY <2>1, <2>3, <2>4, <2>5, <2>8, <2>9
<1> QED BY <1>1, <1>2 DEF Gained

LEMMA BooksAre ==
  ASSUME NEW t \in [Traded -> Tracker]
  PROVE  /\ \A i \in Traded : Books(t)[i] = Book(t[i]) /\ Books(t)[i] \in Number
         /\ SumOver(Books(t)) \in Number
<1>1. ASSUME NEW i \in Traded PROVE Books(t)[i] = Book(t[i]) /\ Books(t)[i] \in Number
  <2>1. One \in Number /\ One # Zero
    BY IsQ DEF One, Zero, Q
  <2>2. t[i] \in Tracker
    OBVIOUS
  <2>3. Book(t[i]) \in Number
    BY <2>1, <2>2, PnLIs
  <2> QED BY <2>3 DEF Books
<1> QED BY <1>1, SumOverIs

LEMMA ValuesAre ==
  ASSUME NEW c \in [Traded -> Number], NEW s \in [Traded -> Int]
  PROVE  /\ \A i \in Traded : Values(c, s)[i] = Times(c[i], Q(s[i])) /\ Values(c, s)[i] \in Number
         /\ SumOver(Values(c, s)) \in Number
<1>1. ASSUME NEW i \in Traded PROVE Values(c, s)[i] = Times(c[i], Q(s[i])) /\ Values(c, s)[i] \in Number
  <2>1. Q(s[i]) \in Number /\ c[i] \in Number
    BY IsQ
  <2>2. Times(c[i], Q(s[i])) \in Number
    BY <2>1, Numbers
  <2> QED BY <2>2 DEF Values
<1> QED BY <1>1, SumOverIs

(* A tracker of the executions, after one of them.                         *)
LEMMA TrackersMoved ==
  ASSUME NEW t \in [Traded -> Tracker], NEW s \in [Traded -> Int], Tracked(t, s),
         NEW i \in Traded, NEW new \in Tracker, NEW q \in Int, new.position = t[i].position + q,
         NEW p \in Number, NEW c \in Number, NEW gain \in Number, NEW profits \in Number,
         NEW money \in Number, Balanced(profits, t, money),
         Book(new) \in Number, Plus(Plus(Book(new), gain), Cost(q, p, c)) = Book(t[i])
  PROVE  /\ [t EXCEPT ![i] = new] \in [Traded -> Tracker] /\ [s EXCEPT ![i] = @ + q] \in [Traded -> Int]
         /\ Tracked([t EXCEPT ![i] = new], [s EXCEPT ![i] = @ + q])
         /\ Balanced(Plus(profits, gain), [t EXCEPT ![i] = new], Minus(Minus(money, Times(p, Q(q))), c))
<1>1. PICK t1 \in [Traded -> Tracker] : t1 = [t EXCEPT ![i] = new]
  OBVIOUS
<1>2. PICK s1 \in [Traded -> Int] : s1 = [s EXCEPT ![i] = s[i] + q]
  <2>1. s[i] + q \in Int
    OBVIOUS
  <2> QED BY <2>1
<1>3. t1[i] = new /\ \A j \in Traded : j # i => t1[j] = t[j]
  BY <1>1
<1>4. s1[i] = s[i] + q /\ \A j \in Traded : j # i => s1[j] = s[j]
  BY <1>2
<1>5. Tracked(t1, s1)
  BY <1>3, <1>4 DEF Tracked
<1>6. PICK b : b = Books(t) /\ (\A j \in Traded : b[j] = Book(t[j]) /\ b[j] \in Number) /\ SumOver(b) \in Number
  BY BooksAre
<1>7. PICK b1 : b1 = Books(t1) /\ (\A j \in Traded : b1[j] = Book(t1[j]) /\ b1[j] \in Number) /\ SumOver(b1) \in Number
  BY BooksAre
<1>8. Plus(SumOver(b1), b[i]) = Plus(SumOver(b), b1[i])
  <2>1. \A j \in Traded : j # i => b1[j] = b[j]
    BY <1>3, <1>6, <1>7
  <2>2. (\A j \in Traded : b[j] \in Number) /\ (\A j \in Traded : b1[j] \in Number)
    BY <1>6, <1>7
  <2> QED BY <2>1, <2>2, SumOverChanged
<1>9. b[i] = Book(t[i]) /\ b1[i] = Book(new)
  BY <1>3, <1>6, <1>7
<1>10. PICK v \in Number : v = Times(p, Q(q))
  <2>1. Q(q) \in Number
    BY IsQ
  <2> QED BY <2>1, Numbers
<1>11. Plus(Plus(profits, SumOver(b)), Q(InitialCash)) = money
  BY <1>6 DEF Balanced
<1>12. Plus(Plus(Book(new), gain), Plus(v, c)) = Book(t[i])
  BY <1>10 DEF Cost
<1>13. Plus(Plus(Plus(profits, gain), SumOver(b1)), Q(InitialCash)) = Minus(Minus(money, v), c)
  <2>1. PICK old \in Number, bn \in Number, sb \in Number, sb1 \in Number, ic \in Number :
          /\ old = Book(t[i]) /\ bn = Book(new) /\ sb = SumOver(b) /\ sb1 = SumOver(b1) /\ ic = Q(InitialCash)
    BY <1>6, <1>7, <1>9, CashIs
  <2>2. Plus(sb1, Plus(Plus(bn, gain), Plus(v, c))) = Plus(sb, bn)
    BY <1>8, <1>9, <1>12, <2>1
  <2>3. Plus(Plus(Plus(profits, gain), sb1), ic) = Minus(Minus(Plus(Plus(profits, sb), ic), v), c)
    <3>1. Settling(profits, sb, ic, sb1, bn, gain, v, c)
      BY <2>2 DEF Settling
    <3> QED BY <3>1, Settled
  <2>4. Plus(Plus(Plus(profits, gain), sb1), ic) = Minus(Minus(money, v), c)
    BY <1>11, <2>1, <2>3
  <2> QED BY <2>1, <2>4
<1>14. Balanced(Plus(profits, gain), t1, Minus(Minus(money, v), c))
  BY <1>7, <1>13 DEF Balanced
<1> QED BY <1>1, <1>2, <1>5, <1>10, <1>14

LEMMA BooksStart == AnalyzersInit => BooksInv
<1> SUFFICES ASSUME AnalyzersInit PROVE BooksInv
  OBVIOUS
<1>1. NewTracker \in Tracker /\ Book(NewTracker) = Zero /\ NewTracker.position = 0
  BY NewTrackerIs DEF NewTracker
<1>2. /\ bars = 0 /\ close = [i \in Traded |-> Zero] /\ cash = Q(InitialCash)
      /\ shares = [i \in Traded |-> 0] /\ trades = << >>
      /\ posTrackers = [i \in Traded |-> NewTracker] /\ positions = [i \in Traded |-> NewTracker]
  BY DEF AnalyzersInit
<1>3. BooksTypeOK
  BY <1>1, <1>2, CashIs DEF BooksTypeOK
<1>4. Tracked(posTrackers, shares) /\ Tracked(positions, shares)
  BY <1>1, <1>2 DEF Tracked
<1>5. SumOver(Books(positions)) = Zero
  <2>1. \A i \in Traded : Books(positions)[i] = Zero
    BY <1>1, <1>2 DEF Books
  <2> QED BY <2>1, SumOverZeros
<1>6. Balanced(Zero, positions, cash)
  BY <1>2, <1>5, CashIs, ZeroPlus DEF Balanced
<1>7. Profits(trades) = Zero
  <2>1. [k \in DOMAIN << >> |-> << >>[k].profit] = << >>
    OBVIOUS
  <2> QED BY <1>2, <2>1, TotalOfNone DEF Profits
<1>8. Balanced(Profits(trades), posTrackers, cash)
  BY <1>2, <1>6, <1>7
<1> QED BY <1>3, <1>4, <1>6, <1>8 DEF BooksInv

LEMMA BooksKept == BooksInv /\ [AnalyzersNext]_analyzersVars => BooksInv'
<1> SUFFICES ASSUME BooksInv, [AnalyzersNext]_analyzersVars PROVE BooksInv'
  OBVIOUS
<1> USE DEF BooksInv
<1>1. CASE NextBars
  <2>1. /\ bars' = bars + 1 /\ close' \in [Traded -> Prices]
        /\ UNCHANGED <<cash, shares, posTrackers, positions, trades>>
    BY <1>1 DEF NextBars
  <2>2. \A i \in Traded : close'[i] \in Number /\ close'[i] # Zero
    <3>1. \A price \in Prices : price \in Number /\ price # Zero
      BY AnalyzersAssumption
    <3> QED BY <2>1, <3>1
  <2>3. close' \in [Traded -> Number]
    BY <2>1, <2>2
  <2>4. BooksTypeOK'
    BY <2>1, <2>2, <2>3 DEF BooksTypeOK
  <2> QED BY <2>1, <2>4
<1>2. CASE Fill
  <2>1. PICK i \in Traded, f \in Fills :
          LET e == Executed(posTrackers[i], f.quantity, f.price, f.commission) IN
          /\ cash' = Minus(Minus(cash, Times(f.price, Q(f.quantity))), f.commission)
          /\ shares' = [shares EXCEPT ![i] = @ + f.quantity]
          /\ posTrackers' = [posTrackers EXCEPT ![i] = e.tracker]
          /\ positions' = [positions EXCEPT ![i] = Update(@, f.quantity, f.price, f.commission)]
          /\ trades' = trades \o e.trades
          /\ UNCHANGED <<bars, close>>
    BY <1>2 DEF Fill, analyses
  <2>2. PICK q \in Int, p \in Number, c \in Number :
          q = f.quantity /\ p = f.price /\ c = f.commission /\ q # 0
    BY AnalyzersAssumption
  <2>3. PICK e : e = Executed(posTrackers[i], q, p, c)
    OBVIOUS
  <2>4. PICK new : new = Update(positions[i], q, p, c)
    OBVIOUS
  <2>5. /\ cash' = Minus(Minus(cash, Times(p, Q(q))), c)
        /\ shares' = [shares EXCEPT ![i] = @ + q]
        /\ posTrackers' = [posTrackers EXCEPT ![i] = e.tracker]
        /\ positions' = [positions EXCEPT ![i] = new]
        /\ trades' = trades \o e.trades
        /\ UNCHANGED <<bars, close>>
    BY <2>1, <2>2, <2>3, <2>4
  <2>6. /\ posTrackers \in [Traded -> Tracker] /\ positions \in [Traded -> Tracker]
        /\ posTrackers[i] \in Tracker /\ positions[i] \in Tracker /\ cash \in Number
        /\ shares \in [Traded -> Int] /\ trades \in Seq(TradeOf)
    BY DEF BooksTypeOK
  <2>7. /\ e.tracker \in Tracker /\ e.tracker.position = posTrackers[i].position + q
        /\ Book(e.tracker) \in Number /\ Settles(e, Book(posTrackers[i]), q, p, c)
    <3>1. PICK t \in Tracker : t = posTrackers[i]
      BY <2>6
    <3>2. e = Executed(t, q, p, c)
      BY <2>3, <3>1
    <3>3. MovedBy(e.tracker, t, q) /\ Book(e.tracker) \in Number /\ Settles(e, Book(t), q, p, c)
      BY <2>2, <3>2, ExecutedIs
    <3> QED BY <3>1, <3>3 DEF MovedBy
  <2>8. PICK gain \in Number : /\ Gained(e.trades, gain)
                               /\ Plus(Plus(Book(e.tracker), gain), Cost(q, p, c)) = Book(posTrackers[i])
    BY <2>7 DEF Settles
  <2>9. trades' \in Seq(TradeOf) /\ Profits(trades') = Plus(Profits(trades), gain)
    BY <2>5, <2>6, <2>8, ProfitsGained
  <2>10. Profits(trades) \in Number
    BY <2>6, ProfitsIs
  <2>11. /\ posTrackers' \in [Traded -> Tracker] /\ shares' \in [Traded -> Int]
         /\ Tracked(posTrackers', shares') /\ Balanced(Profits(trades'), posTrackers', cash')
    <3>1. PICK tracker \in Tracker : tracker = e.tracker
      BY <2>7
    <3>2. /\ [posTrackers EXCEPT ![i] = tracker] \in [Traded -> Tracker] /\ [shares EXCEPT ![i] = @ + q] \in [Traded -> Int]
          /\ Tracked([posTrackers EXCEPT ![i] = tracker], [shares EXCEPT ![i] = @ + q])
          /\ Balanced(Plus(Profits(trades), gain), [posTrackers EXCEPT ![i] = tracker], Minus(Minus(cash, Times(p, Q(q))), c))
      BY <2>6, <2>7, <2>8, <2>10, <3>1, TrackersMoved
    <3> QED BY <2>5, <2>9, <3>1, <3>2
  <2>12. positions' \in [Traded -> Tracker] /\ Tracked(positions', shares') /\ Balanced(Zero, positions', cash')
    <3>1. /\ new \in Tracker /\ new.position = positions[i].position + q /\ Book(new) \in Number
          /\ Plus(Book(new), Cost(q, p, c)) = Book(positions[i])
      BY <2>2, <2>4, <2>6, Updated
    <3>2. Plus(Plus(Book(new), Zero), Cost(q, p, c)) = Book(positions[i]) /\ Zero \in Number
      BY <3>1, ZeroPlus, CashIs
    <3>3. /\ [positions EXCEPT ![i] = new] \in [Traded -> Tracker]
          /\ Tracked([positions EXCEPT ![i] = new], [shares EXCEPT ![i] = @ + q])
          /\ Balanced(Plus(Zero, Zero), [positions EXCEPT ![i] = new], Minus(Minus(cash, Times(p, Q(q))), c))
      BY <2>6, <3>1, <3>2, TrackersMoved
    <3>4. Plus(Zero, Zero) = Zero
      BY CashIs, ZeroPlus
    <3> QED BY <2>5, <3>3, <3>4
  <2>13. cash' \in Number
    <3>1. Q(q) \in Number
      BY IsQ
    <3>2. Times(p, Q(q)) \in Number
      BY <3>1, Numbers
    <3>3. Minus(cash, Times(p, Q(q))) \in Number
      BY <2>6, <3>2, Numbers
    <3> QED BY <2>5, <3>3, Numbers
  <2>14. BooksTypeOK'
    BY <2>5, <2>9, <2>11, <2>12, <2>13 DEF BooksTypeOK
  <2> QED BY <2>11, <2>12, <2>14
<1>3. CASE BeforeOnBars
  <2>1. UNCHANGED <<bars, close, cash, shares, posTrackers, positions, trades>>
    BY <1>3 DEF BeforeOnBars
  <2> QED BY <2>1 DEF BooksTypeOK
<1>4. CASE UNCHANGED analyzersVars
  BY <1>4 DEF analyzersVars, BooksTypeOK
<1> QED BY <1>1, <1>2, <1>3, <1>4 DEF AnalyzersNext

-----------------------------------------------------------------------------
(* The open positions, at a price.                                         *)
LEMMA Worth ==
  ASSUME NEW t \in [Traded -> Tracker], NEW s \in [Traded -> Int], Tracked(t, s),
         NEW c \in [Traded -> Number], \A i \in Traded : c[i] # Zero
  PROVE  /\ SumOver([i \in Traded |-> PnL(t[i], c[i])]) = Plus(SumOver(Books(t)), SumOver(Values(c, s)))
         /\ SumOver(Books(t)) \in Number /\ SumOver(Values(c, s)) \in Number
<1>1. PICK a : a = Books(t) /\ (\A i \in Traded : a[i] = Book(t[i]) /\ a[i] \in Number) /\ SumOver(a) \in Number
  BY BooksAre
<1>2. PICK b : b = Values(c, s) /\ (\A i \in Traded : b[i] = Times(c[i], Q(s[i])) /\ b[i] \in Number) /\ SumOver(b) \in Number
  BY ValuesAre
<1>3. PICK u : u = [i \in Traded |-> PnL(t[i], c[i])]
  OBVIOUS
<1>4. ASSUME NEW i \in Traded PROVE u[i] = Plus(a[i], b[i])
  <2>1. t[i] \in Tracker /\ c[i] \in Number /\ c[i] # Zero
    OBVIOUS
  <2>2. PnL(t[i], c[i]) = Plus(Book(t[i]), Times(c[i], Q(t[i].position)))
    BY <2>1, PnLIs
  <2>3. t[i].position = s[i]
    BY DEF Tracked
  <2> QED BY <1>1, <1>2, <1>3, <2>2, <2>3
<1>5. SumOver(u) = Plus(SumOver(a), SumOver(b))
  <2>1. (\A i \in Traded : a[i] \in Number) /\ (\A i \in Traded : b[i] \in Number)
    BY <1>1, <1>2
  <2> QED BY <1>4, <2>1, SumOverSums
<1> QED BY <1>1, <1>2, <1>3, <1>5

LEMMA SumsAre ==
  /\ SumOver([i \in Traded |-> PnL(posTrackers[i], close[i])])
       = LET is == SetToSeq(Traded) IN Total([k \in DOMAIN is |-> PnL(posTrackers[is[k]], close[is[k]])])
  /\ SumOver([i \in Traded |-> PnL(positions[i], close[i])])
       = LET is == SetToSeq(Traded) IN Total([k \in DOMAIN is |-> PnL(positions[is[k]], close[is[k]])])
  /\ Equity(close) = Plus(cash, SumOver(Values(close, shares)))
<1>1. \A k \in DOMAIN Held : Held[k] \in Traded
  BY HeldIs, ElementOfSeq
<1>2. [k \in DOMAIN Held |-> [i \in Traded |-> PnL(posTrackers[i], close[i])][Held[k]]]
      = [k \in DOMAIN Held |-> PnL(posTrackers[Held[k]], close[Held[k]])]
  BY <1>1
<1>3. [k \in DOMAIN Held |-> [i \in Traded |-> PnL(positions[i], close[i])][Held[k]]]
      = [k \in DOMAIN Held |-> PnL(positions[Held[k]], close[Held[k]])]
  BY <1>1
<1>4. [k \in DOMAIN Held |-> Values(close, shares)[Held[k]]]
      = [k \in DOMAIN Held |-> Times(close[Held[k]], Q(shares[Held[k]]))]
  BY <1>1 DEF Values
<1> QED BY <1>2, <1>3, <1>4 DEF SumOver, Equity, Held

LEMMA TradesAddUpHolds == BooksInv => TradesAddUp
<1> SUFFICES ASSUME BooksInv, bars > 0
             PROVE  /\ Plus(Profits(trades), SumOver([i \in Traded |-> PnL(posTrackers[i], close[i])]))
                         = Minus(Equity(close), Q(InitialCash))
                    /\ SumOver([i \in Traded |-> PnL(positions[i], close[i])])
                         = Minus(Equity(close), Q(InitialCash))
                    /\ \A i \in Traded : posTrackers[i].position = shares[i] /\ positions[i].position = shares[i]
  BY SumsAre, Zenon DEF TradesAddUp, Profits
<1>1. /\ close \in [Traded -> Number] /\ (\A i \in Traded : close[i] # Zero)
      /\ cash \in Number /\ shares \in [Traded -> Int]
      /\ posTrackers \in [Traded -> Tracker] /\ positions \in [Traded -> Tracker]
      /\ Profits(trades) \in Number
      /\ Tracked(posTrackers, shares) /\ Tracked(positions, shares)
      /\ Balanced(Profits(trades), posTrackers, cash) /\ Balanced(Zero, positions, cash)
  BY ProfitsIs DEF BooksInv, BooksTypeOK
<1>2. PICK v \in Number : v = SumOver(Values(close, shares)) /\ Equity(close) = Plus(cash, v)
  BY <1>1, ValuesAre, SumsAre
<1>3. PICK i \in Number : i = Q(InitialCash)
  BY CashIs
<1>4. ASSUME NEW t \in [Traded -> Tracker], NEW p \in Number, Tracked(t, shares), Balanced(p, t, cash)
      PROVE  /\ Plus(p, SumOver([j \in Traded |-> PnL(t[j], close[j])])) = Minus(Equity(close), i)
             /\ SumOver([j \in Traded |-> PnL(t[j], close[j])]) \in Number
  <2>1. PICK b \in Number : b = SumOver(Books(t)) /\ SumOver([j \in Traded |-> PnL(t[j], close[j])]) = Plus(b, v)
    BY <1>1, <1>2, <1>4, Worth
  <2>2. Plus(Plus(p, b), i) = cash
    BY <1>3, <1>4, <2>1 DEF Balanced
  <2>3. Plus(p, Plus(b, v)) = Minus(Plus(Plus(Plus(p, b), i), v), i)
    BY Earned
  <2>4. Plus(b, v) \in Number
    BY Numbers
  <2> QED BY <1>2, <2>1, <2>2, <2>3, <2>4
<1>5. Plus(Profits(trades), SumOver([j \in Traded |-> PnL(posTrackers[j], close[j])])) = Minus(Equity(close), i)
  BY <1>1, <1>4
<1>6. SumOver([j \in Traded |-> PnL(positions[j], close[j])]) = Minus(Equity(close), i)
  <2>1. /\ Plus(Zero, SumOver([j \in Traded |-> PnL(positions[j], close[j])])) = Minus(Equity(close), i)
        /\ SumOver([j \in Traded |-> PnL(positions[j], close[j])]) \in Number
    BY <1>1, <1>4, CashIs
  <2> QED BY <2>1, ZeroPlus
<1> QED BY <1>1, <1>3, <1>5, <1>6 DEF Tracked

-----------------------------------------------------------------------------
(* Products of a sequence.                                                 *)
(* Products of sequences of numbers.                                           *)
PartialProducts(f, s) ==
  /\ f \in [0 .. Len(s) -> Number] /\ f[0] = One
  /\ \A k \in 1 .. Len(s) : f[k] = Times(f[k - 1], s[k])

ProductsFrom(f, s, n) == f = [k \in 0 .. n |-> IF k = 0 THEN One ELSE Times(f[k - 1], s[k])]

LEMMA ProductsExist ==
  ASSUME NEW s \in Seq(Number)
  PROVE  \E f \in [0 .. Len(s) -> Number] : ProductsFrom(f, s, Len(s))
<1>1. PICK m \in Nat : m = Len(s)
  BY LenProperties
<1> DEFINE B == {j \in 0 .. m : ~ \E f \in [0 .. j -> Number] : ProductsFrom(f, s, j)}
<1>2. SUFFICES ASSUME B # {} PROVE FALSE
  BY <1>1
<1>3. PICK j \in B : \A k \in B : j <= k
  <2>1. B \in SUBSET Nat
    OBVIOUS
  <2> HIDE DEF B
  <2> QED BY <1>2, <2>1, LeastNatural
<1>4. j \in 0 .. m /\ ~ \E f \in [0 .. j -> Number] : ProductsFrom(f, s, j)
  OBVIOUS
<1>5. CASE j = 0
  <2>1. PICK f \in [0 .. 0 -> Number] : f = [k \in 0 .. 0 |-> One]
    <3>1. One \in Number
      BY IsQ DEF One
    <3> QED BY <3>1
  <2>2. [k \in 0 .. 0 |-> IF k = 0 THEN One ELSE Times(f[k - 1], s[k])] = [k \in 0 .. 0 |-> One]
    OBVIOUS
  <2>3. ProductsFrom(f, s, 0)
    BY <2>1, <2>2 DEF ProductsFrom
  <2> QED BY <1>4, <1>5, <2>3
<1>6. CASE j # 0
  <2>1. PICK i \in Nat : j = i + 1 /\ i \in 0 .. m
    <3>1. j - 1 \in Nat /\ j = (j - 1) + 1 /\ j - 1 \in 0 .. m
      BY <1>4, <1>6
    <3> QED BY <3>1
  <2>2. PICK f \in [0 .. i -> Number] : ProductsFrom(f, s, i)
    <3>1. i \notin B
      BY <1>3, <2>1
    <3> QED BY <2>1, <3>1
  <2>3. PICK e \in Number : e = Times(f[i], s[j])
    <3>1. f[i] \in Number
      OBVIOUS
    <3>2. s[j] \in Number
      BY <1>1, <1>4, <1>6, ElementOfSeq
    <3> QED BY <3>1, <3>2, Numbers
  <2>4. PICK g : g = [k \in 0 .. j |-> IF k = j THEN e ELSE f[k]]
    OBVIOUS
  <2>5. /\ \A k \in 0 .. i : k \in 0 .. j /\ k # j /\ g[k] = f[k]
        /\ g[j] = e /\ j - 1 = i /\ j \in 0 .. j
    BY <2>1, <2>4
  <2>6. g \in [0 .. j -> Number]
    <3>1. \A k \in 0 .. j : k # j => k \in 0 .. i
      BY <2>1
    <3> QED BY <2>4, <3>1
  <2>7. ASSUME NEW k \in 0 .. j
        PROVE  g[k] = IF k = 0 THEN One ELSE Times(g[k - 1], s[k])
    <3>1. CASE k = j
      <4>1. g[k - 1] = f[i]
        BY <2>5, <3>1
      <4> QED BY <1>6, <2>3, <2>5, <3>1, <4>1
    <3>2. CASE k # j
      <4>1. k \in 0 .. i
        BY <2>1, <3>2
      <4>2. g[k] = f[k]
        BY <2>5, <4>1
      <4>3. f[k] = IF k = 0 THEN One ELSE Times(f[k - 1], s[k])
        BY <2>2, <4>1 DEF ProductsFrom
      <4>4. k # 0 => g[k - 1] = f[k - 1]
        BY <2>5, <4>1
      <4> QED BY <4>2, <4>3, <4>4
    <3> QED BY <3>1, <3>2
  <2>8. g = [k \in 0 .. j |-> g[k]]
    BY <2>4
  <2>9. ProductsFrom(g, s, j)
    BY <2>7, <2>8, Zenon DEF ProductsFrom
  <2> QED BY <1>4, <2>6, <2>9
<1> QED BY <1>5, <1>6

LEMMA ProductIs ==
  ASSUME NEW s \in Seq(Number)
  PROVE  /\ Product(s) \in Number
         /\ \E f : PartialProducts(f, s) /\ Product(s) = f[Len(s)]
<1>1. PICK m \in Nat : m = Len(s)
  BY LenProperties
<1>2. PICK g : g = CHOOSE f : ProductsFrom(f, s, m)
  OBVIOUS
<1>3. Product(s) = g[m]
  BY <1>1, <1>2 DEF Product, ProductsFrom
<1>4. ProductsFrom(g, s, m)
  BY <1>1, <1>2, ProductsExist
<1>5. g[0] = One
  BY <1>4 DEF ProductsFrom
<1>6. ASSUME NEW k \in 1 .. m PROVE g[k] = Times(g[k - 1], s[k])
  <2>1. k \in 0 .. m /\ k # 0
    OBVIOUS
  <2> QED BY <1>4, <2>1 DEF ProductsFrom
<1>7. \A k \in 0 .. m : g[k] \in Number
  <2> DEFINE B == {k \in 0 .. m : g[k] \notin Number}
  <2>1. SUFFICES ASSUME B # {} PROVE FALSE
    OBVIOUS
  <2>2. PICK j \in B : \A k \in B : j <= k
    <3>1. B \in SUBSET Nat
      OBVIOUS
    <3> HIDE DEF B
    <3> QED BY <2>1, <3>1, LeastNatural
  <2>3. j \in 0 .. m /\ g[j] \notin Number
    OBVIOUS
  <2>4. j # 0
    BY <1>5, <2>3, IsQ DEF One
  <2>5. j - 1 \in 0 .. m /\ ~(j <= j - 1)
    BY <2>3, <2>4
  <2>6. g[j - 1] \in Number
    BY <2>2, <2>5
  <2>7. s[j] \in Number
    BY <1>1, <2>3, <2>4, ElementOfSeq
  <2>8. g[j] = Times(g[j - 1], s[j])
    BY <1>6, <2>3, <2>4
  <2> QED BY <2>3, <2>6, <2>7, <2>8, Numbers
<1>8. g \in [0 .. m -> Number]
  <2>1. g = [k \in 0 .. m |-> g[k]]
    BY <1>4 DEF ProductsFrom
  <2> QED BY <1>7, <2>1
<1> QED BY <1>1, <1>3, <1>5, <1>6, <1>8 DEF PartialProducts

LEMMA ProductOfNone == Product(<< >>) = One
<1>1. << >> \in Seq(Number) /\ Len(<< >>) = 0
  OBVIOUS
<1>2. PICK f : PartialProducts(f, << >>) /\ Product(<< >>) = f[0]
  BY <1>1, ProductIs
<1> QED BY <1>2 DEF PartialProducts

LEMMA ProductAppend ==
  ASSUME NEW s \in Seq(Number), NEW x \in Number
  PROVE  Product(Append(s, x)) = Times(Product(s), x)
<1>1. PICK n \in Nat, t \in Seq(Number) : n = Len(s) /\ t = Append(s, x) /\ Len(t) = n + 1 /\ t[n + 1] = x
        /\ \A k \in 1 .. n : t[k] = s[k]
  <2>1. Len(s) \in Nat /\ Append(s, x) \in Seq(Number) /\ Len(Append(s, x)) = Len(s) + 1
        /\ Append(s, x)[Len(s) + 1] = x /\ \A k \in 1 .. Len(s) : Append(s, x)[k] = s[k]
    BY LenProperties, AppendProperties
  <2> QED BY <2>1
<1>2. PICK f : PartialProducts(f, s) /\ Product(s) = f[n]
  BY <1>1, ProductIs
<1>3. PICK g : PartialProducts(g, t) /\ Product(t) = g[n + 1]
  BY <1>1, ProductIs
<1> DEFINE B == {k \in 0 .. n : g[k] # f[k]}
<1>4. B = {}
  <2>1. SUFFICES ASSUME B # {} PROVE FALSE
    OBVIOUS
  <2>2. PICK j \in B : \A k \in B : j <= k
    <3>1. B \in SUBSET Nat
      OBVIOUS
    <3> HIDE DEF B
    <3> QED BY <2>1, <3>1, LeastNatural
  <2>3. j \in 0 .. n /\ g[j] # f[j]
    OBVIOUS
  <2>4. j # 0
    BY <1>2, <1>3, <2>3 DEF PartialProducts
  <2>5. j - 1 \in 0 .. n /\ ~(j <= j - 1) /\ j \in 1 .. n /\ j \in 1 .. n + 1
    BY <2>3, <2>4
  <2>6. g[j - 1] = f[j - 1]
    BY <2>2, <2>5
  <2>7. g[j] = Times(g[j - 1], t[j])
    BY <1>1, <1>3, <2>5 DEF PartialProducts
  <2>8. f[j] = Times(f[j - 1], s[j])
    BY <1>1, <1>2, <2>5 DEF PartialProducts
  <2> QED BY <1>1, <2>3, <2>5, <2>6, <2>7, <2>8
<1>5. g[n] = f[n]
  BY <1>4
<1>6. g[n + 1] = Times(g[(n + 1) - 1], t[n + 1])
  <2>1. n + 1 \in 1 .. Len(t)
    BY <1>1
  <2> QED BY <1>3, <2>1 DEF PartialProducts
<1>7. (n + 1) - 1 = n
  OBVIOUS
<1> QED BY <1>1, <1>2, <1>3, <1>5, <1>6, <1>7


-----------------------------------------------------------------------------
LEMMA FrontLast ==
  ASSUME NEW S, NEW s \in Seq(S), s # << >>
  PROVE  /\ Front(s) \in Seq(S) /\ Last(s) \in S /\ s = Append(Front(s), Last(s))
         /\ Len(s) = Len(Front(s)) + 1 /\ Last(s) = s[Len(s)]
<1>1. PICK n \in Nat : Len(s) = n + 1 /\ DOMAIN s = 1 .. n + 1
  <2>1. Len(s) \in Nat /\ Len(s) # 0 /\ DOMAIN s = 1 .. Len(s)
    BY LenProperties, EmptySeq
  <2>2. Len(s) - 1 \in Nat /\ Len(s) = (Len(s) - 1) + 1
    BY <2>1
  <2> QED BY <2>1, <2>2
<1>2. \A k \in 1 .. n + 1 : s[k] \in S
  BY <1>1, ElementOfSeq
<1>3. PICK f : f = Front(s) /\ f = [k \in 1 .. n |-> s[k]]
  <2>1. SubSeq(s, 1, n) = [k \in 1 .. n |-> s[k]]
    <3>1. SubSeq(s, 1, n) = [k \in 1 .. (n - 1 + 1) |-> s[k + 1 - 1]]
      OBVIOUS
    <3>2. n - 1 + 1 = n /\ \A k \in 1 .. n : k + 1 - 1 = k
      OBVIOUS
    <3> QED BY <3>1, <3>2
  <2>2. (n + 1) - 1 = n
    OBVIOUS
  <2> QED BY <1>1, <2>1, <2>2 DEF Front
<1>4. f \in Seq(S) /\ Len(f) = n
  <2>1. \A k \in 1 .. n : k \in 1 .. n + 1
    OBVIOUS
  <2>2. f \in [1 .. n -> S]
    BY <1>2, <1>3, <2>1
  <2> QED BY <2>2, SeqDef, LenProperties
<1>5. Last(s) = s[n + 1] /\ s[n + 1] \in S
  BY <1>1, <1>2 DEF Last
<1>6. PICK r \in Seq(S) : r = Append(f, Last(s)) /\ Len(r) = n + 1 /\ r[n + 1] = s[n + 1]
                          /\ \A k \in 1 .. n : r[k] = f[k]
  <2>1. Append(f, Last(s)) \in Seq(S) /\ Len(Append(f, Last(s))) = Len(f) + 1
        /\ Append(f, Last(s))[Len(f) + 1] = Last(s) /\ \A k \in 1 .. Len(f) : Append(f, Last(s))[k] = f[k]
    BY <1>4, <1>5, AppendProperties
  <2> QED BY <1>4, <1>5, <2>1
<1>7. \A k \in 1 .. n + 1 : s[k] = r[k]
  <2>1. \A k \in 1 .. n + 1 : k = n + 1 \/ k \in 1 .. n
    OBVIOUS
  <2> QED BY <1>3, <1>6, <2>1
<1>8. s = r
  BY <1>1, <1>6, <1>7, SeqEqual
<1> QED BY <1>1, <1>3, <1>4, <1>5, <1>6, <1>8

(* The factors that returns are.                                           *)
Factors(r) == [k \in DOMAIN r |-> Plus(One, r[k])]

LEMMA FactorsAre ==
  ASSUME NEW r \in Seq(Number)
  PROVE  Factors(r) \in Seq(Number) /\ Len(Factors(r)) = Len(r) /\ Product(Factors(r)) \in Number
         /\ \A k \in 1 .. Len(r) : Factors(r)[k] = Plus(One, r[k])
<1>1. PICK n \in Nat : n = Len(r) /\ DOMAIN r = 1 .. n
  BY LenProperties
<1>2. \A k \in 1 .. n : r[k] \in Number /\ Plus(One, r[k]) \in Number
  <2>1. \A k \in 1 .. n : r[k] \in Number
    BY <1>1, ElementOfSeq
  <2>2. One \in Number
    BY IsQ DEF One
  <2> QED BY <2>1, <2>2, Numbers
<1>3. Factors(r) \in [1 .. n -> Number] /\ \A k \in 1 .. n : Factors(r)[k] = Plus(One, r[k])
  BY <1>1, <1>2 DEF Factors
<1>4. Factors(r) \in Seq(Number) /\ Len(Factors(r)) = n
  BY <1>3, SeqDef, LenProperties
<1> QED BY <1>1, <1>3, <1>4, ProductIs

LEMMA FactorsAppend ==
  ASSUME NEW r \in Seq(Number), NEW x \in Number
  PROVE  Product(Factors(Append(r, x))) = Times(Product(Factors(r)), Plus(One, x))
<1>1. PICK n \in Nat, f \in Seq(Number) : n = Len(r) /\ f = Factors(r) /\ Len(f) = n
        /\ \A k \in 1 .. n : f[k] = Plus(One, r[k])
  BY FactorsAre, LenProperties
<1>2. PICK y \in Number : y = Plus(One, x)
  BY Numbers, IsQ DEF One
<1>3. PICK g \in Seq(Number) : g = Append(f, y) /\ Len(g) = n + 1 /\ g[n + 1] = y /\ \A k \in 1 .. n : g[k] = f[k]
  <2>1. Append(f, y) \in Seq(Number) /\ Len(Append(f, y)) = Len(f) + 1
        /\ Append(f, y)[Len(f) + 1] = y /\ \A k \in 1 .. Len(f) : Append(f, y)[k] = f[k]
    BY <1>1, AppendProperties
  <2> QED BY <1>1, <2>1
<1>4. PICK s \in Seq(Number) : s = Append(r, x) /\ Len(s) = n + 1 /\ s[n + 1] = x /\ \A k \in 1 .. n : s[k] = r[k]
  <2>1. Append(r, x) \in Seq(Number) /\ Len(Append(r, x)) = Len(r) + 1
        /\ Append(r, x)[Len(r) + 1] = x /\ \A k \in 1 .. Len(r) : Append(r, x)[k] = r[k]
    BY <1>1, AppendProperties
  <2> QED BY <1>1, <2>1
<1>5. PICK h \in Seq(Number) : h = Factors(s) /\ Len(h) = n + 1 /\ \A k \in 1 .. n + 1 : h[k] = Plus(One, s[k])
  <2>1. Factors(s) \in Seq(Number) /\ Len(Factors(s)) = Len(s)
        /\ \A k \in 1 .. Len(s) : Factors(s)[k] = Plus(One, s[k])
    BY FactorsAre
  <2> QED BY <1>4, <2>1
<1>6. \A k \in 1 .. n + 1 : h[k] = g[k]
  <2>1. \A k \in 1 .. n + 1 : k = n + 1 \/ k \in 1 .. n
    OBVIOUS
  <2> QED BY <1>1, <1>2, <1>3, <1>4, <1>5, <2>1
<1>7. h = g
  BY <1>3, <1>5, <1>6, SeqEqual
<1>8. Product(g) = Times(Product(f), y)
  BY <1>3, ProductAppend
<1> QED BY <1>1, <1>2, <1>4, <1>5, <1>7, <1>8

(* Products of numbers.                                                    *)
LEMMA ProductsOfNumbers ==
  ASSUME NEW a \in Number, NEW b \in Number, NEW c \in Number
  PROVE  /\ Times(a, b) = Times(b, a)
         /\ Times(Times(a, b), c) = Times(Times(a, c), b)
         /\ Times(Times(a, b), c) = Times(a, Times(b, c))
         /\ Times(One, a) = a
<1>1. PICK x \in Int, y \in Int, z \in Int, d \in Nat \ {0} : Is(a, x, d) /\ Is(b, y, d) /\ Is(c, z, d)
  BY ThreeNumbers
<1>2. Is(Times(a, b), x * y, d * d) /\ Is(Times(b, a), y * x, d * d) /\ Is(Times(a, c), x * z, d * d)
      /\ Is(Times(b, c), y * z, d * d)
  BY <1>1, IsTimes
<1>3. /\ Is(Times(Times(a, b), c), (x * y) * z, (d * d) * d)
      /\ Is(Times(Times(a, c), b), (x * z) * y, (d * d) * d)
      /\ Is(Times(a, Times(b, c)), x * (y * z), d * (d * d))
  BY <1>1, <1>2, IsTimes
<1>4. Is(Times(One, a), 1 * x, 1 * d)
  <2>1. Is(One, 1, 1)
    BY IsQ DEF One
  <2> QED BY <1>1, <2>1, IsTimes
<1>5. /\ x * y = y * x /\ (x * y) * z = (x * z) * y /\ (x * y) * z = x * (y * z)
      /\ d * (d * d) = (d * d) * d /\ 1 * x = x /\ 1 * d = d
  OBVIOUS
<1>6. Times(a, b) = Times(b, a)
  BY <1>2, <1>5, IsEqual1
<1>7. Times(Times(a, b), c) = Times(Times(a, c), b)
  BY <1>3, <1>5, IsEqual1
<1>8. Times(Times(a, b), c) = Times(a, Times(b, c))
  BY <1>3, <1>5, IsEqual1
<1>9. Times(One, a) = a
  BY <1>1, <1>4, <1>5, IsEqual1
<1> QED BY <1>6, <1>7, <1>8, <1>9

LEMMA OneMoreOneLess ==
  ASSUME NEW a \in Number
  PROVE  Plus(One, Minus(a, One)) = a /\ Minus(Plus(One, a), One) = a
<1>1. PICK x \in Int, d \in Int : Is(a, x, d) /\ d # 0
  BY NumberIs DEF Is
<1>2. Is(One, 1 * d, d)
  BY <1>1, IsQ DEF One
<1>3. PICK m \in Int : m = 1 * d
  OBVIOUS
<1>4. Is(Minus(a, One), x - m, d) /\ Is(Plus(One, a), m + x, d)
  BY <1>1, <1>2, <1>3, IsPlus
<1>5. Is(Plus(One, Minus(a, One)), m + (x - m), d) /\ Is(Minus(Plus(One, a), One), (m + x) - m, d)
  BY <1>2, <1>3, <1>4, IsPlus
<1>6. m + (x - m) = x /\ (m + x) - m = x
  OBVIOUS
<1> QED BY <1>1, <1>5, <1>6, IsEqual1

LEMMA NotZeroIs ==
  ASSUME NEW a, NEW n, NEW d, Is(a, n, d)
  PROVE  a = Zero <=> n = 0
<1>1. n \in Int /\ d \in Int /\ d # 0
  BY DEF Is
<1>2. Is(Zero, 0 * d, d) /\ 0 * d = 0
  BY <1>1, IsQ DEF Zero
<1>3. Is(Zero, 0, d)
  BY <1>2
<1>4. a = Zero => n = 0
  BY <1>3, IsSame
<1>5. n = 0 => a = Zero
  BY <1>3, IsEqual1
<1> QED BY <1>4, <1>5

(* A quotient undoes a product.                                            *)
LEMMA Divided ==
  ASSUME NEW a \in Number, NEW b \in Number, b # Zero
  PROVE  Over(Times(a, b), b) = a
<1>1. PICK x \in Int, y \in Int, z \in Int, d \in Nat \ {0} : Is(a, x, d) /\ Is(b, y, d) /\ Is(b, z, d)
  BY ThreeNumbers
<1>2. d \in Int /\ d # 0 /\ y # 0
  BY <1>1, NotZeroIs
<1>3. Is(Times(a, b), x * y, d * d)
  BY <1>1, IsTimes
<1>4. Is(b, y * d, d * d)
  BY <1>1, <1>2, IsScaled
<1>5. y * d # 0
  <2>1. y * d = 0 * d => y = 0
    BY <1>2, Canceled
  <2> QED BY <1>2, <2>1
<1>6. Is(Over(Times(a, b), b), x * y, y * d)
  BY <1>3, <1>4, <1>5, IsOver
<1>7. (x * y) * d = x * (y * d)
  OBVIOUS
<1> QED BY <1>1, <1>6, <1>7, IsEqual

(* The return of a period compounds.                                       *)
LEMMA Grown ==
  ASSUME NEW e \in Number, NEW l \in Number, l # Zero
  PROVE  Times(l, Plus(One, Over(Minus(e, l), l))) = e /\ Over(Minus(e, l), l) \in Number
<1>1. PICK x \in Int, y \in Int, z \in Int, d \in Nat \ {0} : Is(e, x, d) /\ Is(l, y, d) /\ Is(l, z, d)
  BY ThreeNumbers
<1>2. y # 0 /\ d \in Int /\ d # 0
  BY <1>1, NotZeroIs
<1>3. Is(Minus(e, l), x - y, d)
  BY <1>1, IsPlus
<1>4. Is(Over(Minus(e, l), l), x - y, y)
  BY <1>1, <1>2, <1>3, IsOver
<1>5. Is(One, 1 * y, y)
  BY <1>2, IsQ DEF One
<1>6. Is(Plus(One, Over(Minus(e, l), l)), 1 * y + (x - y), y)
  BY <1>4, <1>5, IsPlus
<1>7. 1 * y + (x - y) = x
  OBVIOUS
<1>8. Is(Times(l, Plus(One, Over(Minus(e, l), l))), y * x, d * y)
  BY <1>1, <1>6, <1>7, IsTimes
<1>9. (y * x) * d = x * (d * y)
  OBVIOUS
<1>10. Times(l, Plus(One, Over(Minus(e, l), l))) = e
  BY <1>1, <1>8, <1>9, IsEqual
<1> QED BY <1>4, <1>10 DEF Is

(* TimeWeightedReturns.update.                                             *)
LEMMA Compounded ==
  ASSUME NEW r, r.lastValue \in Number, r.cumRet \in Number, NEW x \in Number, NEW w, w = TimeWeighted(r, x)
  PROVE  /\ w.lastValue = x /\ w.lastPeriodRet \in Number /\ w.cumRet \in Number
         /\ Plus(One, w.cumRet) = Times(Plus(One, r.cumRet), Plus(One, w.lastPeriodRet))
         /\ r.lastValue # Zero => Times(r.lastValue, Plus(One, w.lastPeriodRet)) = x
<1>1. PICK l \in Number, cum \in Number : l = r.lastValue /\ cum = r.cumRet
  OBVIOUS
<1>2. PICK ret : ret = IF l = Zero THEN Zero ELSE Over(Minus(x, l), l)
  OBVIOUS
<1>3. ret \in Number /\ (l # Zero => Times(l, Plus(One, ret)) = x)
  BY <1>2, Grown, CashIs
<1>4. PICK p \in Number : p = Times(Plus(One, cum), Plus(One, ret))
  <2>1. Plus(One, cum) \in Number /\ Plus(One, ret) \in Number
    BY <1>3, Numbers
  <2> QED BY <2>1, Numbers
<1>5. w = [lastValue |-> x, lastPeriodRet |-> ret, cumRet |-> Minus(p, One)]
  BY <1>1, <1>2, <1>4 DEF TimeWeighted
<1>6. Minus(p, One) \in Number /\ Plus(One, Minus(p, One)) = p
  BY Numbers, OneMoreOneLess
<1> QED BY <1>1, <1>3, <1>4, <1>5, <1>6

(* One more element.                                                       *)
AppendedTo(t, s, x, S) ==
  /\ t = Append(s, x) /\ t \in Seq(S) /\ Len(t) = Len(s) + 1 /\ t[Len(s) + 1] = x /\ t # << >>
  /\ Len(s) \in Nat /\ DOMAIN s = 1 .. Len(s) /\ DOMAIN t = 1 .. Len(s) + 1
  /\ \A k \in 1 .. Len(s) : t[k] = s[k] /\ k \in 1 .. Len(s) + 1 /\ s[k] \in S

LEMMA Appended ==
  ASSUME NEW S, NEW s \in Seq(S), NEW x \in S
  PROVE  AppendedTo(Append(s, x), s, x, S)
<1>1. Append(s, x) \in Seq(S) /\ Len(Append(s, x)) = Len(s) + 1
      /\ Append(s, x)[Len(s) + 1] = x /\ \A k \in 1 .. Len(s) : Append(s, x)[k] = s[k]
  BY AppendProperties
<1>2. PICK n \in Nat : n = Len(s) /\ DOMAIN s = 1 .. n
  BY LenProperties
<1>3. PICK t \in Seq(S) : t = Append(s, x)
  BY <1>1
<1>4. Len(t) = n + 1 /\ t[n + 1] = x /\ (\A k \in 1 .. n : t[k] = s[k]) /\ DOMAIN t = 1 .. n + 1
  BY <1>1, <1>2, <1>3, LenProperties
<1>5. t # << >>
  <2>1. Len(<< >>) = 0 /\ n + 1 # 0
    OBVIOUS
  <2> QED BY <1>4, <2>1
<1>6. \A k \in 1 .. n : s[k] \in S /\ k \in 1 .. n + 1
  BY <1>2, ElementOfSeq
<1> QED BY <1>2, <1>3, <1>4, <1>5, <1>6 DEF AppendedTo

(* Division counts the multiples passed.                                   *)
LEMMA QuotientIs ==
  ASSUME NEW n \in Nat, NEW b \in Nat, b # 0, NEW q \in Int, NEW r \in Int,
         n = b * q + r, 0 <= r, r < b
  PROVE  n \div b = q
<1>1. PICK p \in Int, s \in Int : p = n \div b /\ n = b * p + s /\ 0 <= s /\ s < b
  <2>1. n \div b \in Int /\ n % b \in Int /\ n = b * (n \div b) + (n % b) /\ 0 <= n % b /\ n % b < b
    OBVIOUS
  <2> QED BY <2>1
<1>2. PICK d \in Int : d = p - q
  OBVIOUS
<1>3. b * d = r - s
  <2>1. b * (p - q) = b * p - b * q
    OBVIOUS
  <2> QED BY <1>1, <1>2, <2>1
<1>4. d >= 1 => b * d >= b
  OBVIOUS
<1>5. d <= -1 => b * d <= -b
  OBVIOUS
<1>6. d = 0
  BY <1>1, <1>3, <1>4, <1>5
<1> QED BY <1>1, <1>2, <1>6

LEMMA NextQuotient ==
  ASSUME NEW n \in Nat, n # 0, NEW b \in Nat, b # 0
  PROVE  n \div b = (n - 1) \div b \/ n \div b = (n - 1) \div b + 1
<1>1. PICK m \in Nat : n = m + 1 /\ m = n - 1
  <2>1. n - 1 \in Nat
    OBVIOUS
  <2> QED BY <2>1
<1>2. PICK q \in Int, r \in Int : q = m \div b /\ m = b * q + r /\ 0 <= r /\ r < b
  <2>1. m \div b \in Int /\ m % b \in Int /\ m = b * (m \div b) + (m % b) /\ 0 <= m % b /\ m % b < b
    OBVIOUS
  <2> QED BY <2>1
<1>3. CASE r + 1 < b
  <2>1. PICK r1 \in Int : n = b * q + r1 /\ 0 <= r1 /\ r1 < b
    BY <1>1, <1>2, <1>3
  <2>2. n \div b = q
    BY <2>1, QuotientIs
  <2>3. (n - 1) \div b = q
    BY ONLY <1>1, <1>2
  <2> QED BY <2>2, <2>3
<1>4. CASE ~(r + 1 < b)
  <2>1. r + 1 = b
    BY <1>2, <1>4
  <2>2. b * (q + 1) = b * q + b
    OBVIOUS
  <2>3. PICK q1 \in Int : q1 = q + 1 /\ n = b * q1 + 0
    BY <1>1, <1>2, <2>1, <2>2
  <2>4. 0 \in Int /\ 0 <= 0 /\ 0 < b
    OBVIOUS
  <2>5. n \div b = q1
    BY <2>3, <2>4, QuotientIs
  <2>6. (n - 1) \div b = q
    BY ONLY <1>1, <1>2
  <2>7. n \div b = (n - 1) \div b + 1
    BY ONLY <2>3, <2>5, <2>6
  <2> QED BY <2>7
<1> QED BY <1>3, <1>4

-----------------------------------------------------------------------------
(* The returns after the equities e.                                       *)
Compounds(r, e) ==
  /\ r.lastValue \in Number /\ r.cumRet \in Number
  /\ r.lastValue = IF e = << >> THEN Q(InitialCash) ELSE e[Len(e)]
  /\ (\A k \in 1 .. Len(e) - 1 : e[k] # Zero) => Times(Plus(One, r.cumRet), Q(InitialCash)) = r.lastValue

Cumulative(s, r, e) ==
  /\ s \in [values : Seq(Number), dateTimes : Seq(Nat), maxLen : {ReturnsMaxLen}]
  /\ e # << >> => s.values # << >> /\ s.values[Len(s.values)] = r.cumRet

ByDay(d, r, e) ==
  /\ d \in [returns : Seq(Number), currentDate : Int]
  /\ Product(Factors(d.returns)) = Plus(One, r.cumRet)
  /\ e = << >> => d = [returns |-> << >>, currentDate |-> -1]
  /\ e # << >> => d.currentDate = (Len(e) - 1) \div BarsPerDay /\ Len(d.returns) = d.currentDate + 1

LEMMA CompoundsNext ==
  ASSUME NEW e \in Seq(Number), NEW r, Compounds(r, e), NEW x \in Number, NEW w, w = TimeWeighted(r, x)
  PROVE  Compounds(w, Append(e, x))
<1>1. PICK n \in Nat, f \in Seq(Number) :
        /\ n = Len(e) /\ f = Append(e, x) /\ Len(f) = n + 1 /\ f[n + 1] = x /\ f # << >>
        /\ DOMAIN e = 1 .. n /\ DOMAIN f = 1 .. n + 1
        /\ \A k \in 1 .. n : f[k] = e[k] /\ k \in 1 .. n + 1 /\ e[k] \in Number
  <2>1. AppendedTo(Append(e, x), e, x, Number)
    BY Appended
  <2> QED BY <2>1 DEF AppendedTo
<1>2. r.lastValue \in Number /\ r.cumRet \in Number
  BY DEF Compounds
<1>3. /\ w.lastValue = x /\ w.lastPeriodRet \in Number /\ w.cumRet \in Number
      /\ Plus(One, w.cumRet) = Times(Plus(One, r.cumRet), Plus(One, w.lastPeriodRet))
      /\ r.lastValue # Zero => Times(r.lastValue, Plus(One, w.lastPeriodRet)) = x
  BY <1>2, Compounded
<1>4. ASSUME \A k \in 1 .. n : f[k] # Zero
      PROVE  Times(Plus(One, w.cumRet), Q(InitialCash)) = x
  <2>1. r.lastValue # Zero
    <3>1. CASE n = 0
      <4>1. e = << >>
        BY <1>1, <3>1, EmptySeq
      <4>2. Is(Q(InitialCash), InitialCash, 1) /\ InitialCash # 0
        BY CashIs, IsQ
      <4> QED BY <4>1, <4>2, NotZeroIs DEF Compounds
    <3>2. CASE n # 0
      <4>1. e # << >> /\ n \in 1 .. n
        <5>1. Len(<< >>) = 0
          OBVIOUS
        <5> QED BY <1>1, <3>2, <5>1
      <4> QED BY <1>1, <1>4, <4>1 DEF Compounds
    <3> QED BY <3>1, <3>2
  <2>2. \A k \in 1 .. n - 1 : e[k] # Zero
    <3>1. \A k \in 1 .. n - 1 : k \in 1 .. n
      OBVIOUS
    <3> QED BY <1>1, <1>4, <3>1
  <2>3. PICK c \in Number, p \in Number, i \in Number, l \in Number :
          /\ c = Plus(One, r.cumRet) /\ p = Plus(One, w.lastPeriodRet) /\ i = Q(InitialCash)
          /\ l = r.lastValue /\ Times(c, i) = l
    <3>1. Plus(One, r.cumRet) \in Number /\ Plus(One, w.lastPeriodRet) \in Number
      BY <1>2, <1>3, Numbers
    <3> QED BY <1>1, <1>2, <2>2, <3>1, CashIs DEF Compounds
  <2>4. Times(Times(c, p), i) = Times(Times(c, i), p)
    BY ProductsOfNumbers
  <2> QED BY <1>3, <2>1, <2>3, <2>4
<1>5. (n + 1) - 1 = n
  OBVIOUS
<1> QED BY <1>1, <1>3, <1>4, <1>5 DEF Compounds

LEMMA CumulativeNext ==
  ASSUME NEW e, NEW f, NEW r, NEW s, Cumulative(s, r, e), NEW w, w.cumRet \in Number, NEW dateTime \in Nat
  PROVE  Cumulative(AppendTo(s, dateTime, w.cumRet), w, f)
<1>1. PICK v \in Seq(Number), d \in Seq(Nat), m \in Nat \ {0} :
        s = [values |-> v, dateTimes |-> d, maxLen |-> m] /\ m = ReturnsMaxLen
  <2>1. ReturnsMaxLen \in Nat \ {0}
    BY AnalyzersAssumption
  <2> QED BY <2>1 DEF Cumulative
<1>2. PICK x \in Number : x = w.cumRet
  OBVIOUS
<1>3. PICK n \in Nat, a \in Seq(Number) : a = Append(v, x) /\ Len(a) = n + 1 /\ a[n + 1] = x /\ a # << >>
  <2>1. AppendedTo(Append(v, x), v, x, Number)
    BY Appended
  <2> QED BY <2>1 DEF AppendedTo
<1>4. LastOf(a, m) \in Seq(Number) /\ LastOf(a, m) # << >> /\ LastOf(a, m)[Len(LastOf(a, m))] = x
  <2>1. LastOf(a, m) \in Seq(Number)
    BY LastOfIs
  <2>2. Len(LastOf(a, m)) \in Nat \ {0} /\ LastOf(a, m)[Len(LastOf(a, m))] = a[Len(a)]
    BY <1>3, LastOfLast
  <2>3. Len(<< >>) = 0
    OBVIOUS
  <2> QED BY <1>3, <2>1, <2>2, <2>3
<1>5. PICK u \in Seq(Nat) : u = LastOf(Append(d, dateTime), m)
  <2>1. Append(d, dateTime) \in Seq(Nat)
    BY AppendProperties
  <2> QED BY <2>1, LastOfIs
<1>6. AppendTo(s, dateTime, x) = [values |-> LastOf(a, m), dateTimes |-> u, maxLen |-> m]
  <2>1. AppendTo(s, dateTime, x) =
          [s EXCEPT !.values = LastOf(Append(s.values, x), s.maxLen),
                    !.dateTimes = LastOf(Append(s.dateTimes, dateTime), s.maxLen)]
    BY DEF AppendTo
  <2>2. s.values = v /\ s.dateTimes = d /\ s.maxLen = m
    BY <1>1
  <2>3. PICK y : y = LastOf(a, m)
    OBVIOUS
  <2>4. AppendTo(s, dateTime, x) = [s EXCEPT !.values = y, !.dateTimes = u]
    BY ONLY <1>3, <1>5, <2>1, <2>2, <2>3
  <2> QED BY ONLY <1>1, <2>3, <2>4
<1> QED BY <1>1, <1>2, <1>4, <1>5, <1>6 DEF Cumulative

LEMMA ByDayNext ==
  ASSUME NEW e \in Seq(Number), NEW r, NEW d, ByDay(d, r, e), NEW x \in Number, r.cumRet \in Number,
         NEW w, w.lastPeriodRet \in Number,
         Plus(One, w.cumRet) = Times(Plus(One, r.cumRet), Plus(One, w.lastPeriodRet))
  PROVE  ByDay(DailyReturns(d, Len(e) \div BarsPerDay, w.lastPeriodRet), w, Append(e, x))
<1>1. PICK n \in Nat, f \in Seq(Number) :
        /\ n = Len(e) /\ f = Append(e, x) /\ Len(f) = n + 1 /\ f # << >>
  <2>1. AppendedTo(Append(e, x), e, x, Number)
    BY Appended
  <2> QED BY <2>1 DEF AppendedTo
<1>2. PICK b \in Nat : b = BarsPerDay /\ b # 0
  BY AnalyzersAssumption
<1>3. PICK date \in Nat : date = n \div b
  BY <1>2
<1>4. PICK ret \in Number, v \in Seq(Number), c \in Int :
        ret = w.lastPeriodRet /\ d = [returns |-> v, currentDate |-> c]
        /\ Product(Factors(v)) = Plus(One, r.cumRet)
  BY DEF ByDay
<1>5. PICK new : new = DailyReturns(d, date, ret)
  OBVIOUS
<1>6. PICK p \in Number, g \in Number : p = Plus(One, r.cumRet) /\ g = Plus(One, ret) /\ Plus(One, w.cumRet) = Times(p, g)
  BY <1>4, Numbers
<1>7. CASE c = date
  <2>1. e # << >>
    <3>1. -1 \notin Nat
      OBVIOUS
    <3>2. e = << >> => c = -1
      BY <1>4 DEF ByDay
    <3> QED BY <1>7, <3>1, <3>2
  <2>2. c = (n - 1) \div b /\ Len(v) = c + 1
    BY <1>1, <1>2, <1>4, <2>1 DEF ByDay
  <2>3. v # << >>
    <3>1. Len(<< >>) = 0 /\ date + 1 # 0
      OBVIOUS
    <3> QED BY <1>7, <2>2, <3>1
  <2>4. PICK h \in Seq(Number), l \in Number :
          h = Front(v) /\ l = Last(v) /\ v = Append(h, l) /\ Len(v) = Len(h) + 1
    BY <2>3, FrontLast
  <2>5. PICK q \in Number, k \in Number : q = Times(Plus(One, l), g) /\ k = Minus(q, One) /\ Plus(One, k) = q
    <3>1. Plus(One, l) \in Number
      BY Numbers
    <3>2. Times(Plus(One, l), g) \in Number
      BY <3>1, Numbers
    <3>3. Minus(Times(Plus(One, l), g), One) \in Number
      BY <3>2, Numbers
    <3> QED BY <3>2, <3>3, OneMoreOneLess
  <2>6. new = [returns |-> Append(h, k), currentDate |-> c]
    BY <1>4, <1>5, <1>6, <1>7, <2>4, <2>5 DEF DailyReturns
  <2>7. Append(h, k) \in Seq(Number) /\ Len(Append(h, k)) = Len(h) + 1
    BY AppendProperties
  <2>8. Product(Factors(Append(h, k))) = Times(p, g)
    <3>1. PICK ph \in Number, ol \in Number : ph = Product(Factors(h)) /\ ol = Plus(One, l)
      BY FactorsAre, Numbers
    <3>2. Product(Factors(Append(h, k))) = Times(ph, q)
      BY <2>5, <3>1, FactorsAppend
    <3>3. p = Times(ph, ol)
      <4>1. Product(Factors(Append(h, l))) = Times(Product(Factors(h)), Plus(One, l))
        BY FactorsAppend
      <4> QED BY <1>4, <1>6, <2>4, <3>1, <4>1
    <3>4. Times(Times(ph, ol), g) = Times(ph, Times(ol, g))
      BY ProductsOfNumbers
    <3> QED BY <2>5, <3>1, <3>2, <3>3, <3>4
  <2>9. c = ((n + 1) - 1) \div b /\ Len(Append(h, k)) = c + 1
    <3>1. (n + 1) - 1 = n
      OBVIOUS
    <3> QED BY <1>3, <1>7, <2>2, <2>4, <2>7, <3>1
  <2>10. ByDay(new, w, f)
    BY <1>1, <1>2, <1>6, <2>6, <2>7, <2>8, <2>9 DEF ByDay
  <2> QED BY <1>1, <1>2, <1>3, <1>4, <1>5, <2>10
<1>8. CASE c # date
  <2>1. new = [returns |-> Append(v, ret), currentDate |-> date]
    BY <1>4, <1>5, <1>8 DEF DailyReturns
  <2>2. Append(v, ret) \in Seq(Number) /\ Len(Append(v, ret)) = Len(v) + 1
    BY AppendProperties
  <2>3. Product(Factors(Append(v, ret))) = Times(p, g)
    BY <1>4, <1>6, FactorsAppend
  <2>4. Len(v) = date
    <3>1. CASE n = 0
      <4>1. e = << >>
        BY <1>1, <3>1, EmptySeq
      <4>2. v = << >>
        BY <1>4, <4>1 DEF ByDay
      <4>3. 0 = b * 0 + 0 /\ 0 \in Int /\ 0 < b
        BY <1>2
      <4>4. 0 \div b = 0
        BY <1>2, <4>3, QuotientIs
      <4>5. Len(<< >>) = 0
        OBVIOUS
      <4> QED BY <1>3, <3>1, <4>2, <4>4, <4>5
    <3>2. CASE n # 0
      <4>1. e # << >>
        <5>1. Len(<< >>) = 0
          OBVIOUS
        <5> QED BY <1>1, <3>2, <5>1
      <4>2. c = (n - 1) \div b /\ Len(v) = c + 1
        BY <1>1, <1>2, <1>4, <4>1 DEF ByDay
      <4> QED BY <1>2, <1>3, <1>8, <3>2, <4>2, NextQuotient
    <3> QED BY <3>1, <3>2
  <2>5. date = ((n + 1) - 1) \div b /\ Len(Append(v, ret)) = date + 1
    <3>1. (n + 1) - 1 = n
      OBVIOUS
    <3> QED BY <1>3, <2>2, <2>4, <3>1
  <2>6. ByDay(new, w, f)
    BY <1>1, <1>2, <1>6, <2>1, <2>2, <2>3, <2>5 DEF ByDay
  <2> QED BY <1>1, <1>2, <1>3, <1>4, <1>5, <2>6
<1> QED BY <1>7, <1>8

(* What Returns and SharpeRatio tell of the equity.                        *)
LEMMA ReturnsAgree ==
  ASSUME NEW e \in Seq(Number), e # << >>, NEW r, Compounds(r, e), NEW s, Cumulative(s, r, e),
         NEW d, ByDay(d, r, e)
  PROVE  /\ (\A k \in 1 .. Len(e) - 1 : e[k] # Zero) =>
              /\ Last(s.values) = Minus(Over(e[Len(e)], Q(InitialCash)), One)
              /\ Minus(Product(Factors(d.returns)), One) = Minus(Over(e[Len(e)], Q(InitialCash)), One)
         /\ Len(d.returns) = (Len(e) - 1) \div BarsPerDay + 1
<1>1. Last(s.values) = r.cumRet
  BY DEF Last, Cumulative
<1>2. Product(Factors(d.returns)) = Plus(One, r.cumRet) /\ Len(d.returns) = (Len(e) - 1) \div BarsPerDay + 1
  BY DEF ByDay
<1>3. PICK c \in Number : c = r.cumRet /\ Minus(Plus(One, c), One) = c /\ Plus(One, c) \in Number
  BY OneMoreOneLess, Numbers DEF Compounds
<1>4. ASSUME \A k \in 1 .. Len(e) - 1 : e[k] # Zero
      PROVE  Over(e[Len(e)], Q(InitialCash)) = Plus(One, c)
  <2>1. Times(Plus(One, c), Q(InitialCash)) = e[Len(e)]
    BY <1>3, <1>4 DEF Compounds
  <2>2. Q(InitialCash) # Zero
    <3>1. Is(Q(InitialCash), InitialCash, 1) /\ InitialCash # 0
      BY CashIs, IsQ
    <3> QED BY <3>1, NotZeroIs
  <2>3. Over(Times(Plus(One, c), Q(InitialCash)), Q(InitialCash)) = Plus(One, c)
    BY <1>3, <2>2, CashIs, Divided
  <2> QED BY <2>1, <2>3
<1> QED BY <1>1, <1>2, <1>3, <1>4

-----------------------------------------------------------------------------
(* The order of numbers                                                    *)

LEMMA LessTimes ==
  ASSUME NEW x \in Int, NEW y \in Int, NEW z \in Int, z > 0
  PROVE  x < y <=> x * z < y * z
<1>1. PICK d \in Int : d = y - x
  OBVIOUS
<1>2. d * z = y * z - x * z
  <2>1. (y - x) * z = y * z - x * z
    OBVIOUS
  <2> QED BY <1>1, <2>1
<1>3. d > 0 => d * z > 0
  OBVIOUS
<1>4. d < 0 => d * z < 0
  OBVIOUS
<1>5. d = 0 => d * z = 0
  OBVIOUS
<1>6. PICK p \in Int, q \in Int : p = x * z /\ q = y * z
  OBVIOUS
<1>7. PICK e \in Int : e = d * z /\ e = q - p
  BY <1>2, <1>6
<1> QED BY <1>1, <1>3, <1>4, <1>5, <1>6, <1>7

LEMMA BelowIs ==
  ASSUME NEW a, NEW b, NEW n, NEW m, NEW d, d > 0, Is(a, n, d), Is(b, m, d)
  PROVE  Below(a, b) <=> n < m
<1>1. PICK x \in Int, y \in Nat : a[1] = x /\ a[2] = y /\ y # 0
  BY NumberIs DEF Is
<1>2. PICK u \in Int, v \in Nat : b[1] = u /\ b[2] = v /\ v # 0
  BY NumberIs DEF Is
<1>3. n \in Int /\ d \in Int /\ m \in Int /\ x * d = n * y /\ u * d = m * v
  BY <1>1, <1>2 DEF Is
<1>4. PICK p \in Int, q \in Int, c \in Int : p = x * v /\ q = u * y /\ c = y * v
  OBVIOUS
<1>5. c > 0
  BY <1>1, <1>2, <1>4
<1>6. p * d = n * c /\ q * d = m * c
  <2>1. (x * v) * d = (x * d) * v /\ (n * y) * v = n * (y * v)
    BY <1>3
  <2>2. (u * y) * d = (u * d) * y /\ (m * v) * y = m * (y * v)
    BY <1>3
  <2> QED BY <1>3, <1>4, <2>1, <2>2
<1>7. p < q <=> p * d < q * d
  BY <1>3, LessTimes
<1>8. n < m <=> n * c < m * c
  BY <1>3, <1>5, LessTimes
<1>9. Below(a, b) <=> p < q
  BY <1>1, <1>2, <1>4 DEF Below
<1> QED BY <1>6, <1>7, <1>8, <1>9

LEMMA BelowOrders ==
  ASSUME NEW a \in Number, NEW b \in Number, NEW c \in Number
  PROVE  /\ ~Below(a, a)
         /\ Below(a, b) => ~Below(b, a) /\ a # b
         /\ ~Below(a, b) /\ ~Below(b, a) => a = b
         /\ ~Below(b, a) /\ ~Below(c, b) => ~Below(c, a)
<1>1. PICK x \in Int, y \in Int, z \in Int, d \in Nat \ {0} : Is(a, x, d) /\ Is(b, y, d) /\ Is(c, z, d)
  BY ThreeNumbers
<1>2. d > 0
  OBVIOUS
<1>3. /\ Below(a, a) <=> x < x
      /\ Below(a, b) <=> x < y
      /\ Below(b, a) <=> y < x
      /\ Below(c, b) <=> z < y
      /\ Below(c, a) <=> z < x
  BY <1>1, <1>2, BelowIs
<1>4. x = y => a = b
  BY <1>1, IsEqual1
<1>5. ~Below(a, b) /\ ~Below(b, a) => a = b
  BY <1>3, <1>4
<1>6. ~Below(b, a) /\ ~Below(c, b) => ~Below(c, a)
  BY <1>3
<1>7. ~Below(a, a) /\ (Below(a, b) => ~Below(b, a) /\ a # b)
  BY <1>3
<1> QED BY <1>5, <1>6, <1>7

LEMMA PositiveIs ==
  ASSUME NEW a \in Number
  PROVE  /\ Positive(a) => a # Zero
         /\ \A b \in Number : Positive(a) /\ ~Below(b, a) => Positive(b)
<1>1. ~Positive(Zero)
  BY DEF Positive, Zero, Q
<1>2. ASSUME NEW b \in Number, Positive(a), ~Below(b, a) PROVE Positive(b)
  <2>1. PICK x \in Int, y \in Nat : a[1] = x /\ a[2] = y /\ y # 0
    BY NumberIs
  <2>2. PICK u \in Int, v \in Nat : b[1] = u /\ b[2] = v /\ v # 0
    BY NumberIs
  <2>3. x > 0 /\ ~(u * y < x * v)
    BY <1>2, <2>1, <2>2 DEF Positive, Below
  <2>4. x * v > 0
    BY <2>2, <2>3
  <2>5. u <= 0 => u * y <= 0
    BY <2>1
  <2>6. u > 0
    BY <2>3, <2>4, <2>5
  <2> QED BY <2>2, <2>6 DEF Positive
<1> QED BY <1>1, <1>2

(* The only lowest, highest and largest elements.                          *)
IsLowest(a, S) == a \in S /\ \A b \in S : ~Below(b, a)
IsHighest(a, S) == a \in S /\ \A b \in S : ~Below(a, b)
IsLargest(n, S) == n \in S /\ \A k \in S : k <= n

LEMMA LowestIs ==
  ASSUME NEW S \in SUBSET Number, NEW a, IsLowest(a, S)
  PROVE  Lowest(S) = a
<1>1. PICK b : b = Lowest(S)
  OBVIOUS
<1>2. b \in S /\ \A c \in S : ~Below(c, b)
  BY <1>1 DEF Lowest, IsLowest
<1>3. a \in Number /\ b \in Number /\ ~Below(a, b) /\ ~Below(b, a)
  BY <1>2 DEF IsLowest
<1> QED BY <1>1, <1>3, BelowOrders

LEMMA HighestIs ==
  ASSUME NEW S \in SUBSET Number, NEW a, IsHighest(a, S)
  PROVE  Highest(S) = a
<1>1. PICK b : b = Highest(S)
  OBVIOUS
<1>2. b \in S /\ \A c \in S : ~Below(b, c)
  BY <1>1 DEF Highest, IsHighest
<1>3. a \in Number /\ b \in Number /\ ~Below(a, b) /\ ~Below(b, a)
  BY <1>2 DEF IsHighest
<1> QED BY <1>1, <1>3, BelowOrders

LEMMA LargestIs ==
  ASSUME NEW S \in SUBSET Int, NEW n, IsLargest(n, S)
  PROVE  Max(S) = n
<1>1. PICK m : m = Max(S)
  OBVIOUS
<1>2. m \in S /\ \A k \in S : m >= k
  BY <1>1 DEF Max, IsLargest
<1>3. n \in Int /\ m \in Int /\ n <= m /\ m <= n
  BY <1>2 DEF IsLargest
<1> QED BY <1>1, <1>3

(* The lower of two numbers, and the larger of two.                        *)
LEMMA LowerIs ==
  ASSUME NEW a \in Number, NEW b \in Number
  PROVE  Lowest({a, b}) = IF Below(b, a) THEN b ELSE a
<1>1. {a, b} \in SUBSET Number
  OBVIOUS
<1>2. IsLowest(IF Below(b, a) THEN b ELSE a, {a, b})
  BY BelowOrders DEF IsLowest
<1> QED BY <1>1, <1>2, LowestIs

LEMMA LargerIs ==
  ASSUME NEW a \in Int, NEW b \in Int
  PROVE  Max({a, b}) = IF b > a THEN b ELSE a
<1>1. {a, b} \in SUBSET Int
  OBVIOUS
<1>2. IsLargest(IF b > a THEN b ELSE a, {a, b})
  BY DEF IsLargest
<1> QED BY <1>1, <1>2, LargestIs

(* How deep a is below h.                                                  *)
Depth(a, h) == Over(Minus(a, h), h)

LEMMA DepthIs ==
  ASSUME NEW a \in Number, NEW b \in Number, NEW h \in Number, Positive(h)
  PROVE  /\ Depth(a, h) \in Number /\ Depth(h, h) = Zero
         /\ ~Below(b, a) => ~Below(Depth(b, h), Depth(a, h))
<1>1. PICK x \in Int, y \in Int, z \in Int, d \in Nat \ {0} : Is(a, x, d) /\ Is(b, y, d) /\ Is(h, z, d)
  BY ThreeNumbers
<1>2. d > 0 /\ d \in Int
  OBVIOUS
<1>3. z > 0
  <2>1. Is(Zero, 0 * d, d) /\ 0 * d = 0
    BY <1>2, IsQ DEF Zero
  <2>2. Below(Zero, h)
    <3>1. PICK u \in Int, v \in Nat : h[1] = u /\ h[2] = v /\ v # 0
      BY NumberIs
    <3>2. Zero[1] = 0 /\ Zero[2] = 1
      BY DEF Zero, Q
    <3>3. 0 * v < u * 1
      BY <3>1 DEF Positive
    <3> QED BY <3>1, <3>2, <3>3 DEF Below
  <2>3. Is(Zero, 0, d)
    BY <2>1
  <2> QED BY <1>1, <1>2, <2>2, <2>3, BelowIs
<1>4. Is(Minus(a, h), x - z, d) /\ Is(Minus(b, h), y - z, d) /\ Is(Minus(h, h), z - z, d)
  BY <1>1, IsPlus
<1>5. Is(Depth(a, h), x - z, z) /\ Is(Depth(b, h), y - z, z) /\ Is(Depth(h, h), z - z, z)
  BY <1>1, <1>3, <1>4, IsOver DEF Depth
<1>6. Depth(h, h) = Zero
  BY <1>5, NotZeroIs
<1>7. Below(Depth(b, h), Depth(a, h)) <=> y - z < x - z
  BY <1>3, <1>5, BelowIs
<1>8. Below(b, a) <=> y < x
  BY <1>1, <1>2, BelowIs
<1>9. y - z < x - z <=> y < x
  OBVIOUS
<1> QED BY <1>5, <1>6, <1>7, <1>8, <1>9 DEF Is

-----------------------------------------------------------------------------
(* The drawdown                                                            *)
HighestOf(e, k) == Highest({e[j] : j \in 1 .. k})
FallAt(e, k) == Over(Minus(e[k], HighestOf(e, k)), HighestOf(e, k))
WaitAt(e, k) == k - Max({j \in 1 .. k : e[j] = HighestOf(e, k)})

(* h is the highest of the first k equities, last reached at s.            *)
HighAt(e, k, h, s) ==
  /\ k \in Nat /\ h \in Number /\ Positive(h) /\ s \in 1 .. k /\ e[s] = h
  /\ \A j \in 1 .. k : e[j] \in Number /\ ~Below(h, e[j]) /\ (e[j] = h => j <= s)

LEMMA HighAtIs ==
  ASSUME NEW e, NEW k, NEW h, NEW s, HighAt(e, k, h, s)
  PROVE  /\ HighestOf(e, k) = h /\ FallAt(e, k) = Depth(e[k], h) /\ FallAt(e, k) \in Number
         /\ WaitAt(e, k) = k - s /\ k - s \in Nat
<1>1. k \in Nat /\ s \in 1 .. k /\ h \in Number /\ Positive(h) /\ k \in 1 .. k
  BY DEF HighAt
<1>2. HighestOf(e, k) = h
  <2>1. PICK S : S = {e[j] : j \in 1 .. k}
    OBVIOUS
  <2>2. S \in SUBSET Number /\ IsHighest(h, S)
    BY <1>1, <2>1 DEF HighAt, IsHighest
  <2>3. Highest(S) = h
    BY <2>2, HighestIs
  <2> QED BY <2>1, <2>3 DEF HighestOf
<1>3. Max({j \in 1 .. k : e[j] = h}) = s
  <2>1. PICK S : S = {j \in 1 .. k : e[j] = h}
    OBVIOUS
  <2>2. S \in SUBSET Int /\ IsLargest(s, S)
    BY <1>1, <2>1 DEF HighAt, IsLargest
  <2>3. Max(S) = s
    BY <2>2, LargestIs
  <2> QED BY <2>1, <2>3
<1>4. WaitAt(e, k) = k - s
  BY <1>2, <1>3 DEF WaitAt
<1>5. e[k] \in Number
  BY <1>1 DEF HighAt
<1>6. FallAt(e, k) = Depth(e[k], h)
  BY <1>2 DEF FallAt, Depth
<1>7. Depth(e[k], h) \in Number
  BY <1>1, <1>5, DepthIs
<1>8. k - s \in Nat
  BY <1>1
<1> QED BY <1>2, <1>4, <1>6, <1>7, <1>8

(* What was before does not change.                                        *)
LEMMA BeforeIs ==
  ASSUME NEW e, NEW f, NEW k \in Nat, \A j \in 1 .. k : f[j] = e[j]
  PROVE  k > 0 => FallAt(f, k) = FallAt(e, k) /\ WaitAt(f, k) = WaitAt(e, k)
<1> SUFFICES ASSUME k > 0 PROVE FallAt(f, k) = FallAt(e, k) /\ WaitAt(f, k) = WaitAt(e, k)
  OBVIOUS
<1>1. {f[j] : j \in 1 .. k} = {e[j] : j \in 1 .. k}
  OBVIOUS
<1>2. HighestOf(f, k) = HighestOf(e, k)
  BY <1>1 DEF HighestOf
<1>3. {j \in 1 .. k : f[j] = HighestOf(f, k)} = {j \in 1 .. k : e[j] = HighestOf(e, k)}
  BY <1>2
<1>4. k \in 1 .. k
  OBVIOUS
<1>5. FallAt(f, k) = FallAt(e, k)
  BY <1>2, <1>4 DEF FallAt
<1>6. WaitAt(f, k) = WaitAt(e, k)
  BY <1>3 DEF WaitAt
<1> QED BY <1>5, <1>6

(* m is the deepest of the falls, and w the longest of the waits.          *)
Deepest(e, n, m) ==
  /\ m \in Number
  /\ \A k \in 1 .. n : FallAt(e, k) \in Number /\ ~Below(FallAt(e, k), m)
  /\ IF n = 0 THEN m = Zero ELSE \E k \in 1 .. n : FallAt(e, k) = m

Longest(e, n, w) ==
  /\ w \in Nat
  /\ \A k \in 1 .. n : WaitAt(e, k) \in Int /\ WaitAt(e, k) <= w
  /\ IF n = 0 THEN w = 0 ELSE \E k \in 1 .. n : WaitAt(e, k) = w

LEMMA DeepestIs ==
  ASSUME NEW e, NEW n \in Nat \ {0}, NEW m, Deepest(e, n, m)
  PROVE  Lowest({FallAt(e, k) : k \in 1 .. n}) = m
<1>1. PICK S : S = {FallAt(e, k) : k \in 1 .. n}
  OBVIOUS
<1>2. S \in SUBSET Number /\ IsLowest(m, S)
  BY <1>1 DEF Deepest, IsLowest
<1> QED BY <1>1, <1>2, LowestIs

LEMMA LongestIs ==
  ASSUME NEW e, NEW n \in Nat \ {0}, NEW w, Longest(e, n, w)
  PROVE  Max({WaitAt(e, k) : k \in 1 .. n}) = w
<1>1. PICK S : S = {WaitAt(e, k) : k \in 1 .. n}
  OBVIOUS
<1>2. S \in SUBSET Int /\ IsLargest(w, S)
  BY <1>1 DEF Longest, IsLargest
<1> QED BY <1>1, <1>2, LargestIs

(* One more fall, or one that is not as deep.                              *)
LEMMA DeepestNext ==
  ASSUME NEW e, NEW f, NEW n \in Nat, \A j \in 1 .. n : f[j] = e[j], NEW m, Deepest(e, n, m),
         NEW a \in Number, FallAt(f, n + 1) \in Number,
         a = FallAt(f, n + 1) \/ (n > 0 /\ ~Below(a, m) /\ ~Below(FallAt(f, n + 1), a)),
         n = 0 => a = Zero
  PROVE  Deepest(f, n + 1, Lowest({m, a})) /\ ~Below(a, Lowest({m, a}))
<1>1. PICK l \in Number : l = Lowest({m, a}) /\ l = (IF Below(a, m) THEN a ELSE m) /\ m \in Number
  BY LowerIs DEF Deepest
<1>2. ~Below(a, l) /\ ~Below(m, l)
  BY <1>1, BelowOrders
<1>3. ASSUME NEW k \in 1 .. n PROVE FallAt(f, k) = FallAt(e, k) /\ FallAt(f, k) \in Number /\ ~Below(FallAt(f, k), l)
  <2>1. k \in Nat /\ k > 0 /\ \A j \in 1 .. k : f[j] = e[j]
    <3>1. \A j \in 1 .. k : j \in 1 .. n
      OBVIOUS
    <3> QED BY <3>1
  <2>2. FallAt(f, k) = FallAt(e, k)
    BY <2>1, BeforeIs
  <2>3. FallAt(e, k) \in Number /\ ~Below(FallAt(e, k), m)
    BY DEF Deepest
  <2> QED BY <1>1, <1>2, <2>2, <2>3, BelowOrders
<1>4. ~Below(FallAt(f, n + 1), l)
  <2>1. CASE a = FallAt(f, n + 1)
    BY <1>2, <2>1
  <2>2. CASE ~Below(FallAt(f, n + 1), a)
    BY <1>1, <1>2, <2>2, BelowOrders
  <2> QED BY <2>1, <2>2
<1>5. \A k \in 1 .. n + 1 : k = n + 1 \/ k \in 1 .. n
  OBVIOUS
<1>6. \E k \in 1 .. n + 1 : FallAt(f, k) = l
  <2>1. n + 1 \in 1 .. n + 1 /\ \A k \in 1 .. n : k \in 1 .. n + 1
    OBVIOUS
  <2>2. CASE n = 0
    <3>1. a = Zero /\ m = Zero /\ a = FallAt(f, n + 1)
      BY <2>2 DEF Deepest
    <3> QED BY <1>1, <2>1, <3>1
  <2>3. CASE n # 0 /\ l = m
    <3>1. PICK k \in 1 .. n : FallAt(e, k) = m
      BY <2>3 DEF Deepest
    <3> QED BY <1>3, <2>1, <2>3, <3>1
  <2>4. CASE l # m
    <3>1. l = a /\ Below(a, m)
      BY <1>1, <2>4
    <3>2. a = FallAt(f, n + 1)
      BY <3>1
    <3> QED BY <2>1, <3>1, <3>2
  <2> QED BY <2>2, <2>3, <2>4
<1>7. Deepest(f, n + 1, l)
  <2>1. n + 1 # 0
    OBVIOUS
  <2>2. \A k \in 1 .. n + 1 : FallAt(f, k) \in Number /\ ~Below(FallAt(f, k), l)
    BY <1>3, <1>4, <1>5
  <2> QED BY <1>6, <2>1, <2>2 DEF Deepest
<1> QED BY <1>1, <1>2, <1>7

LEMMA LongestNext ==
  ASSUME NEW e, NEW f, NEW n \in Nat, \A j \in 1 .. n : f[j] = e[j], NEW w, Longest(e, n, w),
         NEW a \in Nat, a = WaitAt(f, n + 1), n = 0 => a = 0
  PROVE  Longest(f, n + 1, Max({w, a}))
<1>1. PICK l \in Nat : l = Max({w, a}) /\ l = (IF a > w THEN a ELSE w) /\ w \in Nat
  <2>1. w \in Nat /\ w \in Int /\ a \in Int
    BY DEF Longest
  <2>2. Max({w, a}) = (IF a > w THEN a ELSE w)
    BY <2>1, LargerIs
  <2> QED BY <2>1, <2>2
<1>2. a <= l /\ w <= l
  BY <1>1
<1>3. ASSUME NEW k \in 1 .. n PROVE WaitAt(f, k) = WaitAt(e, k) /\ WaitAt(f, k) \in Int /\ WaitAt(f, k) <= l
  <2>1. k \in Nat /\ k > 0 /\ \A j \in 1 .. k : f[j] = e[j]
    <3>1. \A j \in 1 .. k : j \in 1 .. n
      OBVIOUS
    <3> QED BY <3>1
  <2>2. WaitAt(f, k) = WaitAt(e, k)
    BY <2>1, BeforeIs
  <2>3. WaitAt(e, k) \in Int /\ WaitAt(e, k) <= w
    BY DEF Longest
  <2> QED BY <1>1, <1>2, <2>2, <2>3
<1>4. \A k \in 1 .. n + 1 : k = n + 1 \/ k \in 1 .. n
  OBVIOUS
<1>5. \E k \in 1 .. n + 1 : WaitAt(f, k) = l
  <2>1. n + 1 \in 1 .. n + 1 /\ \A k \in 1 .. n : k \in 1 .. n + 1
    OBVIOUS
  <2>2. CASE n = 0
    <3>1. a = 0 /\ w = 0
      BY <2>2 DEF Longest
    <3> QED BY <1>1, <2>1, <3>1
  <2>3. CASE n # 0 /\ l = w
    <3>1. PICK k \in 1 .. n : WaitAt(e, k) = w
      BY <2>3 DEF Longest
    <3> QED BY <1>3, <2>1, <2>3, <3>1
  <2>4. CASE l # w
    BY <1>1, <2>1, <2>4
  <2> QED BY <2>2, <2>3, <2>4
<1>6. Longest(f, n + 1, l)
  <2>1. n + 1 # 0
    OBVIOUS
  <2>2. \A k \in 1 .. n + 1 : WaitAt(f, k) \in Int /\ WaitAt(f, k) <= l
    BY <1>2, <1>3, <1>4
  <2> QED BY <1>5, <2>1, <2>2 DEF Longest
<1> QED BY <1>1, <1>6

(* The drawdown of the equities e.                                         *)
DrawDownIs(d, e) ==
  /\ d \in [high : Number \cup {None}, low : Number \cup {None}, since : Nat, maxDD : Number, longest : Nat]
  /\ e = << >> => d.high = None
  /\ e # << >> =>
       /\ HighAt(e, Len(e), d.high, d.since) /\ d.low \in Number
       /\ ~Below(Depth(d.low, d.high), d.maxDD)
  /\ Deepest(e, Len(e), d.maxDD) /\ Longest(e, Len(e), d.longest)

(* The high and the low of the equities f: the last is the low, or it is   *)
(* not below one that is counted.                                          *)
HighAndLow(e, f, n, h, l, s, m, w) ==
  /\ n \in Nat /\ Len(e) = n /\ f \in Seq(Number) /\ Len(f) = n + 1 /\ f # << >>
  /\ (\A k \in 1 .. n : f[k] = e[k]) /\ Deepest(e, n, m) /\ Longest(e, n, w)
  /\ HighAt(f, n + 1, h, s) /\ h \in Number /\ l \in Number /\ s \in Nat
  /\ \/ l = f[n + 1]
     \/ n > 0 /\ ~Below(Depth(l, h), m) /\ ~Below(f[n + 1], l)
  /\ n = 0 => h = l /\ s = n + 1

LEMMA DrawDownNext ==
  ASSUME NEW e, NEW f, NEW n, NEW h, NEW l, NEW s, NEW m, NEW w, HighAndLow(e, f, n, h, l, s, m, w)
  PROVE  DrawDownIs([high |-> h, low |-> l, since |-> s, maxDD |-> Lowest({m, Depth(l, h)}),
                     longest |-> Max({w, (n + 1) - s})], f)
<1>1. HighAt(f, n + 1, h, s) /\ h \in Number /\ l \in Number /\ s \in Nat
  BY DEF HighAndLow
<1>0. n \in Nat /\ Len(e) = n /\ f \in Seq(Number) /\ Len(f) = n + 1 /\ f # << >>
      /\ (\A k \in 1 .. n : f[k] = e[k]) /\ Deepest(e, n, m) /\ Longest(e, n, w)
  BY DEF HighAndLow
<1>2. PICK x \in Number : x = f[n + 1]
  <2>1. n + 1 \in 1 .. n + 1
    BY <1>0
  <2> QED BY <1>0, <2>1, ElementOfSeq
<1>3. FallAt(f, n + 1) = Depth(x, h) /\ FallAt(f, n + 1) \in Number /\ WaitAt(f, n + 1) = (n + 1) - s
      /\ (n + 1) - s \in Nat
  BY <1>0, <1>1, <1>2, HighAtIs
<1>4. PICK a \in Number : a = Depth(l, h)
  BY <1>1, DepthIs DEF HighAt
<1>5. a = FallAt(f, n + 1) \/ (n > 0 /\ ~Below(a, m) /\ ~Below(FallAt(f, n + 1), a))
  <2>1. CASE l = x
    BY <1>3, <1>4, <2>1
  <2>2. CASE n > 0 /\ ~Below(Depth(l, h), m) /\ ~Below(x, l)
    <3>1. ~Below(Depth(x, h), Depth(l, h))
      BY <1>1, <2>2, DepthIs DEF HighAt
    <3> QED BY <1>3, <1>4, <2>2, <3>1
  <2> QED BY <1>2, <2>1, <2>2 DEF HighAndLow
<1>6. n = 0 => a = Zero
  <2>1. Depth(h, h) = Zero
    BY <1>1, DepthIs DEF HighAt
  <2> QED BY <1>4, <2>1 DEF HighAndLow
<1>7. Deepest(f, n + 1, Lowest({m, a})) /\ ~Below(a, Lowest({m, a}))
  BY <1>0, <1>3, <1>5, <1>6, DeepestNext
<1>8. PICK b \in Nat : b = (n + 1) - s /\ (n = 0 => b = 0)
  <2>1. n = 0 => (n + 1) - s = 0
    BY DEF HighAndLow
  <2> QED BY <1>3, <2>1
<1>9. Longest(f, n + 1, Max({w, b}))
  BY <1>0, <1>3, <1>8, LongestNext
<1>10. PICK m1 \in Number : m1 = Lowest({m, a}) /\ Deepest(f, n + 1, m1) /\ ~Below(a, m1)
  BY <1>7 DEF Deepest
<1>11. PICK w1 \in Nat : w1 = Max({w, b}) /\ Longest(f, n + 1, w1)
  BY <1>9 DEF Longest
<1>12. PICK r : r = [high |-> h, low |-> l, since |-> s, maxDD |-> m1, longest |-> w1]
  OBVIOUS
<1>13. r \in [high : Number \cup {None}, low : Number \cup {None}, since : Nat, maxDD : Number, longest : Nat]
  BY <1>1, <1>12
<1>14. r.high = h /\ r.low = l /\ r.since = s /\ r.maxDD = m1 /\ r.longest = w1
  BY <1>12
<1>15. DrawDownIs(r, f)
  BY ONLY <1>0, <1>1, <1>4, <1>10, <1>11, <1>13, <1>14 DEF DrawDownIs
<1> QED BY <1>4, <1>8, <1>10, <1>11, <1>12, <1>15

LEMMA DrawDownStart == DrawDownIs(NewDrawDown, << >>)
<1>1. Zero \in Number /\ Len(<< >>) = 0
  BY CashIs
<1>2. PICK d : d = NewDrawDown
  OBVIOUS
<1>3. d \in [high : Number \cup {None}, low : Number \cup {None}, since : Nat, maxDD : Number, longest : Nat]
  BY <1>1, <1>2 DEF NewDrawDown
<1>4. d.high = None /\ d.maxDD = Zero /\ d.longest = 0
  BY <1>2 DEF NewDrawDown
<1>5. Deepest(<< >>, 0, Zero) /\ Longest(<< >>, 0, 0)
  BY <1>1 DEF Deepest, Longest
<1> QED BY <1>1, <1>2, <1>3, <1>4, <1>5 DEF DrawDownIs

(* The number of the high and what is not known are told apart.            *)
LEMMA NoneIs == None \notin Number
<1>1. \A a \in Number : a # << >>
  <2>1. \A x, y : Len(<<x, y>>) = 2 /\ Len(<< >>) = 0
    OBVIOUS
  <2> QED BY <2>1, NumberIs
<1> QED BY <1>1 DEF None

LEMMA FromHighIs ==
  ASSUME NEW e \in Seq(Number), NEW d, DrawDownIs(d, e), NEW x \in Number, e = << >> => Positive(x)
  PROVE  DrawDownIs(FromHigh(d, Len(e) + 1, x), Append(e, x))
<1>1. PICK n \in Nat, f \in Seq(Number) :
        /\ n = Len(e) /\ f = Append(e, x) /\ Len(f) = n + 1 /\ f[n + 1] = x /\ f # << >>
        /\ \A k \in 1 .. n : f[k] = e[k] /\ k \in 1 .. n + 1 /\ e[k] \in Number
  <2>1. AppendedTo(Append(e, x), e, x, Number)
    BY Appended
  <2> QED BY <2>1 DEF AppendedTo
<1>2. PICK h \in Number \cup {None}, l \in Number \cup {None}, s \in Nat, m \in Number, w \in Nat :
        d = [high |-> h, low |-> l, since |-> s, maxDD |-> m, longest |-> w]
  BY DEF DrawDownIs
<1>3. d.high = h /\ d.low = l /\ d.since = s /\ d.maxDD = m /\ d.longest = w
  BY <1>2
<1>4. Deepest(e, n, m) /\ Longest(e, n, w)
  BY <1>1, <1>3 DEF DrawDownIs
<1>5. n # 0 => /\ HighAt(e, n, h, s) /\ l \in Number /\ h \in Number /\ ~Below(Depth(l, h), m)
  <2>1. n # 0 => e # << >>
    <3>1. Len(<< >>) = 0
      OBVIOUS
    <3> QED BY <1>1, <3>1
  <2> QED BY <1>1, <1>3, <2>1 DEF DrawDownIs, HighAt
<1>6. n = 0 => h = None /\ Positive(x)
  <2>1. n = 0 => e = << >>
    BY <1>1, EmptySeq
  <2> QED BY <1>3, <2>1 DEF DrawDownIs
<1>7. \A k \in 1 .. n + 1 : k = n + 1 \/ k \in 1 .. n
  OBVIOUS
<1>8. CASE IsHigh(d, x)
  <2>1. FromHigh(d, n + 1, x) = [high |-> x, low |-> x, since |-> n + 1, maxDD |-> Lowest({m, Depth(x, x)}),
                                 longest |-> Max({w, (n + 1) - (n + 1)})]
    <3>1. PICK r : r = [d EXCEPT !.high = x, !.low = x, !.since = n + 1]
      OBVIOUS
    <3>2. FromHigh(d, n + 1, x) =
            [r EXCEPT !.maxDD = Lowest({r.maxDD, Over(Minus(r.low, r.high), r.high)}),
                      !.longest = Max({r.longest, (n + 1) - r.since})]
      BY <1>8, <3>1 DEF FromHigh
    <3>3. r = [high |-> x, low |-> x, since |-> n + 1, maxDD |-> m, longest |-> w]
      BY <1>2, <3>1
    <3>4. r.high = x /\ r.low = x /\ r.since = n + 1 /\ r.maxDD = m /\ r.longest = w
      BY <3>3
    <3>5. PICK m1, w1 : m1 = Lowest({m, Depth(x, x)}) /\ w1 = Max({w, (n + 1) - (n + 1)})
      OBVIOUS
    <3>6. FromHigh(d, n + 1, x) = [r EXCEPT !.maxDD = m1, !.longest = w1]
      BY ONLY <3>2, <3>4, <3>5 DEF Depth
    <3> QED BY ONLY <3>3, <3>5, <3>6
  <2>2. Positive(x) /\ \A k \in 1 .. n : ~Below(x, e[k])
    <3>1. CASE n = 0
      BY <1>6, <3>1
    <3>2. CASE n # 0
      <4>1. ~Below(x, h)
        BY <1>3, <1>5, <1>8, <3>2, NoneIs DEF IsHigh
      <4>2. Positive(x)
        BY <1>5, <3>2, <4>1, PositiveIs DEF HighAt
      <4>3. ASSUME NEW k \in 1 .. n PROVE ~Below(x, e[k])
        <5>1. e[k] \in Number /\ ~Below(h, e[k])
          BY <1>5, <3>2 DEF HighAt
        <5> QED BY <1>5, <3>2, <4>1, <5>1, BelowOrders
      <4> QED BY <4>2, <4>3
    <3> QED BY <3>1, <3>2
  <2>3. HighAt(f, n + 1, x, n + 1)
    <3>1. \A k \in 1 .. n + 1 : f[k] \in Number /\ ~Below(x, f[k]) /\ k <= n + 1
      BY <1>1, <1>7, <2>2, BelowOrders
    <3>2. n + 1 \in 1 .. n + 1 /\ n + 1 \in Nat
      OBVIOUS
    <3> QED BY <1>1, <2>2, <3>1, <3>2 DEF HighAt
  <2>4. HighAndLow(e, f, n, x, x, n + 1, m, w)
    BY <1>1, <1>4, <2>3 DEF HighAndLow
  <2>5. DrawDownIs(FromHigh(d, n + 1, x), f)
    <3>1. DrawDownIs([high |-> x, low |-> x, since |-> n + 1, maxDD |-> Lowest({m, Depth(x, x)}),
                      longest |-> Max({w, (n + 1) - (n + 1)})], f)
      BY <2>4, DrawDownNext
    <3> QED BY ONLY <2>1, <3>1
  <2> QED BY <1>1, <2>5
<1>9. CASE ~IsHigh(d, x)
  <2>1. n # 0 /\ Below(x, h)
    BY <1>3, <1>6, <1>9 DEF IsHigh
  <2>2. PICK l1 \in Number : l1 = Lowest({l, x}) /\ l1 = (IF Below(x, l) THEN x ELSE l)
    BY <1>5, <2>1, LowerIs
  <2>3. FromHigh(d, n + 1, x) = [high |-> h, low |-> l1, since |-> s, maxDD |-> Lowest({m, Depth(l1, h)}),
                                 longest |-> Max({w, (n + 1) - s})]
    <3>1. PICK r : r = [d EXCEPT !.low = Lowest({d.low, x})]
      OBVIOUS
    <3>2. FromHigh(d, n + 1, x) =
            [r EXCEPT !.maxDD = Lowest({r.maxDD, Over(Minus(r.low, r.high), r.high)}),
                      !.longest = Max({r.longest, (n + 1) - r.since})]
      BY <1>9, <3>1 DEF FromHigh
    <3>3. r = [high |-> h, low |-> l1, since |-> s, maxDD |-> m, longest |-> w]
      BY <1>2, <2>2, <3>1
    <3>4. r.high = h /\ r.low = l1 /\ r.since = s /\ r.maxDD = m /\ r.longest = w
      BY <3>3
    <3>5. PICK m1, w1 : m1 = Lowest({m, Depth(l1, h)}) /\ w1 = Max({w, (n + 1) - (s)})
      OBVIOUS
    <3>6. FromHigh(d, n + 1, x) = [r EXCEPT !.maxDD = m1, !.longest = w1]
      BY ONLY <3>2, <3>4, <3>5 DEF Depth
    <3> QED BY ONLY <3>3, <3>5, <3>6
  <2>4. HighAt(f, n + 1, h, s)
    <3>1. h \in Number /\ Positive(h) /\ s \in 1 .. n /\ e[s] = h
          /\ \A k \in 1 .. n : ~Below(h, e[k]) /\ (e[k] = h => k <= s)
      BY <1>5, <2>1 DEF HighAt
    <3>2. ~Below(h, x) /\ x # h
      BY <2>1, <3>1, BelowOrders
    <3>3. \A k \in 1 .. n + 1 : f[k] \in Number /\ ~Below(h, f[k]) /\ (f[k] = h => k <= s)
      BY <1>1, <1>7, <3>1, <3>2
    <3>4. n + 1 \in Nat /\ s \in 1 .. n + 1 /\ f[s] = h
      BY <1>1, <3>1
    <3> QED BY <3>1, <3>3, <3>4 DEF HighAt
  <2>5. HighAndLow(e, f, n, h, l1, s, m, w)
    <3>1. CASE Below(x, l)
      BY <1>1, <1>4, <1>5, <2>1, <2>2, <2>4, <3>1 DEF HighAndLow
    <3>2. CASE ~Below(x, l)
      <4>1. l1 = l /\ n > 0
        BY <2>1, <2>2, <3>2
      <4> QED BY <1>1, <1>4, <1>5, <2>1, <2>4, <3>2, <4>1 DEF HighAndLow
    <3> QED BY <3>1, <3>2
  <2>6. DrawDownIs(FromHigh(d, n + 1, x), f)
    <3>1. DrawDownIs([high |-> h, low |-> l1, since |-> s, maxDD |-> Lowest({m, Depth(l1, h)}),
                      longest |-> Max({w, (n + 1) - s})], f)
      BY <2>5, DrawDownNext
    <3> QED BY ONLY <2>3, <3>1
  <2> QED BY <1>1, <2>6
<1> QED BY <1>8, <1>9

LEMMA DrawDownAgrees ==
  ASSUME NEW e, NEW n \in Nat \ {0}, Len(e) = n, NEW d, DrawDownIs(d, e)
  PROVE  /\ d.maxDD = Lowest({FallAt(e, k) : k \in 1 .. n})
         /\ d.longest = Max({WaitAt(e, k) : k \in 1 .. n})
<1>1. Deepest(e, n, d.maxDD) /\ Longest(e, n, d.longest)
  BY DEF DrawDownIs
<1> QED BY <1>1, DeepestIs, LongestIs

-----------------------------------------------------------------------------
(* What the analyzers that look at the equity have, after the equities so  *)
(* far.                                                                    *)
Untraded == cash = Q(InitialCash) /\ shares = [i \in Traded |-> 0]

MeasuresInv ==
  /\ onBars \in BOOLEAN /\ bars \in Nat /\ (bars <= 1 => Untraded)
  /\ equities \in Seq(Number) /\ bars = (IF onBars THEN Len(equities) + 1 ELSE Len(equities))
  /\ Compounds(portfolioReturns, equities)
  /\ Cumulative(returns.cum, portfolioReturns, equities)
  /\ ByDay(daily, portfolioReturns, equities)
  /\ DrawDownIs(drawDown, equities)

LEMMA EquityIs ==
  ASSUME BooksInv
  PROVE  Equity(close) \in Number /\ (Untraded => Equity(close) = Q(InitialCash))
<1>1. close \in [Traded -> Number] /\ cash \in Number /\ shares \in [Traded -> Int]
  BY DEF BooksInv, BooksTypeOK
<1>2. PICK v \in Number : v = SumOver(Values(close, shares)) /\ Equity(close) = Plus(cash, v)
  BY <1>1, ValuesAre, SumsAre
<1>3. Equity(close) \in Number
  BY <1>1, <1>2, Numbers
<1>4. ASSUME Untraded PROVE v = Zero /\ cash = Q(InitialCash)
  <2>1. ASSUME NEW i \in Traded PROVE Values(close, shares)[i] = Zero
    <3>1. shares[i] = 0 /\ close[i] \in Number
      BY <1>1, <1>4 DEF Untraded
    <3>2. PICK a \in Number : a = close[i] /\ Values(close, shares)[i] = Times(a, Q(0))
      BY <3>1 DEF Values
    <3>3. PICK x \in Int, d \in Int : Is(a, x, d)
      BY NumberIs
    <3>4. Is(Times(a, Q(0)), x * 0, d) /\ x * 0 = 0
      BY <3>3, IsTimesQ
    <3> QED BY <3>2, <3>4, NotZeroIs
  <2> QED BY <1>2, <1>4, <2>1, SumOverZeros DEF Untraded
<1>5. Plus(cash, Zero) = cash
  BY <1>1, ZeroPlus
<1> QED BY <1>2, <1>3, <1>4, <1>5

LEMMA MeasuresStart == AnalyzersInit => MeasuresInv
<1> SUFFICES ASSUME AnalyzersInit PROVE MeasuresInv
  OBVIOUS
<1>1. /\ bars = 0 /\ onBars = FALSE /\ cash = Q(InitialCash) /\ shares = [i \in Traded |-> 0]
      /\ portfolioReturns = [lastValue |-> Q(InitialCash), lastPeriodRet |-> Zero, cumRet |-> Zero]
      /\ returns = [net |-> Series(ReturnsMaxLen), cum |-> Series(ReturnsMaxLen)]
      /\ daily = [returns |-> << >>, currentDate |-> -1]
      /\ drawDown = NewDrawDown /\ equities = << >>
  BY DEF AnalyzersInit
<1>2. << >> \in Seq(Number) /\ Len(<< >>) = 0 /\ << >> \in Seq(Nat)
  OBVIOUS
<1>3. Plus(One, Zero) = One /\ Zero \in Number /\ One \in Number
  BY ZeroPlus, CashIs, Numbers
<1>4. Compounds(portfolioReturns, << >>)
  <2>1. Times(One, Q(InitialCash)) = Q(InitialCash)
    BY CashIs, ProductsOfNumbers
  <2> QED BY <1>1, <1>3, <2>1, CashIs DEF Compounds
<1>5. Cumulative(returns.cum, portfolioReturns, << >>)
  <2>1. returns.cum = [values |-> << >>, dateTimes |-> << >>, maxLen |-> ReturnsMaxLen]
    BY <1>1 DEF Series
  <2> QED BY <1>2, <2>1 DEF Cumulative
<1>6. ByDay(daily, portfolioReturns, << >>)
  <2>1. Factors(<< >>) = << >>
    BY DEF Factors
  <2>2. portfolioReturns.cumRet = Zero
    BY <1>1
  <2>3. daily.returns = << >> /\ daily \in [returns : Seq(Number), currentDate : Int]
    BY <1>1, <1>2
  <2> QED BY <1>1, <1>3, <2>1, <2>2, <2>3, ProductOfNone DEF ByDay
<1>7. DrawDownIs(drawDown, << >>)
  BY <1>1, DrawDownStart
<1>8. bars \in Nat /\ Untraded /\ onBars \in BOOLEAN
      /\ bars = (IF onBars THEN Len(equities) + 1 ELSE Len(equities))
  <2>1. bars = 0 /\ onBars = FALSE /\ Len(equities) = 0
    BY <1>1, <1>2
  <2>2. Untraded
    BY <1>1 DEF Untraded
  <2>3. bars = (IF onBars THEN Len(equities) + 1 ELSE Len(equities)) /\ onBars \in BOOLEAN /\ bars \in Nat
    BY ONLY <2>1
  <2> QED BY <2>2, <2>3
<1> QED BY <1>1, <1>2, <1>4, <1>5, <1>6, <1>7, <1>8 DEF MeasuresInv

LEMMA MeasuresKept == BooksInv /\ MeasuresInv /\ [AnalyzersNext]_analyzersVars => MeasuresInv'
<1> SUFFICES ASSUME BooksInv, MeasuresInv, [AnalyzersNext]_analyzersVars PROVE MeasuresInv'
  OBVIOUS
<1>1. /\ onBars \in BOOLEAN /\ bars \in Nat /\ (bars <= 1 => Untraded)
      /\ equities \in Seq(Number) /\ bars = (IF onBars THEN Len(equities) + 1 ELSE Len(equities))
      /\ Compounds(portfolioReturns, equities) /\ Cumulative(returns.cum, portfolioReturns, equities)
      /\ ByDay(daily, portfolioReturns, equities) /\ DrawDownIs(drawDown, equities)
  BY DEF MeasuresInv
<1>2. CASE NextBars
  <2>1. /\ ~onBars /\ bars' = bars + 1 /\ onBars' = TRUE
        /\ UNCHANGED <<cash, shares, portfolioReturns, returns, daily, drawDown, equities>>
    BY <1>2 DEF NextBars, analyses
  <2>2. bars' \in Nat /\ (bars' <= 1 => Untraded') /\ bars' = Len(equities) + 1
    BY <1>1, <2>1 DEF Untraded
  <2> QED BY <1>1, <2>1, <2>2 DEF MeasuresInv
<1>3. CASE Fill
  <2>1. bars > 1 /\ UNCHANGED <<bars, onBars, portfolioReturns, returns, daily, drawDown, equities>>
    BY <1>3 DEF Fill, analyses
  <2>2. ~(bars' <= 1)
    BY <1>1, <2>1
  <2> QED BY <1>1, <2>1, <2>2 DEF MeasuresInv
<1>4. CASE BeforeOnBars
  <2>1. PICK equity \in Number : equity = Equity(close) /\ (Untraded => equity = Q(InitialCash))
    BY EquityIs
  <2>2. PICK n \in Nat : n = Len(equities) /\ bars = n + 1 /\ bars - 1 = n
    <3>1. onBars
      BY <1>4 DEF BeforeOnBars
    <3>2. PICK n \in Nat : n = Len(equities)
      BY <1>1, LenProperties
    <3>3. bars = n + 1
      BY <1>1, <3>1, <3>2
    <3> QED BY <3>2, <3>3
  <2>3. PICK e \in Seq(Number) : e = equities /\ Len(e) = n
    BY <1>1, <2>2
  <2>4. PICK w : w = TimeWeighted(portfolioReturns, equity)
    OBVIOUS
  <2>5. /\ onBars' = FALSE /\ portfolioReturns' = w
        /\ returns' = [net |-> AppendTo(returns.net, bars, w.lastPeriodRet),
                       cum |-> AppendTo(returns.cum, bars, w.cumRet)]
        /\ daily' = DailyReturns(daily, (bars - 1) \div BarsPerDay, w.lastPeriodRet)
        /\ drawDown' = FromHigh(drawDown, bars, equity)
        /\ equities' = Append(e, equity)
        /\ UNCHANGED <<bars, cash, shares>>
    BY <1>4, <2>1, <2>3, <2>4 DEF BeforeOnBars
  <2>6. portfolioReturns.lastValue \in Number /\ portfolioReturns.cumRet \in Number
    BY <1>1 DEF Compounds
  <2>7. /\ w.lastPeriodRet \in Number /\ w.cumRet \in Number
        /\ Plus(One, w.cumRet) = Times(Plus(One, portfolioReturns.cumRet), Plus(One, w.lastPeriodRet))
    BY <2>4, <2>6, Compounded
  <2>8. Compounds(portfolioReturns', equities')
    <3>1. Compounds(w, Append(e, equity))
      BY <1>1, <2>3, <2>4, CompoundsNext
    <3> QED BY <2>5, <3>1
  <2>9. Cumulative(returns'.cum, portfolioReturns', equities')
    <3>1. returns'.cum = AppendTo(returns.cum, bars, w.cumRet)
      BY <2>5
    <3>2. Cumulative(AppendTo(returns.cum, bars, w.cumRet), w, equities')
      BY <1>1, <2>7, CumulativeNext
    <3> QED BY <2>5, <3>1, <3>2
  <2>10. ByDay(daily', portfolioReturns', equities')
    <3>1. ByDay(DailyReturns(daily, Len(e) \div BarsPerDay, w.lastPeriodRet), w, Append(e, equity))
      BY <1>1, <2>3, <2>6, <2>7, ByDayNext
    <3>2. daily' = DailyReturns(daily, Len(e) \div BarsPerDay, w.lastPeriodRet)
      BY <2>2, <2>3, <2>5
    <3> QED BY <2>5, <3>1, <3>2
  <2>11. DrawDownIs(drawDown', equities')
    <3>1. e = << >> => Positive(equity)
      <4>1. ASSUME e = << >> PROVE bars <= 1
        <5>1. Len(<< >>) = 0
          OBVIOUS
        <5> QED BY <2>2, <2>3, <4>1, <5>1
      <4>2. Positive(Q(InitialCash))
        BY CashIs DEF Positive, Q
      <4> QED BY <1>1, <2>1, <4>1, <4>2
    <3>2. DrawDownIs(FromHigh(drawDown, Len(e) + 1, equity), Append(e, equity))
      BY <1>1, <2>3, <3>1, FromHighIs
    <3>3. drawDown' = FromHigh(drawDown, Len(e) + 1, equity)
      BY <2>2, <2>3, <2>5
    <3> QED BY <2>5, <3>2, <3>3
  <2>12. equities' \in Seq(Number) /\ Len(equities') = n + 1
    <3>1. AppendedTo(Append(e, equity), e, equity, Number)
      BY Appended
    <3> QED BY <2>3, <2>5, <3>1 DEF AppendedTo
  <2>13. bars' \in Nat /\ (bars' <= 1 => Untraded') /\ bars' = Len(equities')
    BY <1>1, <2>2, <2>5, <2>12 DEF Untraded
  <2> QED BY <2>5, <2>8, <2>9, <2>10, <2>11, <2>12, <2>13 DEF MeasuresInv
<1>5. CASE UNCHANGED analyzersVars
  BY <1>1, <1>5 DEF analyzersVars, MeasuresInv, Untraded
<1> QED BY <1>2, <1>3, <1>4, <1>5 DEF AnalyzersNext

LEMMA MeasuresAgreeHolds == MeasuresInv => MeasuresAgree
<1> SUFFICES ASSUME MeasuresInv, Len(equities) > 0
             PROVE  /\ Zero \notin {equities[k] : k \in 1 .. Len(equities) - 1} =>
                         /\ Last(returns.cum.values) = Minus(Over(equities[Len(equities)], Q(InitialCash)), One)
                         /\ Minus(Product(Factors(daily.returns)), One)
                              = Minus(Over(equities[Len(equities)], Q(InitialCash)), One)
                    /\ Len(daily.returns) = (Len(equities) - 1) \div BarsPerDay + 1
                    /\ drawDown.maxDD = Lowest({FallAt(equities, k) : k \in 1 .. Len(equities)})
                    /\ drawDown.longest = Max({WaitAt(equities, k) : k \in 1 .. Len(equities)})
  BY Zenon DEF MeasuresAgree, Factors, FallAt, WaitAt, HighestOf
<1>1. /\ equities \in Seq(Number)
      /\ Compounds(portfolioReturns, equities) /\ Cumulative(returns.cum, portfolioReturns, equities)
      /\ ByDay(daily, portfolioReturns, equities) /\ DrawDownIs(drawDown, equities)
  BY DEF MeasuresInv
<1>2. PICK n \in Nat \ {0} : n = Len(equities)
  <2>1. Len(equities) \in Nat
    BY <1>1, LenProperties
  <2> QED BY <2>1
<1>3. equities # << >>
  <2>1. Len(<< >>) = 0
    OBVIOUS
  <2> QED BY <1>2, <2>1
<1>4. /\ drawDown.maxDD = Lowest({FallAt(equities, k) : k \in 1 .. n})
      /\ drawDown.longest = Max({WaitAt(equities, k) : k \in 1 .. n})
  BY <1>1, <1>2, DrawDownAgrees
<1>5. /\ (\A k \in 1 .. Len(equities) - 1 : equities[k] # Zero) =>
           /\ Last(returns.cum.values) = Minus(Over(equities[Len(equities)], Q(InitialCash)), One)
           /\ Minus(Product(Factors(daily.returns)), One)
                = Minus(Over(equities[Len(equities)], Q(InitialCash)), One)
      /\ Len(daily.returns) = (Len(equities) - 1) \div BarsPerDay + 1
  BY <1>1, <1>3, ReturnsAgree
<1>6. Zero \notin {equities[k] : k \in 1 .. Len(equities) - 1}
      => \A k \in 1 .. Len(equities) - 1 : equities[k] # Zero
  OBVIOUS
<1> QED BY <1>2, <1>4, <1>5, <1>6

(* In every run of a strategy, with any instruments, executions and        *)
(* prices, the trades that Trades reports, with the open positions, add up *)
(* to what the equity changed by, however positions are extended, reduced, *)
(* closed and reversed, in prices and in commissions; cumulative and daily *)
(* returns compound to that change; and the drawdown is the deepest fall   *)
(* and the longest time from the highest equity before.                    *)
THEOREM AnalyzersAgreeCorrect == AnalyzersSpec => []AnalyzersAgree
<1>1. AnalyzersInit => BooksInv /\ MeasuresInv
  BY BooksStart, MeasuresStart
<1>2. (BooksInv /\ MeasuresInv) /\ [AnalyzersNext]_analyzersVars => (BooksInv /\ MeasuresInv)'
  BY BooksKept, MeasuresKept
<1>3. BooksInv /\ MeasuresInv => AnalyzersAgree
  BY TradesAddUpHolds, MeasuresAgreeHolds DEF AnalyzersAgree
<1> QED BY <1>1, <1>2, <1>3, PTL DEF AnalyzersSpec

-----------------------------------------------------------------------------
(* The event profiler.                                                     *)

Value == Number \cup {None}

(* The return of a close over the one before, which is not defined over 0. *)
ReturnOf(a, b) ==
  IF Minus(b, a) = Zero THEN Zero ELSE IF a = Zero THEN None ELSE Over(Minus(b, a), a)

(* A difference is 0 when its numerator is.                                *)
LEMMA IsZero ==
  ASSUME NEW n, NEW d, Is(Zero, n, d)
  PROVE  n = 0
<1>1. Zero[1] = 0 /\ Zero[2] = 1
  BY DEF Zero, Q
<1>2. n \in Int /\ d \in Int /\ 0 * d = n * 1
  BY <1>1 DEF Is
<1> QED BY <1>2

LEMMA ReturnIs ==
  ASSUME NEW a \in Number, NEW b \in Number
  PROVE  /\ ReturnOf(a, b) \in Value
         /\ ReturnOf(a, b) # None <=> (a = Zero => b = Zero)
         /\ a # Zero => Plus(ReturnOf(a, b), One) = Over(b, a)
<1>1. PICK x \in Int, y \in Int, z \in Int, d \in Nat \ {0} : Is(a, x, d) /\ Is(b, y, d) /\ Is(b, z, d)
  BY ThreeNumbers
<1>2. Is(Minus(b, a), y - x, d) /\ Is(Zero, 0, d) /\ Is(One, d, d) /\ Zero \in Number
  <2>1. Is(Zero, 0 * d, d) /\ Is(One, 1 * d, d) /\ Zero \in Number
    BY <1>1, IsQ DEF Zero, One
  <2>2. 0 * d = 0 /\ 1 * d = d
    OBVIOUS
  <2> QED BY <1>1, <2>1, <2>2, IsPlus
<1>3. Minus(b, a) = Zero <=> b = a
  <2>1. ASSUME Minus(b, a) = Zero PROVE b = a
    <3>1. y - x = 0
      BY <1>2, <2>1, IsZero
    <3>2. y = x
      BY <3>1
    <3>3. y * d = x * d
      BY <3>2
    <3> QED BY <1>1, <3>3, IsEqual
  <2>2. ASSUME b = a PROVE Minus(b, a) = Zero
    <3>1. Is(Minus(a, a), x - x, d) /\ (x - x) * d = 0 * d
      BY <1>1, IsPlus
    <3> QED BY <1>2, <2>2, <3>1, IsEqual
  <2> QED BY <2>1, <2>2
<1>4. Minus(b, a) \in Number /\ (a # Zero => Over(Minus(b, a), a) \in Number)
  BY Numbers
<1>5. ReturnOf(a, b) \in Value
  BY <1>2, <1>4 DEF ReturnOf, Value
<1>6. ReturnOf(a, b) # None <=> (a = Zero => b = Zero)
  BY <1>2, <1>3, <1>4, NoneIs DEF ReturnOf
<1>7. ASSUME a # Zero PROVE Plus(ReturnOf(a, b), One) = Over(b, a)
  <2>1. x # 0
    <3>1. x = 0 => x * d = 0 * d
      OBVIOUS
    <3> QED BY <1>1, <1>2, <1>7, <3>1, IsEqual
  <2>2. Is(Over(b, a), y, x)
    BY <1>1, <2>1, IsOver
  <2>3. Is(ReturnOf(a, b), y - x, x)
    <3>1. CASE Minus(b, a) = Zero
      <4>1. ReturnOf(a, b) = Zero
        BY <3>1 DEF ReturnOf
      <4>2. Is(Zero, 0 * x, x) /\ 0 * x = 0
        BY <2>1, IsQ DEF Zero
      <4>3. y - x = 0
        BY <1>2, <3>1, IsZero
      <4> QED BY <4>1, <4>2, <4>3
    <3>2. CASE Minus(b, a) # Zero
      <4>1. ReturnOf(a, b) = Over(Minus(b, a), a)
        BY <1>7, <3>2 DEF ReturnOf
      <4> QED BY <1>1, <1>2, <2>1, <4>1, IsOver
    <3> QED BY <3>1, <3>2
  <2>4. Is(One, 1 * x, x)
    BY <2>1, IsQ DEF One
  <2>5. Is(Plus(ReturnOf(a, b), One), y, x)
    <3>1. Is(Plus(ReturnOf(a, b), One), (y - x) + 1 * x, x)
      BY <2>3, <2>4, IsPlus
    <3>2. (y - x) + 1 * x = y
      OBVIOUS
    <3> QED BY <3>1, <3>2
  <2>6. y * x = y * x
    OBVIOUS
  <2> QED BY <2>2, <2>5, <2>6, IsEqual
<1> QED BY <1>5, <1>6, <1>7

(* The quotient of two numbers over the same.                              *)
Cancels(a, b, c) ==
  /\ Times(Over(b, a), Over(c, b)) = Over(c, a)
  /\ Over(Over(c, a), Over(b, a)) = Over(c, b)
  /\ Over(a, a) = One

LEMMA OverTheSame ==
  ASSUME NEW a \in Number, NEW b \in Number, NEW c \in Number, a # Zero, b # Zero
  PROVE  Cancels(a, b, c)
<1>1. PICK x \in Int, y \in Int, z \in Int, d \in Nat \ {0} : Is(a, x, d) /\ Is(b, y, d) /\ Is(c, z, d)
  BY ThreeNumbers
<1>2. x # 0 /\ y # 0
  <2>1. Is(Zero, 0 * d, d) /\ x * d = x * d /\ y * d = y * d
    BY <1>1, IsQ DEF Zero
  <2> QED BY <1>1, <2>1, IsEqual
<1>3. Is(Over(b, a), y, x) /\ Is(Over(c, b), z, y) /\ Is(Over(c, a), z, x) /\ Is(Over(a, a), x, x)
  BY <1>1, <1>2, IsOver
<1>4. Times(Over(b, a), Over(c, b)) = Over(c, a)
  <2>1. Is(Times(Over(b, a), Over(c, b)), y * z, x * y)
    BY <1>3, IsTimes
  <2>2. (y * z) * x = z * (x * y)
    OBVIOUS
  <2> QED BY <1>3, <2>1, <2>2, IsEqual
<1>5. Over(Over(c, a), Over(b, a)) = Over(c, b)
  <2>1. Is(Over(Over(c, a), Over(b, a)), z, y)
    BY <1>2, <1>3, IsOver
  <2>2. z * y = z * y
    OBVIOUS
  <2> QED BY <1>3, <2>1, <2>2, IsEqual
<1>6. Over(a, a) = One
  <2>1. Is(One, 1 * x, x) /\ x * x = (1 * x) * x
    BY <1>2, IsQ DEF One
  <2> QED BY <1>3, <2>1, IsEqual
<1> QED BY <1>4, <1>5, <1>6 DEF Cancels

(* Short sequences.                                                        *)
LEMMA PairOf ==
  ASSUME NEW E, NEW a \in E, NEW b \in E
  PROVE  /\ Append(<< >>, a) = <<a>> /\ Append(<<a>>, b) = <<a, b>> /\ Tail(<<a, b>>) = <<b>>
<1>1. Append(<< >>, a) = <<a>>
  OBVIOUS
<1>2. Append(<<a>>, b) = <<a, b>>
  <2>1. PICK s \in Seq(E) : s = <<a>> /\ Len(s) = 1 /\ s[1] = a
    <3>1. <<a>> \in Seq(E) /\ Len(<<a>>) = 1 /\ <<a>>[1] = a
      OBVIOUS
    <3> QED BY <3>1
  <2>2. PICK t \in Seq(E) : t = <<a, b>> /\ Len(t) = 2 /\ t[1] = a /\ t[2] = b
    <3>1. <<a, b>> \in Seq(E) /\ Len(<<a, b>>) = 2 /\ <<a, b>>[1] = a /\ <<a, b>>[2] = b
      OBVIOUS
    <3> QED BY <3>1
  <2>3. PICK u \in Seq(E) : u = Append(s, b) /\ Len(u) = 1 + 1 /\ u[1] = a /\ u[1 + 1] = b
    <3>1. Append(s, b) \in Seq(E) /\ Len(Append(s, b)) = Len(s) + 1 /\ Append(s, b)[Len(s) + 1] = b
          /\ \A i \in 1 .. Len(s) : Append(s, b)[i] = s[i]
      BY AppendProperties
    <3>2. 1 \in 1 .. Len(s)
      BY <2>1
    <3> QED BY <2>1, <3>1, <3>2
  <2>4. Len(u) = Len(t) /\ \A k \in 1 .. Len(u) : u[k] = t[k]
    BY <2>2, <2>3
  <2>5. u = t
    BY <2>4, SeqEqual
  <2> QED BY <2>1, <2>2, <2>3, <2>5
<1>3. Tail(<<a, b>>) = <<b>>
  OBVIOUS
<1> QED BY <1>1, <1>2, <1>3

LEMMA OnlyOne ==
  ASSUME NEW E, NEW s \in Seq(E), NEW n, n = Len(s)
  PROVE  /\ n = 0 => s = << >>
         /\ n = 1 => s = <<s[1]>>
<1>1. n = 0 => s = << >>
  BY EmptySeq
<1>2. ASSUME n = 1 PROVE s = <<s[1]>>
  <2>1. s[1] \in E
    <3>1. 1 \in 1 .. Len(s)
      BY <1>2
    <3> QED BY <3>1, ElementOfSeq
  <2>2. PICK t \in Seq(E) : t = <<s[1]>> /\ Len(t) = 1 /\ t[1] = s[1]
    <3>1. PICK a \in E : a = s[1]
      BY <2>1
    <3>2. <<a>> \in Seq(E) /\ Len(<<a>>) = 1 /\ <<a>>[1] = a
      OBVIOUS
    <3> QED BY <3>1, <3>2
  <2>3. \A k \in 1 .. 1 : s[k] = t[k]
    BY <2>2
  <2> QED BY <1>2, <2>2, <2>3, SeqEqual
<1> QED BY <1>1, <1>2

(* The return of a bar, and those around it.                               *)
ReturnAt(c, k) == IF k \in 2 .. Len(c) THEN ReturnOf(c[k - 1], c[k]) ELSE None
EventAt(c, k)  == [t \in Offsets |-> ReturnAt(c, k + t)]

LastTwo(c) == IF Len(c) < 2 THEN c ELSE <<c[Len(c) - 1], c[Len(c)]>>
WindowOf(c) == [values |-> LastTwo(c), value |-> ReturnAt(c, Len(c))]

(* What waits for a return, when events took place at the bars of a.       *)
Waiting(c, a) ==
  {[event |-> e, t |-> Len(c) - a[e] + 1] : e \in {x \in DOMAIN a : Len(c) - a[x] < LookForward}}

ProfileOf(c, a) ==
  [window |-> WindowOf(c), rets |-> [k \in 1 .. Len(c) |-> ReturnAt(c, k)],
   events |-> [e \in DOMAIN a |-> EventAt(c, a[e])], futureRets |-> Waiting(c, a)]

LEMMA OffsetsAre ==
  /\ LookBack \in Nat \ {0} /\ LookForward \in Nat \ {0}
  /\ \A t : t \in Offsets <=> t \in Int /\ -LookBack <= t /\ t <= LookForward
  /\ 0 \in Offsets
<1>1. LookBack \in Nat \ {0} /\ LookForward \in Nat \ {0}
  BY EventProfilerAssumption
<1> QED BY <1>1 DEF Offsets

(* One more close.                                                         *)
Longer(c, x, d) == /\ c \in Seq(Number) /\ x \in Number /\ d \in Seq(Number) /\ d = Append(c, x)
                   /\ Len(c) \in Nat /\ Len(d) = Len(c) + 1 /\ d[Len(c) + 1] = x
                   /\ \A k \in 1 .. Len(c) : d[k] = c[k] /\ c[k] \in Number

LEMMA LongerIs ==
  ASSUME NEW c \in Seq(Number), NEW x \in Number
  PROVE  Longer(c, x, Append(c, x))
<1>1. PICK n \in Nat : n = Len(c)
  BY LenProperties
<1>2. /\ Append(c, x) \in Seq(Number) /\ Len(Append(c, x)) = n + 1 /\ Append(c, x)[n + 1] = x
      /\ \A k \in 1 .. n : Append(c, x)[k] = c[k]
  BY <1>1, AppendProperties
<1>3. \A k \in 1 .. n : c[k] \in Number
  BY <1>1, ElementOfSeq
<1> QED BY <1>1, <1>2, <1>3 DEF Longer

LEMMA ReturnsAre ==
  ASSUME NEW c \in Seq(Number), NEW k \in Int
  PROVE  ReturnAt(c, k) \in Value
<1>1. CASE k \in 2 .. Len(c)
  <2>1. Len(c) \in Nat
    BY LenProperties
  <2>2. k \in 1 .. Len(c) /\ k - 1 \in 1 .. Len(c)
    BY <1>1, <2>1
  <2>3. c[k - 1] \in Number /\ c[k] \in Number
    BY <2>2, ElementOfSeq
  <2> QED BY <1>1, <2>3, ReturnIs DEF ReturnAt
<1>2. CASE k \notin 2 .. Len(c)
  BY <1>2 DEF ReturnAt, Value
<1> QED BY <1>1, <1>2

LEMMA ReturnsKept ==
  ASSUME NEW c, NEW x, NEW d, Longer(c, x, d), NEW k \in Int
  PROVE  k # Len(c) + 1 => ReturnAt(d, k) = ReturnAt(c, k)
<1>1. PICK n \in Nat : n = Len(c) /\ Len(d) = n + 1 /\ \A j \in 1 .. n : d[j] = c[j]
  BY DEF Longer
<1>2. CASE k \in 2 .. n
  <2>1. k \in 1 .. n /\ k - 1 \in 1 .. n /\ k \in 2 .. n + 1
    BY <1>2
  <2>2. d[k] = c[k] /\ d[k - 1] = c[k - 1]
    BY <1>1, <2>1
  <2> QED BY <1>1, <1>2, <2>1, <2>2 DEF ReturnAt
<1>3. CASE k \notin 2 .. n /\ k # n + 1
  <2>1. k \notin 2 .. n + 1
    BY <1>3
  <2> QED BY <1>1, <1>3, <2>1 DEF ReturnAt
<1> QED BY <1>1, <1>2, <1>3

(* RateOfChange keeps the last two closes.                                 *)
LEMMA RateOfChangeIs ==
  ASSUME NEW c, NEW x, NEW d, Longer(c, x, d)
  PROVE  RateOfChange(WindowOf(c), x, 1) = WindowOf(d)
<1>1. PICK n \in Nat : /\ n = Len(c) /\ Len(d) = n + 1 /\ d[n + 1] = x /\ d = Append(c, x) /\ c \in Seq(Number)
                       /\ \A j \in 1 .. n : d[j] = c[j]
  BY DEF Longer
<1>2. x \in Number /\ x # None
  BY NoneIs DEF Longer
<1>3. PICK v : v = Enter(LastTwo(c), x, 2) /\ v = Shifted(LastTwo(c), x, 2)
  BY <1>2 DEF Enter
<1>4. RateOfChange(WindowOf(c), x, 1) =
        [values |-> v, value |-> IF Len(v) = 2 THEN
           (IF Minus(Last(v), Head(v)) = Zero THEN Zero
            ELSE IF Head(v) = Zero THEN None ELSE Over(Minus(Last(v), Head(v)), Head(v))) ELSE None]
  <2>1. WindowOf(c).values = LastTwo(c) /\ 1 + 1 = 2
    BY DEF WindowOf
  <2> QED BY <1>3, <2>1 DEF RateOfChange, Windowed, WindowFull
<1>5. CASE n = 0
  <2>1. c = << >> /\ d = <<x>>
    <3>1. c = << >>
      BY <1>1, <1>5, OnlyOne
    <3>2. Append(<< >>, x) = <<x>>
      BY <1>2, PairOf
    <3> QED BY <1>1, <3>1, <3>2
  <2>2. LastTwo(c) = << >> /\ LastTwo(d) = <<x>> /\ Len(<<x>>) = 1 /\ Len(<< >>) = 0
    BY <2>1 DEF LastTwo
  <2>3. v = <<x>>
    BY <1>3, <2>2 DEF Shifted
  <2>4. ReturnAt(d, Len(d)) = None
    BY <1>1, <1>5 DEF ReturnAt
  <2> QED BY <1>4, <2>2, <2>3, <2>4 DEF WindowOf
<1>6. CASE n >= 1
  <2>1. n \in 1 .. n /\ (n + 1) - 1 = n /\ n + 1 \in 2 .. n + 1
    BY <1>6
  <2>2. PICK y \in Number : y = c[n] /\ y = d[n]
    BY <1>1, <2>1, ElementOfSeq
  <2>3. v = <<y, x>>
    <3>1. CASE n = 1
      <4>1. c = <<y>>
        BY <1>1, <2>2, <3>1, OnlyOne
      <4>2. LastTwo(c) = <<y>> /\ Len(<<y>>) = 1
        BY <1>1, <3>1, <4>1 DEF LastTwo
      <4>3. Append(<<y>>, x) = <<y, x>>
        BY <1>2, PairOf
      <4> QED BY <1>3, <4>2, <4>3 DEF Shifted
    <3>2. CASE n # 1
      <4>1. n - 1 \in 1 .. n /\ ~(n < 2)
        BY <1>6, <3>2
      <4>2. PICK z \in Number : z = c[n - 1]
        BY <1>1, <4>1, ElementOfSeq
      <4>3. LastTwo(c) = <<z, y>> /\ Len(<<z, y>>) = 2
        BY <1>1, <2>2, <4>1, <4>2 DEF LastTwo
      <4>4. Tail(<<z, y>>) = <<y>> /\ Append(<<y>>, x) = <<y, x>>
        BY <1>2, PairOf
      <4> QED BY <1>3, <4>3, <4>4 DEF Shifted
    <3> QED BY <3>1, <3>2
  <2>4. Len(v) = 2 /\ Head(v) = y /\ Last(v) = x
    BY <2>3 DEF Last
  <2>5. ReturnAt(d, n + 1) = ReturnOf(y, x)
    BY <1>1, <2>1, <2>2 DEF ReturnAt
  <2>6. LastTwo(d) = <<y, x>>
    <3>1. ~(n + 1 < 2)
      BY <1>6
    <3> QED BY <1>1, <2>1, <2>2, <3>1 DEF LastTwo
  <2> QED BY <1>1, <1>4, <2>3, <2>4, <2>5, <2>6 DEF WindowOf, ReturnOf
<1> QED BY <1>1, <1>5, <1>6

(* A new event takes the returns up to its bar.                            *)
LEMMA PastReturnsIs ==
  ASSUME NEW d \in Seq(Number), NEW m \in Nat, m = Len(d)
  PROVE  PastReturns(NewEvent, [k \in 1 .. m |-> ReturnAt(d, k)]) = EventAt(d, m)
<1>1. PICK r : r = [k \in 1 .. m |-> ReturnAt(d, k)]
  OBVIOUS
<1>2. DOMAIN r = 1 .. m /\ Len(r) = m /\ \A k \in 1 .. m : r[k] = ReturnAt(d, k)
  <2>1. \A k \in 1 .. m : ReturnAt(d, k) \in Value
    BY ReturnsAre
  <2>2. r \in Seq(Value)
    BY <1>1, <2>1
  <2>3. Len(r) \in Nat /\ DOMAIN r = 1 .. Len(r) /\ DOMAIN r = 1 .. m
    BY <1>1, <2>2, LenProperties
  <2> QED BY <1>1, <2>3
<1>3. ASSUME NEW t \in Offsets
      PROVE  (IF t <= 0 /\ m + t \in DOMAIN r THEN SetValue(NewEvent, t, r[m + t])[t] ELSE NewEvent[t])
               = ReturnAt(d, m + t)
  <2>1. t \in Int /\ m + t \in Int
    BY OffsetsAre
  <2>2. NewEvent[t] = None
    BY DEF NewEvent
  <2>3. CASE t <= 0 /\ m + t \in 1 .. m
    <3>1. r[m + t] = ReturnAt(d, m + t)
      BY <1>2, <2>3
    <3>2. \A v : SetValue(NewEvent, t, v)[t] = v
      BY <2>2 DEF SetValue, NewEvent
    <3> QED BY <1>2, <2>3, <3>1, <3>2
  <2>4. CASE ~(t <= 0 /\ m + t \in 1 .. m)
    <3>1. m + t \notin 2 .. m
      BY <2>1, <2>4
    <3> QED BY <1>2, <2>2, <2>4, <3>1 DEF ReturnAt
  <2> QED BY <1>2, <2>3, <2>4
<1>4. PastReturns(NewEvent, r) =
        [t \in Offsets |-> IF t <= 0 /\ m + t \in DOMAIN r THEN SetValue(NewEvent, t, r[m + t])[t] ELSE NewEvent[t]]
  BY <1>2 DEF PastReturns
<1> QED BY <1>1, <1>3, <1>4 DEF EventAt

(* The event of the bar k, when the return of the next bar comes.          *)
LEMMA EventKept ==
  ASSUME NEW c, NEW x, NEW d, Longer(c, x, d), NEW k \in 1 .. Len(c)
  PROVE  EventAt(d, k) = IF Len(c) - k < LookForward
                         THEN SetValue(EventAt(c, k), Len(c) - k + 1, ReturnAt(d, Len(c) + 1))
                         ELSE EventAt(c, k)
<1>1. PICK n \in Nat : n = Len(c)
  BY DEF Longer
<1>2. k \in Int /\ \A t \in Offsets : t \in Int /\ k + t \in Int
  BY <1>1, OffsetsAre
<1>3. \A t \in Offsets : k + t # n + 1 => EventAt(d, k)[t] = EventAt(c, k)[t]
  <2>1. SUFFICES ASSUME NEW t \in Offsets, k + t # n + 1 PROVE EventAt(d, k)[t] = EventAt(c, k)[t]
    OBVIOUS
  <2>2. ReturnAt(d, k + t) = ReturnAt(c, k + t)
    BY <1>1, <1>2, <2>1, ReturnsKept
  <2> QED BY <2>1, <2>2 DEF EventAt
<1>4. CASE n - k < LookForward
  <2>1. PICK u \in Offsets : u = n - k + 1 /\ k + u = n + 1
    <3>1. n - k + 1 \in Int /\ -LookBack <= n - k + 1 /\ n - k + 1 <= LookForward /\ k + (n - k + 1) = n + 1
      BY <1>1, <1>2, <1>4, OffsetsAre
    <3> QED BY <3>1, OffsetsAre
  <2>2. EventAt(d, k)[u] = ReturnAt(d, n + 1)
    BY <2>1 DEF EventAt
  <2>3. EventAt(c, k)[u] = None
    <3>1. n + 1 \notin 2 .. n
      OBVIOUS
    <3> QED BY <1>1, <2>1, <3>1 DEF EventAt, ReturnAt
  <2>4. \A t \in Offsets : t # u => k + t # n + 1
    BY <1>1, <1>2, <2>1
  <2>5. PICK f \in [Offsets -> {EventAt(d, k)[t] : t \in Offsets}] : f = EventAt(d, k)
    BY DEF EventAt
  <2>6. PICK g : g = EventAt(c, k)
    OBVIOUS
  <2>7. g = [t \in Offsets |-> g[t]]
    BY <2>6 DEF EventAt
  <2>8. \A t \in Offsets : t # u => f[t] = g[t]
    BY <1>3, <2>4, <2>5, <2>6
  <2>9. PICK r : r = ReturnAt(d, n + 1) /\ f[u] = r /\ g[u] = None
    BY <2>2, <2>3, <2>5, <2>6
  <2>10. f = [t \in Offsets |-> IF t = u THEN r ELSE g[t]]
    BY <2>5, <2>8, <2>9
  <2>11. SetValue(g, u, r) = [t \in Offsets |-> IF t = u THEN r ELSE g[t]]
    <3>1. CASE r = None
      <4>1. \A t \in Offsets : (IF t = u THEN r ELSE g[t]) = g[t]
        BY <2>9, <3>1
      <4>2. SetValue(g, u, r) = g
        BY <3>1 DEF SetValue
      <4> QED BY <2>7, <4>1, <4>2
    <3>2. CASE r # None
      <4>1. SetValue(g, u, r) = [g EXCEPT ![u] = r]
        BY <3>2 DEF SetValue
      <4>2. DOMAIN g = Offsets
        BY <2>7
      <4> QED BY <2>7, <4>1, <4>2
    <3> QED BY <3>1, <3>2
  <2>12. f = SetValue(g, u, r)
    BY <2>10, <2>11
  <2> QED BY <1>1, <1>4, <2>1, <2>5, <2>6, <2>9, <2>12
<1>5. CASE ~(n - k < LookForward)
  <2>1. \A t \in Offsets : k + t # n + 1
    <3>1. \A t \in Offsets : t \in Int /\ t <= LookForward
      BY OffsetsAre
    <3>2. LookForward \in Int
      BY OffsetsAre
    <3> QED BY <1>1, <1>2, <1>5, <3>1, <3>2
  <2>2. \A t \in Offsets : EventAt(d, k)[t] = EventAt(c, k)[t]
    BY <1>3, <2>1
  <2>3. EventAt(d, k) = EventAt(c, k)
    BY <2>2 DEF EventAt
  <2> QED BY <1>1, <1>5, <2>3
<1> QED BY <1>1, <1>4, <1>5

(* The events at some bars of c, and the record of them.                   *)
EventsAt(c, a) == [e \in DOMAIN a |-> EventAt(c, a[e])]
ReturnsOf(c)   == [k \in 1 .. Len(c) |-> ReturnAt(c, k)]
Profiled(d, c, a) ==
  [window |-> WindowOf(d), rets |-> ReturnsOf(d), events |-> EventsAt(c, a), futureRets |-> Waiting(c, a)]

LEMMA WaitingIs ==
  ASSUME NEW c, NEW x, NEW d, Longer(c, x, d), NEW a, \A e \in DOMAIN a : a[e] \in 1 .. Len(c)
  PROVE  /\ \A e \in DOMAIN a :
              {f \in Waiting(c, a) : f.event = e}
                = IF Len(c) - a[e] < LookForward THEN {[event |-> e, t |-> Len(c) - a[e] + 1]} ELSE {}
         /\ {[event |-> f.event, t |-> f.t + 1] : f \in {g \in Waiting(c, a) : g.t < LookForward}} = Waiting(d, a)
<1>1. PICK n \in Nat : n = Len(c) /\ Len(d) = n + 1
  BY DEF Longer
<1>2. PICK LF \in Nat : LF = LookForward
  BY OffsetsAre
<1>3. PICK W : W = Waiting(c, a)
  OBVIOUS
<1>4. W = {[event |-> e, t |-> n - a[e] + 1] : e \in {y \in DOMAIN a : n - a[y] < LF}}
  BY <1>1, <1>2, <1>3 DEF Waiting
<1>5. \A e \in DOMAIN a : a[e] \in Nat
  BY <1>1
<1>6. \A e \in DOMAIN a :
        {f \in W : f.event = e} = IF n - a[e] < LF THEN {[event |-> e, t |-> n - a[e] + 1]} ELSE {}
  BY <1>4
<1>7. {[event |-> f.event, t |-> f.t + 1] : f \in {g \in W : g.t < LF}} = Waiting(d, a)
  <2>1. PICK V : V = Waiting(d, a)
    OBVIOUS
  <2>2. V = {[event |-> e, t |-> (n + 1) - a[e] + 1] : e \in {y \in DOMAIN a : (n + 1) - a[y] < LF}}
    BY <1>1, <1>2, <2>1 DEF Waiting
  <2>3. \A e \in DOMAIN a : /\ (n - a[e] < LF /\ n - a[e] + 1 < LF <=> (n + 1) - a[e] < LF)
                            /\ (n - a[e] + 1) + 1 = (n + 1) - a[e] + 1
    BY <1>5
  <2>4. PICK U : U = {[event |-> f.event, t |-> f.t + 1] : f \in {g \in W : g.t < LF}}
    OBVIOUS
  <2>5. ASSUME NEW v \in U PROVE v \in V
    <3>1. PICK f \in W : f.t < LF /\ v = [event |-> f.event, t |-> f.t + 1]
      BY <2>4
    <3>2. PICK e \in DOMAIN a : n - a[e] < LF /\ f = [event |-> e, t |-> n - a[e] + 1]
      BY <1>4
    <3>3. f.event = e /\ f.t = n - a[e] + 1
      BY <3>2
    <3>4. (n + 1) - a[e] < LF /\ v = [event |-> e, t |-> (n + 1) - a[e] + 1]
      BY <2>3, <3>1, <3>2, <3>3
    <3> QED BY <2>2, <3>4
  <2>6. ASSUME NEW v \in V PROVE v \in U
    <3>1. PICK e \in DOMAIN a : (n + 1) - a[e] < LF /\ v = [event |-> e, t |-> (n + 1) - a[e] + 1]
      BY <2>2
    <3>2. PICK f : f = [event |-> e, t |-> n - a[e] + 1]
      OBVIOUS
    <3>5. f.event = e /\ f.t = n - a[e] + 1
      BY <3>2
    <3>3. f \in W /\ f.t < LF
      BY <1>4, <2>3, <3>1, <3>2, <3>5
    <3>4. v = [event |-> f.event, t |-> f.t + 1]
      BY <2>3, <3>1, <3>5
    <3> QED BY <2>4, <3>3, <3>4
  <2> QED BY <2>1, <2>4, <2>5, <2>6
<1> QED BY <1>1, <1>2, <1>3, <1>6, <1>7

LEMMA CurrentReturnsIs ==
  ASSUME NEW c, NEW x, NEW d, Longer(c, x, d), NEW a, \A e \in DOMAIN a : a[e] \in 1 .. Len(c)
  PROVE  CurrentReturns(Profiled(d, c, a)) = Profiled(d, d, a)
<1>1. PICK n \in Nat : n = Len(c) /\ Len(d) = n + 1
  BY DEF Longer
<1>2. PICK p : p = Profiled(d, c, a)
  OBVIOUS
<1>3. /\ p.window = WindowOf(d) /\ p.rets = ReturnsOf(d) /\ p.events = EventsAt(c, a)
      /\ p.futureRets = Waiting(c, a) /\ DOMAIN p.events = DOMAIN a
  BY <1>2 DEF Profiled, EventsAt
<1>4. Last(p.rets) = ReturnAt(d, n + 1)
  <2>1. PICK r : r = ReturnsOf(d)
    OBVIOUS
  <2>2. r \in Seq(Value) /\ Len(r) = n + 1 /\ r[n + 1] = ReturnAt(d, n + 1)
    <3>1. \A k \in 1 .. n + 1 : ReturnAt(d, k) \in Value
      <4>1. d \in Seq(Number) /\ \A k \in 1 .. n + 1 : k \in Int
        BY DEF Longer
      <4> QED BY <4>1, ReturnsAre
    <3>2. r = [k \in 1 .. n + 1 |-> ReturnAt(d, k)]
      BY <1>1, <2>1 DEF ReturnsOf
    <3>3. r \in Seq(Value)
      BY <3>1, <3>2
    <3>4. Len(r) \in Nat /\ DOMAIN r = 1 .. Len(r) /\ DOMAIN r = 1 .. n + 1
      BY <3>2, <3>3, LenProperties
    <3> QED BY <3>2, <3>3, <3>4
  <2> QED BY <1>3, <2>1, <2>2 DEF Last
<1>5. PICK r : r = ReturnAt(d, n + 1) /\ Last(p.rets) = r
  BY <1>4
<1>6. \A e \in DOMAIN a :
        (IF {f \in p.futureRets : f.event = e} = {} THEN p.events[e]
         ELSE SetValue(p.events[e], (CHOOSE f \in {f \in p.futureRets : f.event = e} : TRUE).t, Last(p.rets)))
          = EventAt(d, a[e])
  <2>1. SUFFICES ASSUME NEW e \in DOMAIN a, NEW w, w = {f \in p.futureRets : f.event = e}
                 PROVE  (IF w = {} THEN p.events[e]
                         ELSE SetValue(p.events[e], (CHOOSE f \in w : TRUE).t, Last(p.rets))) = EventAt(d, a[e])
    OBVIOUS
  <2>2. w = IF n - a[e] < LookForward THEN {[event |-> e, t |-> n - a[e] + 1]} ELSE {}
    BY <1>1, <1>3, <2>1, WaitingIs
  <2>3. EventAt(d, a[e]) = IF n - a[e] < LookForward THEN SetValue(EventAt(c, a[e]), n - a[e] + 1, r)
                           ELSE EventAt(c, a[e])
    <3>1. PICK k \in 1 .. Len(c) : k = a[e]
      BY <2>1
    <3>2. EventAt(d, k) = IF Len(c) - k < LookForward THEN SetValue(EventAt(c, k), Len(c) - k + 1, ReturnAt(d, Len(c) + 1))
                          ELSE EventAt(c, k)
      BY EventKept
    <3> QED BY <1>1, <1>5, <3>1, <3>2
  <2>4. p.events[e] = EventAt(c, a[e])
    BY <1>3 DEF EventsAt
  <2>5. CASE n - a[e] < LookForward
    <3>1. w = {[event |-> e, t |-> n - a[e] + 1]}
      BY <2>2, <2>5
    <3>2. PICK f : f = (CHOOSE g \in w : TRUE)
      OBVIOUS
    <3>3. f \in w /\ w # {}
      BY <3>1, <3>2
    <3>4. f = [event |-> e, t |-> n - a[e] + 1]
      BY <3>1, <3>3
    <3>5. f.t = n - a[e] + 1
      BY <3>4
    <3>6. EventAt(d, a[e]) = SetValue(p.events[e], f.t, Last(p.rets))
      BY <1>5, <2>3, <2>4, <2>5, <3>5
    <3> QED BY <3>2, <3>3, <3>6
  <2>6. CASE ~(n - a[e] < LookForward)
    <3>1. w = {}
      BY <2>2, <2>6
    <3>2. EventAt(d, a[e]) = EventAt(c, a[e])
      BY <2>3, <2>6
    <3> QED BY <2>4, <3>1, <3>2
  <2> QED BY <2>5, <2>6
<1>7. CurrentReturns(p) =
        [p EXCEPT
          !.events = [e \in DOMAIN p.events |->
             IF {f \in p.futureRets : f.event = e} = {} THEN p.events[e]
             ELSE SetValue(p.events[e], (CHOOSE f \in {f \in p.futureRets : f.event = e} : TRUE).t, Last(p.rets))],
          !.futureRets = {[event |-> f.event, t |-> f.t + 1] : f \in {g \in p.futureRets : g.t < LookForward}}]
  BY DEF CurrentReturns
<1>8. CurrentReturns(p) = [p EXCEPT !.events = EventsAt(d, a), !.futureRets = Waiting(d, a)]
  <2>1. {[event |-> f.event, t |-> f.t + 1] : f \in {g \in p.futureRets : g.t < LookForward}} = Waiting(d, a)
    BY <1>3, WaitingIs
  <2>2. [e \in DOMAIN p.events |->
             IF {f \in p.futureRets : f.event = e} = {} THEN p.events[e]
             ELSE SetValue(p.events[e], (CHOOSE f \in {f \in p.futureRets : f.event = e} : TRUE).t, Last(p.rets))]
          = EventsAt(d, a)
    BY <1>3, <1>6 DEF EventsAt
  <2> QED BY <1>7, <2>1, <2>2
<1> QED BY <1>2, <1>8 DEF Profiled

(* The events among the first closes stay.                                 *)
LEMMA OccurrencesLonger ==
  ASSUME NEW c, NEW x, NEW d, Longer(c, x, d)
  PROVE  /\ Occurrences(c) \in SUBSET (1 .. Len(c))
         /\ Occurrences(d) = Occurrences(c) \cup IF EventOccurred(d) THEN {Len(c) + 1} ELSE {}
<1>1. PICK n \in Nat : n = Len(c) /\ Len(d) = n + 1 /\ c \in Seq(Number) /\ d \in Seq(Number)
        /\ (\A k \in 1 .. n : d[k] = c[k]) /\ DOMAIN c = 1 .. n /\ DOMAIN d = 1 .. n + 1
  <2>1. c \in Seq(Number) /\ d \in Seq(Number)
    BY DEF Longer
  <2>2. DOMAIN c = 1 .. Len(c) /\ DOMAIN d = 1 .. Len(d)
    BY <2>1, LenProperties
  <2> QED BY <2>1, <2>2 DEF Longer
<1>2. ASSUME NEW k \in 1 .. n PROVE SubSeq(d, 1, k) = SubSeq(c, 1, k)
  <2>1. k \in Int /\ 1 <= k /\ k - 1 + 1 = k /\ \A i \in 1 .. k : i \in 1 .. n /\ i \in 1 .. n + 1 /\ 1 + i - 1 = i
    OBVIOUS
  <2>2. \A i \in 1 .. k : c[i] \in Number /\ d[i] \in Number
    BY <1>1, <2>1, ElementOfSeq
  <2>3. /\ SubSeq(c, 1, k) \in Seq(Number) /\ Len(SubSeq(c, 1, k)) = IF 1 <= k THEN k - 1 + 1 ELSE 0
        /\ \A i \in 1 .. k - 1 + 1 : SubSeq(c, 1, k)[i] = c[1 + i - 1]
    BY <2>1, <2>2, SubSeqProperties
  <2>4. /\ SubSeq(d, 1, k) \in Seq(Number) /\ Len(SubSeq(d, 1, k)) = IF 1 <= k THEN k - 1 + 1 ELSE 0
        /\ \A i \in 1 .. k - 1 + 1 : SubSeq(d, 1, k)[i] = d[1 + i - 1]
    BY <2>1, <2>2, SubSeqProperties
  <2>5. PICK s \in Seq(Number), t \in Seq(Number) : s = SubSeq(c, 1, k) /\ t = SubSeq(d, 1, k)
    BY <2>3, <2>4
  <2>6. Len(s) = k /\ Len(t) = k /\ \A i \in 1 .. k : t[i] = s[i]
    BY <1>1, <2>1, <2>3, <2>4, <2>5
  <2>7. t = s
    BY <2>6, SeqEqual
  <2> QED BY <2>5, <2>7
<1>3. SubSeq(d, 1, n + 1) = d
  BY <1>1, SubSeqFull
<1>4. ASSUME NEW k \in 1 .. n PROVE EventOccurred(SubSeq(d, 1, k)) <=> EventOccurred(SubSeq(c, 1, k))
  BY <1>2
<1>5. EventOccurred(SubSeq(d, 1, n + 1)) <=> EventOccurred(d)
  BY <1>3
<1>6. Occurrences(c) \in SUBSET (1 .. n)
  BY <1>1 DEF Occurrences
<1>7. \A k : k \in Occurrences(c) <=> k \in 1 .. n /\ EventOccurred(SubSeq(c, 1, k))
  BY <1>1 DEF Occurrences
<1>8. \A k : k \in Occurrences(d) <=> k \in 1 .. n + 1 /\ EventOccurred(SubSeq(d, 1, k))
  BY <1>1 DEF Occurrences
<1>9. \A k : k \in 1 .. n + 1 <=> k \in 1 .. n \/ k = n + 1
  OBVIOUS
<1>10. \A k : k \in Occurrences(d) <=> k \in Occurrences(c) \/ (k = n + 1 /\ EventOccurred(d))
  BY <1>4, <1>5, <1>7, <1>8, <1>9
<1> QED BY <1>1, <1>6, <1>10

(* A sequence is a function.                                               *)
LEMMA AsFunction ==
  ASSUME NEW E, NEW s \in Seq(E), NEW n, DOMAIN s = 1 .. n
  PROVE  s = [k \in 1 .. n |-> s[k]]
<1>1. s \in [1 .. Len(s) -> E] /\ 1 .. Len(s) = 1 .. n
  BY LenProperties
<1> QED BY <1>1

(* The bars of the events, in order.                                       *)
AtOf(c) == InOrder(Occurrences(c))

LEMMA AtIs ==
  ASSUME NEW c \in Seq(Number)
  PROVE  /\ IsFiniteSet(Occurrences(c)) /\ Occurrences(c) \in SUBSET (1 .. Len(c))
         /\ AtOf(c) \in Seq(1 .. Len(c)) /\ Len(AtOf(c)) = Cardinality(Occurrences(c))
         /\ DOMAIN AtOf(c) = 1 .. Len(AtOf(c)) /\ Ascending(AtOf(c), Len(AtOf(c)), Occurrences(c))
<1>1. PICK n \in Nat : n = Len(c) /\ DOMAIN c = 1 .. n
  BY LenProperties
<1>2. PICK S : S = Occurrences(c)
  OBVIOUS
<1>3. S \in SUBSET (1 .. n) /\ S \in SUBSET Int /\ IsFiniteSet(S)
  <2>1. S \in SUBSET (1 .. n)
    BY <1>1, <1>2 DEF Occurrences
  <2>2. IsFiniteSet(1 .. n) /\ 1 .. n \in SUBSET Int
    BY FS_Interval
  <2> QED BY <2>1, <2>2, FS_Subset
<1>4. PICK m \in Nat : m = Cardinality(S) /\ Ascending(InOrder(S), m, S)
  BY <1>3, Increasing
<1>5. PICK a : a = AtOf(c) /\ a = InOrder(S)
  BY <1>2 DEF AtOf
<1>6. a \in [1 .. m -> 1 .. n] /\ DOMAIN a = 1 .. m
  BY <1>3, <1>4, <1>5 DEF Ascending
<1>7. a \in Seq(1 .. n)
  BY <1>6
<1>8. Len(a) = m
  BY <1>6, <1>7, LenProperties
<1> QED BY <1>1, <1>2, <1>3, <1>4, <1>5, <1>6, <1>7, <1>8

LEMMA AtLonger ==
  ASSUME NEW c, NEW x, NEW d, Longer(c, x, d)
  PROVE  AtOf(d) = IF EventOccurred(d) THEN Append(AtOf(c), Len(c) + 1) ELSE AtOf(c)
<1>1. PICK n \in Nat : n = Len(c) /\ Len(d) = n + 1 /\ c \in Seq(Number) /\ d \in Seq(Number)
  BY DEF Longer
<1>2. PICK S : S = Occurrences(c)
  OBVIOUS
<1>3. PICK a : a = AtOf(c)
  OBVIOUS
<1>4. /\ IsFiniteSet(S) /\ S \in SUBSET (1 .. n) /\ a \in Seq(1 .. n) /\ Len(a) = Cardinality(S)
      /\ DOMAIN a = 1 .. Len(a) /\ Ascending(a, Len(a), S)
  BY <1>1, <1>2, <1>3, AtIs
<1>5. CASE ~EventOccurred(d)
  <2>1. Occurrences(d) = Occurrences(c)
    BY <1>5, OccurrencesLonger
  <2> QED BY <1>5, <2>1 DEF AtOf
<1>6. CASE EventOccurred(d)
  <2>1. PICK T : T = S \cup {n + 1} /\ T = Occurrences(d)
    BY <1>1, <1>2, <1>6, OccurrencesLonger
  <2>2. n + 1 \notin 1 .. n
    OBVIOUS
  <2>3. PICK m \in Nat : m = Len(a)
    BY <1>4, LenProperties
  <2>4. IsFiniteSet(T) /\ Cardinality(T) = m + 1 /\ T \in SUBSET Int
    <3>1. n + 1 \notin S /\ S \in SUBSET Int
      BY <1>4, <2>2
    <3>2. IsFiniteSet(S \cup {n + 1}) /\ Cardinality(S \cup {n + 1}) = Cardinality(S) + 1
      BY <1>4, <3>1, FS_AddElement
    <3> QED BY <1>4, <2>1, <2>3, <3>1, <3>2
  <2>5. PICK b \in Seq(1 .. n + 1) : AppendedTo(b, a, n + 1, 1 .. n + 1)
    <3>1. a \in Seq(1 .. n + 1)
      <4>1. 1 .. n \subseteq 1 .. n + 1
        OBVIOUS
      <4> QED BY <1>4, <4>1
    <3>2. n + 1 \in 1 .. n + 1
      OBVIOUS
    <3>3. AppendedTo(Append(a, n + 1), a, n + 1, 1 .. n + 1)
      BY <3>1, <3>2, Appended
    <3> QED BY <3>3 DEF AppendedTo
  <2>6. /\ b = Append(a, n + 1) /\ Len(b) = m + 1 /\ b[m + 1] = n + 1 /\ DOMAIN b = 1 .. m + 1
        /\ \A k \in 1 .. m : b[k] = a[k]
    BY <2>3, <2>5 DEF AppendedTo
  <2>7. /\ \A k \in 1 .. m : a[k] \in S /\ a[k] \in 1 .. n
        /\ \A j, k \in 1 .. m : j < k <=> a[j] < a[k]
        /\ \A v \in S : \E k \in 1 .. m : a[k] = v
    BY <1>4, <2>3 DEF Ascending
  <2>8. Ascending(b, m + 1, T)
    <3>1. ASSUME NEW k \in 1 .. m + 1 PROVE b[k] \in T
      <4>1. k \in 1 .. m \/ k = m + 1
        OBVIOUS
      <4> QED BY <2>1, <2>6, <2>7, <4>1
    <3>2. ASSUME NEW j \in 1 .. m + 1, NEW k \in 1 .. m + 1 PROVE j < k <=> b[j] < b[k]
      <4>1. CASE j \in 1 .. m /\ k \in 1 .. m
        BY <2>6, <2>7, <4>1
      <4>2. CASE j = m + 1 /\ k = m + 1
        BY <2>6, <4>2
      <4>3. CASE j \in 1 .. m /\ k = m + 1
        <5>1. b[j] \in 1 .. n /\ b[k] = n + 1
          BY <2>6, <2>7, <4>3
        <5> QED BY <4>3, <5>1
      <4>4. CASE j = m + 1 /\ k \in 1 .. m
        <5>1. b[k] \in 1 .. n /\ b[j] = n + 1
          BY <2>6, <2>7, <4>4
        <5> QED BY <4>4, <5>1
      <4>5. (j \in 1 .. m \/ j = m + 1) /\ (k \in 1 .. m \/ k = m + 1)
        OBVIOUS
      <4> QED BY <4>1, <4>2, <4>3, <4>4, <4>5
    <3>3. ASSUME NEW v \in T PROVE \E k \in 1 .. m + 1 : b[k] = v
      <4>1. CASE v \in S
        <5>1. PICK k \in 1 .. m : a[k] = v
          BY <2>7, <4>1
        <5>2. k \in 1 .. m + 1 /\ b[k] = v
          BY <2>6, <5>1
        <5> QED BY <5>2
      <4>2. CASE v = n + 1
        <5>1. m + 1 \in 1 .. m + 1
          OBVIOUS
        <5> QED BY <2>6, <4>2, <5>1
      <4> QED BY <2>1, <4>1, <4>2
    <3>4. b \in [1 .. m + 1 -> T]
      <4>1. b = [k \in 1 .. m + 1 |-> b[k]]
        BY <2>6
      <4> QED BY <3>1, <4>1
    <3> QED BY <3>2, <3>3, <3>4 DEF Ascending
  <2>9. b = InOrder(T)
    BY <2>4, <2>8, IncreasingUnique
  <2> QED BY <1>1, <1>3, <1>6, <2>1, <2>6, <2>9 DEF AtOf
<1> QED BY <1>5, <1>6

(* A bar in the profiler.                                                  *)
LEMMA ProfileIs ==
  ASSUME NEW c, NEW x, NEW d, Longer(c, x, d)
  PROVE  Profile(ProfileOf(c, AtOf(c)), d) = ProfileOf(d, AtOf(d))
<1>1. PICK n \in Nat : n = Len(c) /\ Len(d) = n + 1 /\ d[n + 1] = x /\ c \in Seq(Number) /\ d \in Seq(Number)
  BY DEF Longer
<1>2. PICK a \in Seq(1 .. n) : a = AtOf(c) /\ DOMAIN a = 1 .. Len(a)
  BY <1>1, AtIs
<1>3. \A e \in DOMAIN a : a[e] \in 1 .. n
  BY <1>2, ElementOfSeq
<1>4. PICK p : p = ProfileOf(c, a)
  OBVIOUS
<1>5. p = [window |-> WindowOf(c), rets |-> ReturnsOf(c), events |-> EventsAt(c, a), futureRets |-> Waiting(c, a)]
  BY <1>4 DEF ProfileOf, ReturnsOf, EventsAt
<1>6. PICK w : w = WindowOf(d) /\ w.value = ReturnAt(d, n + 1)
  <2>1. WindowOf(d).value = ReturnAt(d, n + 1)
    BY <1>1 DEF WindowOf
  <2> QED BY <2>1
<1>7. RateOfChange(p.window, Last(d), 1) = w
  <2>1. Last(d) = x
    BY <1>1 DEF Last
  <2>2. p.window = WindowOf(c)
    BY <1>5
  <2> QED BY <1>6, <2>1, <2>2, RateOfChangeIs
<1>8. Append(ReturnsOf(c), ReturnAt(d, n + 1)) = ReturnsOf(d)
  <2>1. PICK r : r = ReturnsOf(c)
    OBVIOUS
  <2>2. r = [k \in 1 .. n |-> ReturnAt(c, k)] /\ \A k \in 1 .. n : ReturnAt(c, k) \in Value
    BY <1>1, <2>1, ReturnsAre DEF ReturnsOf
  <2>3. PICK v \in Value : v = ReturnAt(d, n + 1)
    BY <1>1, ReturnsAre
  <2>4. r \in Seq(Value) /\ DOMAIN r = 1 .. n
    BY <2>2
  <2>5. PICK s \in Seq(Value) : AppendedTo(s, r, v, Value) /\ Len(r) = n
    <3>1. AppendedTo(Append(r, v), r, v, Value)
      BY <2>4, Appended
    <3>2. Len(r) = n
      BY <2>4, LenProperties
    <3> QED BY <3>1, <3>2 DEF AppendedTo
  <2>6. s = Append(r, v) /\ DOMAIN s = 1 .. n + 1 /\ s[n + 1] = v /\ \A k \in 1 .. n : s[k] = r[k]
    BY <2>5 DEF AppendedTo
  <2>7. \A k \in 1 .. n + 1 : s[k] = ReturnAt(d, k)
    <3>1. \A k \in 1 .. n : ReturnAt(d, k) = ReturnAt(c, k)
      <4>1. \A k \in 1 .. n : k \in Int /\ k # n + 1
        OBVIOUS
      <4> QED BY <1>1, <4>1, ReturnsKept
    <3>2. \A k \in 1 .. n + 1 : k \in 1 .. n \/ k = n + 1
      OBVIOUS
    <3> QED BY <2>2, <2>3, <2>6, <3>1, <3>2
  <2>8. s = [k \in 1 .. n + 1 |-> s[k]]
    BY <2>6, AsFunction
  <2>9. s = [k \in 1 .. n + 1 |-> ReturnAt(d, k)]
    BY <2>7, <2>8
  <2> QED BY <1>1, <2>1, <2>3, <2>6, <2>9 DEF ReturnsOf
<1>9. [p EXCEPT !.window = w, !.rets = Append(@, w.value)] = Profiled(d, c, a)
  <2>1. PICK r, s, e, f : r = ReturnsOf(c) /\ s = ReturnsOf(d) /\ e = EventsAt(c, a) /\ f = Waiting(c, a)
    OBVIOUS
  <2>2. PICK v : v = WindowOf(c)
    OBVIOUS
  <2>3. p = [window |-> v, rets |-> r, events |-> e, futureRets |-> f] /\ Append(r, w.value) = s
    BY <1>5, <1>6, <1>8, <2>1, <2>2
  <2>4. [p EXCEPT !.window = w, !.rets = Append(@, w.value)]
          = [window |-> w, rets |-> s, events |-> e, futureRets |-> f]
    <3>1. p.rets = r
      BY <2>3
    <3>2. PICK q : q = Append(p.rets, w.value) /\ q = s
      BY <2>3, <3>1
    <3>3. [p EXCEPT !.window = w, !.rets = q] = [window |-> w, rets |-> q, events |-> e, futureRets |-> f]
      <4>1. PICK p1 : p1 = [p EXCEPT !.window = w]
        OBVIOUS
      <4>2. p1 = [window |-> w, rets |-> r, events |-> e, futureRets |-> f]
        BY ONLY <2>3, <4>1
      <4>3. [p1 EXCEPT !.rets = q] = [window |-> w, rets |-> q, events |-> e, futureRets |-> f]
        BY ONLY <4>2
      <4>4. [p EXCEPT !.window = w, !.rets = q] = [p1 EXCEPT !.rets = q]
        BY ONLY <4>1
      <4> QED BY <4>3, <4>4
    <3> QED BY <3>2, <3>3
  <2> QED BY <1>6, <2>1, <2>4 DEF Profiled
<1>10. PICK cur : cur = Profiled(d, d, a)
  OBVIOUS
<1>11. CurrentReturns([p EXCEPT !.window = w, !.rets = Append(@, w.value)]) = cur
  BY <1>1, <1>3, <1>9, <1>10, CurrentReturnsIs
<1>12. Profile(p, d) = IF ~EventOccurred(d) THEN cur
                       ELSE [cur EXCEPT !.events = Append(@, PastReturns(NewEvent, cur.rets)),
                              !.futureRets = @ \cup {[event |-> Len(cur.events) + 1, t |-> 1]}]
  BY <1>7, <1>11, Zenon DEF Profile
<1>13. CASE ~EventOccurred(d)
  <2>1. AtOf(d) = a
    BY <1>2, <1>13, AtLonger
  <2>2. cur = ProfileOf(d, a)
    BY <1>10 DEF Profiled, ProfileOf, ReturnsOf, EventsAt
  <2> QED BY <1>2, <1>4, <1>12, <1>13, <2>1, <2>2
<1>14. CASE EventOccurred(d)
  <2>1. PICK m \in Nat : m = Len(a)
    BY <1>2, LenProperties
  <2>2. PICK b \in Seq(1 .. n + 1) : AppendedTo(b, a, n + 1, 1 .. n + 1)
    <3>1. a \in Seq(1 .. n + 1)
      <4>1. 1 .. n \subseteq 1 .. n + 1
        OBVIOUS
      <4> QED BY <1>2, <4>1
    <3>2. n + 1 \in 1 .. n + 1
      OBVIOUS
    <3>3. AppendedTo(Append(a, n + 1), a, n + 1, 1 .. n + 1)
      BY <3>1, <3>2, Appended
    <3> QED BY <3>3 DEF AppendedTo
  <2>3. /\ b = Append(a, n + 1) /\ Len(b) = m + 1 /\ b[m + 1] = n + 1 /\ DOMAIN b = 1 .. m + 1 /\ DOMAIN a = 1 .. m
        /\ \A k \in 1 .. m : b[k] = a[k]
    BY <2>1, <2>2 DEF AppendedTo
  <2>4. AtOf(d) = b
    BY <1>1, <1>2, <1>14, <2>3, AtLonger
  <2>5. PastReturns(NewEvent, cur.rets) = EventAt(d, n + 1)
    <3>1. cur.rets = [k \in 1 .. n + 1 |-> ReturnAt(d, k)]
      BY <1>1, <1>10 DEF Profiled, ReturnsOf
    <3> QED BY <1>1, <3>1, PastReturnsIs
  <2>6. PICK E : E = {EventAt(d, k) : k \in Nat}
    OBVIOUS
  <2>7. PICK s : s = EventsAt(d, a)
    OBVIOUS
  <2>8. s = [e \in 1 .. m |-> EventAt(d, a[e])] /\ \A e \in 1 .. m : EventAt(d, a[e]) \in E
    <3>1. \A e \in 1 .. m : a[e] \in Nat
      BY <1>3, <2>3
    <3> QED BY <2>3, <2>6, <2>7, <3>1 DEF EventsAt
  <2>9. s \in Seq(E) /\ DOMAIN s = 1 .. m
    BY <2>8
  <2>10. Len(s) = m /\ EventAt(d, n + 1) \in E
    BY <2>6, <2>9, LenProperties
  <2>11. PICK v \in E : v = EventAt(d, n + 1)
    BY <2>10
  <2>12. PICK u \in Seq(E) : AppendedTo(u, s, v, E)
    <3>1. AppendedTo(Append(s, v), s, v, E)
      BY <2>9, Appended
    <3> QED BY <3>1 DEF AppendedTo
  <2>13. u = Append(s, v) /\ DOMAIN u = 1 .. m + 1 /\ u[m + 1] = v /\ \A e \in 1 .. m : u[e] = s[e]
    BY <2>10, <2>12 DEF AppendedTo
  <2>14. u = EventsAt(d, b)
    <3>1. \A e \in 1 .. m + 1 : u[e] = EventAt(d, b[e])
      <4>1. \A e \in 1 .. m + 1 : e \in 1 .. m \/ e = m + 1
        OBVIOUS
      <4> QED BY <2>3, <2>8, <2>11, <2>13, <4>1
    <3>2. u = [e \in 1 .. m + 1 |-> u[e]]
      BY <2>13, AsFunction
    <3>3. u = [e \in 1 .. m + 1 |-> EventAt(d, b[e])]
      BY <3>1, <3>2
    <3> QED BY <2>3, <3>3 DEF EventsAt
  <2>15. Waiting(d, a) \cup {[event |-> m + 1, t |-> 1]} = Waiting(d, b)
    <3>1. PICK LF \in Nat \ {0} : LF = LookForward
      BY OffsetsAre
    <3>2. Waiting(d, a) = {[event |-> e, t |-> (n + 1) - a[e] + 1] : e \in {y \in 1 .. m : (n + 1) - a[y] < LF}}
      BY <1>1, <2>3, <3>1 DEF Waiting
    <3>3. Waiting(d, b) = {[event |-> e, t |-> (n + 1) - b[e] + 1] : e \in {y \in 1 .. m + 1 : (n + 1) - b[y] < LF}}
      BY <1>1, <2>3, <3>1 DEF Waiting
    <3>4. \A e : e \in 1 .. m + 1 <=> e \in 1 .. m \/ e = m + 1
      OBVIOUS
    <3>5. (n + 1) - b[m + 1] < LF /\ (n + 1) - b[m + 1] + 1 = 1
      <4>1. b[m + 1] = n + 1 /\ n \in Nat
        BY <1>2, <2>3
      <4> QED BY ONLY <3>1, <4>1
    <3> QED BY <2>3, <3>2, <3>3, <3>4, <3>5
  <2>16. cur = [window |-> WindowOf(d), rets |-> ReturnsOf(d), events |-> s, futureRets |-> Waiting(d, a)]
    BY <1>10, <2>7 DEF Profiled
  <2>17. cur.events = s /\ Len(cur.events) = m
    BY <2>10, <2>16
  <2>18. Profile(p, d) = [cur EXCEPT !.events = Append(@, v), !.futureRets = @ \cup {[event |-> m + 1, t |-> 1]}]
    BY <1>12, <1>14, <2>5, <2>11, <2>17
  <2>19. Profile(p, d) = [window |-> WindowOf(d), rets |-> ReturnsOf(d), events |-> u, futureRets |-> Waiting(d, b)]
    BY <2>13, <2>15, <2>16, <2>18
  <2>20. Profile(p, d) = ProfileOf(d, b)
    BY <2>14, <2>19 DEF ProfileOf, ReturnsOf, EventsAt
  <2> QED BY <1>2, <1>4, <2>4, <2>20
<1> QED BY <1>13, <1>14

(* A product of quotients in which all but the first and the last cancel.  *)
LEMMA Telescoped ==
  ASSUME NEW m \in Nat, NEW g \in [0 .. m -> Number], \A i \in 0 .. m : i < m \/ i = 0 => g[i] # Zero,
         NEW s \in Seq(Number), Len(s) = m, \A i \in 1 .. m : s[i] = Over(g[i], g[i - 1])
  PROVE  Product(s) = Over(g[m], g[0])
<1>1. PICK f : PartialProducts(f, s) /\ Product(s) = f[m]
  BY ProductIs
<1>2. f[0] = One /\ \A i \in 1 .. m : f[i] = Times(f[i - 1], s[i])
  BY <1>1 DEF PartialProducts
<1>3. g[0] \in Number /\ g[0] # Zero
  <2>1. 0 \in 0 .. m
    OBVIOUS
  <2> QED BY <2>1
<1> DEFINE B == {i \in 0 .. m : f[i] # Over(g[i], g[0])}
<1>4. B = {}
  <2>1. SUFFICES ASSUME B # {} PROVE FALSE
    OBVIOUS
  <2>2. PICK j \in B : \A i \in B : j <= i
    <3>1. B \in SUBSET Nat
      OBVIOUS
    <3> HIDE DEF B
    <3> QED BY <2>1, <3>1, LeastNatural
  <2>3. j \in 0 .. m /\ f[j] # Over(g[j], g[0])
    OBVIOUS
  <2>4. j # 0
    <3>1. Cancels(g[0], g[0], g[0])
      BY <1>3, OverTheSame
    <3> QED BY <1>2, <2>3, <3>1 DEF Cancels
  <2>5. j - 1 \in 0 .. m /\ ~(j <= j - 1) /\ j \in 1 .. m /\ j - 1 < m
    BY <2>3, <2>4
  <2>6. f[j - 1] = Over(g[j - 1], g[0])
    BY <2>2, <2>5
  <2>7. g[j - 1] \in Number /\ g[j - 1] # Zero /\ g[j] \in Number
    BY <2>3, <2>5
  <2>8. Times(Over(g[j - 1], g[0]), Over(g[j], g[j - 1])) = Over(g[j], g[0])
    <3>1. Cancels(g[0], g[j - 1], g[j])
      BY <1>3, <2>7, OverTheSame
    <3> QED BY <3>1 DEF Cancels
  <2> QED BY <1>2, <2>3, <2>5, <2>6, <2>8
<1>5. m \in 0 .. m
  OBVIOUS
<1> QED BY <1>1, <1>4, <1>5

(* The closes that an event is computed from, one of which is before it.   *)
Around(k) == k - LookBack .. k + LookForward

LEMMA CumProdIs ==
  ASSUME NEW c \in Seq(Number), NEW k \in Int, NEW t \in Offsets,
         \A j \in Around(k) : j \in 2 .. Len(c) /\ c[j - 1] # Zero
  PROVE  Product([i \in 1 .. t + LookBack + 1 |-> Plus(EventAt(c, k)[i - 1 - LookBack], One)])
           = Over(c[k + t], c[k - LookBack - 1])
<1>1. PICK L \in Nat \ {0}, F \in Nat \ {0} : L = LookBack /\ F = LookForward
  BY OffsetsAre
<1>2. PICK n \in Nat : n = Len(c)
  BY LenProperties
<1>3. t \in Int /\ -L <= t /\ t <= F
  BY <1>1, OffsetsAre
<1>4. PICK m \in Nat : m = t + L + 1 /\ m >= 1
  <2>1. t + L + 1 \in Nat /\ t + L + 1 >= 1
    BY <1>3
  <2> QED BY <2>1
<1>5. PICK b \in Int : b = k - L - 1
  OBVIOUS
<1>6. ASSUME NEW i \in 1 .. m
      PROVE  /\ b + i \in 2 .. n /\ b + i \in Int /\ i - 1 - L \in Offsets /\ k + (i - 1 - L) = b + i
             /\ c[b + i - 1] # Zero /\ c[b + i - 1] \in Number /\ c[b + i] \in Number
  <2>1. i \in Int /\ b + i \in Int /\ k - L <= b + i /\ b + i <= k + F /\ k + (i - 1 - L) = b + i
        /\ -L <= i - 1 - L /\ i - 1 - L <= F /\ i - 1 - L \in Int
    BY <1>3, <1>4, <1>5
  <2>2. b + i \in Around(k)
    BY <1>1, <2>1 DEF Around
  <2>3. b + i \in 2 .. n /\ c[b + i - 1] # Zero
    BY <1>2, <2>2
  <2>4. b + i \in 1 .. n /\ b + i - 1 \in 1 .. n
    BY <2>3
  <2>5. c[b + i - 1] \in Number /\ c[b + i] \in Number
    BY <1>2, <2>4, ElementOfSeq
  <2>6. i - 1 - L \in Offsets
    BY <1>1, <2>1, OffsetsAre
  <2> QED BY <2>1, <2>3, <2>5, <2>6
<1>7. PICK g : g = [i \in 0 .. m |-> c[b + i]]
  OBVIOUS
<1>8. /\ g \in [0 .. m -> Number] /\ (\A i \in 0 .. m : i < m \/ i = 0 => g[i] # Zero)
      /\ \A i \in 0 .. m : g[i] = c[b + i]
  <2>1. ASSUME NEW i \in 0 .. m PROVE c[b + i] \in Number /\ (i < m \/ i = 0 => c[b + i] # Zero)
    <3>1. CASE i = m
      <4>1. m \in 1 .. m /\ ~(m < m) /\ m # 0
        BY ONLY <1>4
      <4>2. c[b + m] \in Number
        BY <1>6, <4>1
      <4> QED BY ONLY <3>1, <4>1, <4>2
    <3>2. CASE i < m
      <4>1. PICK j \in 1 .. m : j = i + 1 /\ b + j - 1 = b + i
        <5>1. i + 1 \in 1 .. m /\ b + (i + 1) - 1 = b + i
          BY <3>2
        <5> QED BY <5>1
      <4>2. c[b + j - 1] # Zero /\ c[b + j - 1] \in Number
        BY <1>6
      <4> QED BY <4>1, <4>2
    <3>3. i = m \/ i < m
      OBVIOUS
    <3> QED BY <3>1, <3>2, <3>3
  <2> QED BY <1>7, <2>1
<1>9. ASSUME NEW i \in 1 .. m
      PROVE  /\ Plus(EventAt(c, k)[i - 1 - L], One) = Over(g[i], g[i - 1])
             /\ Plus(EventAt(c, k)[i - 1 - L], One) \in Number
  <2>1. PICK j \in 2 .. n : j = b + i /\ j - 1 = b + i - 1 /\ j \in Int
    <3>1. b + i \in 2 .. n /\ b + i \in Int
      BY <1>6
    <3>2. PICK j \in 2 .. n : j = b + i /\ j \in Int
      BY <3>1
    <3> QED BY <3>2
  <2>2. EventAt(c, k)[i - 1 - L] = ReturnAt(c, j)
    <3>1. EventAt(c, k)[i - 1 - L] = ReturnAt(c, k + (i - 1 - L))
      BY <1>6 DEF EventAt
    <3> QED BY <1>6, <2>1, <3>1
  <2>3. ReturnAt(c, j) = ReturnOf(c[j - 1], c[j])
    BY <1>2, <2>1 DEF ReturnAt
  <2>4. c[j - 1] \in Number /\ c[j - 1] # Zero /\ c[j] \in Number
    BY <1>6, <2>1
  <2>5. Plus(ReturnOf(c[j - 1], c[j]), One) = Over(c[j], c[j - 1])
    BY <2>4, ReturnIs
  <2>6. Over(c[j], c[j - 1]) \in Number
    BY <2>4, Numbers
  <2>7. g[i] = c[j] /\ g[i - 1] = c[j - 1]
    <3>1. i \in 0 .. m /\ i - 1 \in 0 .. m /\ b + (i - 1) = b + i - 1
      OBVIOUS
    <3> QED BY <1>8, <2>1, <3>1
  <2> QED BY <2>2, <2>3, <2>5, <2>6, <2>7
<1>10. PICK s : s = [i \in 1 .. m |-> Plus(EventAt(c, k)[i - 1 - L], One)]
  OBVIOUS
<1>11. s \in Seq(Number) /\ Len(s) = m /\ \A i \in 1 .. m : s[i] = Over(g[i], g[i - 1])
  <2>3. \A i \in 1 .. m : s[i] = Plus(EventAt(c, k)[i - 1 - L], One) /\ s[i] \in Number
    BY <1>9, <1>10
  <2>4. DOMAIN s = 1 .. m /\ s = [i \in 1 .. m |-> s[i]]
    BY <1>10
  <2>5. s \in [1 .. m -> Number]
    BY <2>3, <2>4
  <2>1. s \in Seq(Number) /\ DOMAIN s = 1 .. m
    BY <2>4, <2>5
  <2>2. Len(s) = m
    BY <2>1, LenProperties
  <2> QED BY <1>9, <1>10, <2>1, <2>2
<1>12. Product(s) = Over(g[m], g[0])
  BY <1>8, <1>11, Telescoped
<1>13. g[m] = c[k + t] /\ g[0] = c[k - L - 1]
  <2>1. m \in 0 .. m /\ 0 \in 0 .. m /\ b + m = k + t /\ b + 0 = k - L - 1
    BY <1>3, <1>4, <1>5
  <2> QED BY <1>8, <2>1
<1> QED BY <1>1, <1>4, <1>10, <1>12, <1>13

LEMMA NormalizedIs ==
  ASSUME NEW c \in Seq(Number), NEW k \in Int,
         \A j \in Around(k) : j \in 2 .. Len(c) /\ c[j - 1] # Zero,
         NEW t \in Offsets
  PROVE  Normalized(EventAt(c, k))[t] = Over(c[k + t], c[k])
<1>1. PICK L \in Nat \ {0}, F \in Nat \ {0} : L = LookBack /\ F = LookForward
  BY OffsetsAre
<1>2. 0 \in Offsets /\ k + 0 = k /\ k - L \in Int /\ t \in Int /\ -L <= t /\ t <= F
  BY <1>1, OffsetsAre
<1>3. PICK n \in Nat : n = Len(c)
  BY LenProperties
<1>4. PICK x \in Number, y \in Number, z \in Number :
        x = c[k - L - 1] /\ y = c[k] /\ z = c[k + t] /\ x # Zero /\ y # Zero
  <2>1. k - L \in Around(k) /\ k + 1 \in Around(k) /\ k + t \in Around(k) /\ (k + 1) - 1 = k
    BY <1>1, <1>2 DEF Around
  <2>2. /\ k - L \in 2 .. n /\ k + 1 \in 2 .. n /\ k + t \in 2 .. n
        /\ c[k - L - 1] # Zero /\ c[k] # Zero
    BY <1>3, <2>1
  <2>3. k - L - 1 \in 1 .. n /\ k \in 1 .. n /\ k + t \in 1 .. n
    BY <2>2
  <2>4. c[k - L - 1] \in Number /\ c[k] \in Number /\ c[k + t] \in Number
    BY <1>3, <2>3, ElementOfSeq
  <2> QED BY <2>2, <2>4
<1>5. PICK p : p = [u \in Offsets |-> Product([i \in 1 .. u + LookBack + 1 |->
                                         Plus(EventAt(c, k)[i - 1 - LookBack], One)])]
  OBVIOUS
<1>6. p[t] = Over(z, x)
  BY <1>1, <1>4, <1>5, CumProdIs
<1>7. p[0] = Over(y, x)
  <2>1. Product([i \in 1 .. 0 + LookBack + 1 |-> Plus(EventAt(c, k)[i - 1 - LookBack], One)])
          = Over(c[k + 0], c[k - LookBack - 1])
    BY <1>2, CumProdIs
  <2> QED BY <1>1, <1>2, <1>4, <1>5, <2>1
<1>8. Normalized(EventAt(c, k))[t] = Over(p[t], p[0])
  <2>1. Normalized(EventAt(c, k)) = [u \in Offsets |-> Over(
          Product([i \in 1 .. u + LookBack + 1 |-> Plus(EventAt(c, k)[i - 1 - LookBack], One)]),
          Product([i \in 1 .. 0 + LookBack + 1 |-> Plus(EventAt(c, k)[i - 1 - LookBack], One)]))]
    BY DEF Normalized
  <2>2. p[0] = Product([i \in 1 .. 0 + LookBack + 1 |-> Plus(EventAt(c, k)[i - 1 - LookBack], One)])
    BY <1>2, <1>5
  <2>3. p[t] = Product([i \in 1 .. t + LookBack + 1 |-> Plus(EventAt(c, k)[i - 1 - LookBack], One)])
    BY <1>5
  <2> QED BY <2>1, <2>2, <2>3
<1>9. Over(Over(z, x), Over(y, x)) = Over(z, y)
  <2>1. Cancels(x, y, z)
    BY <1>4, OverTheSame
  <2> QED BY <2>1 DEF Cancels
<1> QED BY <1>4, <1>6, <1>7, <1>8, <1>9

(* An event is complete when there is a return for each of its times.      *)
LEMMA CompleteIs ==
  ASSUME NEW c \in Seq(Number), NEW k \in Int
  PROVE  IsComplete(EventAt(c, k)) <=>
           \A j \in Around(k) : j \in 2 .. Len(c) /\ (c[j - 1] = Zero => c[j] = Zero)
<1>1. PICK n \in Nat : n = Len(c)
  BY LenProperties
<1>2. \A j \in Int : ReturnAt(c, j) # None <=> j \in 2 .. n /\ (c[j - 1] = Zero => c[j] = Zero)
  <2>1. SUFFICES ASSUME NEW j \in Int
                 PROVE  ReturnAt(c, j) # None <=> j \in 2 .. n /\ (c[j - 1] = Zero => c[j] = Zero)
    OBVIOUS
  <2>2. CASE j \in 2 .. n
    <3>1. j \in 1 .. n /\ j - 1 \in 1 .. n
      BY <2>2
    <3>2. c[j] \in Number /\ c[j - 1] \in Number
      BY <1>1, <3>1, ElementOfSeq
    <3>3. ReturnAt(c, j) = ReturnOf(c[j - 1], c[j])
      BY <1>1, <2>2 DEF ReturnAt
    <3> QED BY <2>2, <3>2, <3>3, ReturnIs
  <2>3. CASE j \notin 2 .. n
    BY <1>1, <2>3 DEF ReturnAt
  <2> QED BY <2>2, <2>3
<1>3. IsComplete(EventAt(c, k)) <=> \A t \in Offsets : ReturnAt(c, k + t) # None
  BY DEF IsComplete, EventAt
<1>4. (\A t \in Offsets : ReturnAt(c, k + t) # None) <=> \A j \in Around(k) : ReturnAt(c, j) # None
  <2>1. PICK L \in Nat, F \in Nat : L = LookBack /\ F = LookForward
    BY OffsetsAre
  <2>2. \A t \in Offsets : k + t \in Around(k)
    BY <2>1, OffsetsAre DEF Around
  <2>3. \A j \in Around(k) : j - k \in Offsets /\ k + (j - k) = j
    BY <2>1, OffsetsAre DEF Around
  <2> QED BY <2>2, <2>3
<1>5. \A j \in Around(k) : j \in Int
  BY OffsetsAre DEF Around
<1> QED BY <1>1, <1>2, <1>3, <1>4, <1>5

(* The bars of a history, of which the closes are in lowest terms.         *)
Priced == {e \in Entry : e.bar.close \in Number}

(* All that a profiler keeps is a function of the closes.                  *)
ProfilesInv ==
  /\ now \in [Instruments -> Nat] /\ history \in [Instruments -> Seq(Priced)]
  /\ profile = [i \in Instruments |-> ProfileOf(Closes(history[i]), AtOf(Closes(history[i])))]

LEMMA ClosesAre ==
  ASSUME NEW h \in Seq(Priced)
  PROVE  Closes(h) \in Seq(Number) /\ Len(Closes(h)) = Len(h)
<1>1. PICK n \in Nat : n = Len(h) /\ DOMAIN h = 1 .. n
  BY LenProperties
<1>2. \A k \in 1 .. n : h[k].bar.close \in Number
  BY <1>1, ElementOfSeq DEF Priced
<1>3. PICK c : c = Closes(h) /\ c = [k \in 1 .. n |-> h[k].bar.close]
  BY <1>1 DEF Closes
<1>4. c \in Seq(Number) /\ DOMAIN c = 1 .. n
  BY <1>2, <1>3
<1> QED BY <1>1, <1>3, <1>4, LenProperties

LEMMA ClosesLonger ==
  ASSUME NEW h \in Seq(Priced), NEW e \in Priced
  PROVE  /\ Append(h, e) \in Seq(Priced)
         /\ Longer(Closes(h), e.bar.close, Closes(Append(h, e)))
<1>1. PICK n \in Nat, g \in Seq(Priced) : n = Len(h) /\ DOMAIN h = 1 .. n /\ AppendedTo(g, h, e, Priced)
  <2>1. AppendedTo(Append(h, e), h, e, Priced)
    BY Appended
  <2>2. Len(h) \in Nat /\ DOMAIN h = 1 .. Len(h)
    BY LenProperties
  <2> QED BY <2>1, <2>2 DEF AppendedTo
<1>2. g = Append(h, e) /\ DOMAIN g = 1 .. n + 1 /\ g[n + 1] = e /\ \A k \in 1 .. n : g[k] = h[k]
  BY <1>1 DEF AppendedTo
<1>3. PICK c \in Seq(Number) : c = Closes(h) /\ Len(c) = n
  BY <1>1, ClosesAre
<1>4. PICK x \in Number : x = e.bar.close
  BY DEF Priced
<1>5. PICK d \in Seq(Number) : AppendedTo(d, c, x, Number) /\ Longer(c, x, d)
  <2>1. AppendedTo(Append(c, x), c, x, Number)
    BY Appended
  <2>2. Longer(c, x, Append(c, x))
    BY LongerIs
  <2> QED BY <2>1, <2>2 DEF AppendedTo
<1>6. DOMAIN d = 1 .. n + 1 /\ d[n + 1] = x /\ \A k \in 1 .. n : d[k] = c[k]
  BY <1>3, <1>5 DEF AppendedTo
<1>7. \A k \in 1 .. n + 1 : d[k] = g[k].bar.close
  <2>1. \A k \in 1 .. n : c[k] = h[k].bar.close
    BY <1>1, <1>3 DEF Closes
  <2>2. \A k \in 1 .. n + 1 : k \in 1 .. n \/ k = n + 1
    OBVIOUS
  <2> QED BY <1>2, <1>4, <1>6, <2>1, <2>2
<1>8. d = Closes(g)
  <2>1. d = [k \in 1 .. n + 1 |-> d[k]]
    BY <1>6, AsFunction
  <2>2. d = [k \in 1 .. n + 1 |-> g[k].bar.close]
    BY <1>7, <2>1
  <2> QED BY <1>2, <2>2 DEF Closes
<1> QED BY <1>2, <1>3, <1>4, <1>5, <1>8

LEMMA ProfilesInit == Init => ProfilesInv
<1> SUFFICES ASSUME Init PROVE ProfilesInv
  OBVIOUS
<1>1. /\ now = [i \in Instruments |-> 0] /\ history = [i \in Instruments |-> << >>]
      /\ profile = [i \in Instruments |-> Profile0]
  BY DEF Init
<1>2. PICK c \in Seq(Number) : c = Closes(<< >>) /\ Len(c) = 0 /\ c = << >>
  <2>1. << >> \in Seq(Priced) /\ Len(<< >>) = 0
    OBVIOUS
  <2>2. Closes(<< >>) \in Seq(Number) /\ Len(Closes(<< >>)) = 0
    BY <2>1, ClosesAre
  <2> QED BY <2>2, EmptySeq
<1>3. PICK a \in Seq(1 .. 0) : a = AtOf(c) /\ a = << >> /\ DOMAIN a = {}
  <2>1. AtOf(c) \in Seq(1 .. 0) /\ Occurrences(c) \in SUBSET (1 .. 0) /\ Len(AtOf(c)) = Cardinality(Occurrences(c))
        /\ DOMAIN AtOf(c) = 1 .. Len(AtOf(c))
    BY <1>2, AtIs
  <2>2. Occurrences(c) = {} /\ Cardinality({}) = 0 /\ 1 .. 0 = {}
    BY <2>1, FS_EmptySet
  <2>3. Len(AtOf(c)) = 0 /\ DOMAIN AtOf(c) = {}
    BY <2>1, <2>2
  <2>4. AtOf(c) = << >>
    BY <2>1, <2>3, EmptySeq
  <2> QED BY <2>1, <2>3, <2>4
<1>4. ProfileOf(c, a) = Profile0
  <2>1. WindowOf(c) = Window
    <3>1. LastTwo(c) = << >>
      BY <1>2 DEF LastTwo
    <3>2. ReturnAt(c, 0) = None
      BY <1>2 DEF ReturnAt
    <3> QED BY <1>2, <3>1, <3>2 DEF WindowOf, Window
  <2>2. [k \in 1 .. Len(c) |-> ReturnAt(c, k)] = << >>
    BY <1>2
  <2>3. [e \in DOMAIN a |-> EventAt(c, a[e])] = << >>
    BY <1>3
  <2>4. Waiting(c, a) = {}
    BY <1>3 DEF Waiting
  <2> QED BY <2>1, <2>2, <2>3, <2>4 DEF ProfileOf, Profile0
<1>5. << >> \in Seq(Priced)
  OBVIOUS
<1>6. /\ now \in [Instruments -> Nat] /\ history \in [Instruments -> Seq(Priced)]
      /\ \A i \in Instruments : history[i] = << >>
  BY <1>1, <1>5
<1>7. profile = [i \in Instruments |-> ProfileOf(Closes(history[i]), AtOf(Closes(history[i])))]
  BY <1>1, <1>2, <1>3, <1>4, <1>6
<1> QED BY <1>6, <1>7 DEF ProfilesInv

LEMMA ProfilesBar ==
  ASSUME ProfilesInv, OnBar
  PROVE  ProfilesInv'
<1>1. PICK i \in Instruments : \E b \in Bars(i) :
        /\ now' = [now EXCEPT ![i] = now[i] + 1]
        /\ history' = [history EXCEPT ![i] = Append(@, [dateTime |-> now[i] + 1, bar |-> b])]
        /\ profile' = [profile EXCEPT ![i] = Profile(@, Closes(history'[i]))]
  BY DEF OnBar
<1>2. PICK b \in Bars(i) :
        /\ now' = [now EXCEPT ![i] = now[i] + 1]
        /\ history' = [history EXCEPT ![i] = Append(@, [dateTime |-> now[i] + 1, bar |-> b])]
        /\ profile' = [profile EXCEPT ![i] = Profile(@, Closes(history'[i]))]
  BY <1>1
<1>3. b \in Shape /\ b.close \in Number
  BY StudiesAssumption DEF Instruments
<1>4. PICK dt \in Nat : dt = now[i] + 1
  BY DEF ProfilesInv
<1>5. PICK e \in Priced : e = [dateTime |-> dt, bar |-> b]
  BY <1>3 DEF Priced, Entry
<1>6. PICK h \in Seq(Priced) : h = history[i]
  BY DEF ProfilesInv
<1>7. PICK g \in Seq(Priced) : g = Append(h, e) /\ Longer(Closes(h), e.bar.close, Closes(g))
  BY ClosesLonger
<1>8. history' = [history EXCEPT ![i] = g] /\ history'[i] = g
  BY <1>2, <1>4, <1>5, <1>6, <1>7 DEF ProfilesInv
<1>9. now' \in [Instruments -> Nat] /\ history' \in [Instruments -> Seq(Priced)]
      /\ \A j \in Instruments : j # i => history'[j] = history[j]
  BY <1>2, <1>4, <1>8 DEF ProfilesInv
<1>10. profile[i] = ProfileOf(Closes(h), AtOf(Closes(h)))
  BY <1>6 DEF ProfilesInv
<1>11. profile'[i] = ProfileOf(Closes(g), AtOf(Closes(g)))
  <2>1. Profile(ProfileOf(Closes(h), AtOf(Closes(h))), Closes(g)) = ProfileOf(Closes(g), AtOf(Closes(g)))
    BY <1>7, ProfileIs
  <2>2. profile'[i] = Profile(profile[i], Closes(g))
    BY <1>2, <1>8 DEF ProfilesInv
  <2> QED BY <1>10, <2>1, <2>2
<1>12. \A j \in Instruments : profile'[j] = ProfileOf(Closes(history'[j]), AtOf(Closes(history'[j])))
  <2>1. SUFFICES ASSUME NEW j \in Instruments
                 PROVE  profile'[j] = ProfileOf(Closes(history'[j]), AtOf(Closes(history'[j])))
    OBVIOUS
  <2>2. CASE j = i
    BY <1>8, <1>11, <2>2
  <2>3. CASE j # i
    <3>1. profile'[j] = profile[j] /\ history'[j] = history[j]
      BY <1>2, <1>9, <2>3 DEF ProfilesInv
    <3>2. profile[j] = ProfileOf(Closes(history[j]), AtOf(Closes(history[j])))
      BY DEF ProfilesInv
    <3> QED BY <3>1, <3>2
  <2> QED BY <2>2, <2>3
<1>13. profile' = [j \in Instruments |-> profile'[j]]
  BY <1>2 DEF ProfilesInv
<1>14. profile' = [j \in Instruments |-> ProfileOf(Closes(history'[j]), AtOf(Closes(history'[j])))]
  BY <1>12, <1>13
<1> QED BY <1>9, <1>14 DEF ProfilesInv

LEMMA ProfilesStep ==
  ASSUME ProfilesInv, [Next]_vars
  PROVE  ProfilesInv'
<1>1. CASE OnBar
  BY <1>1, ProfilesBar
<1>2. CASE NoBar
  <2>1. /\ \E i \in Instruments : now' = [now EXCEPT ![i] = @ + 1]
        /\ UNCHANGED <<profile, history>>
    BY <1>2 DEF NoBar
  <2>2. now' \in [Instruments -> Nat]
    BY <2>1 DEF ProfilesInv
  <2> QED BY <2>1, <2>2 DEF ProfilesInv
<1>3. CASE Push \/ UNCHANGED vars
  <2>1. UNCHANGED <<now, profile, history>>
    BY <1>3 DEF Push, vars
  <2> QED BY <2>1 DEF ProfilesInv
<1> QED BY <1>1, <1>2, <1>3 DEF Next

(* What is said of an event v at the bar k among the closes c, and of the  *)
(* events p, at the bars of a.                                             *)
EventIsKept(c, k, v) ==
  /\ IsComplete(v) <=> \A j \in k - LookBack .. k + LookForward :
                         j \in 2 .. Len(c) /\ (c[j - 1] = Zero => c[j] = Zero)
  /\ IsComplete(v) /\ (\A j \in k - LookBack .. k + LookForward : c[j - 1] # Zero) =>
       \A t \in Offsets : Normalized(v)[t] = Over(c[k + t], c[k])

Kept(c, a, p) ==
  /\ DOMAIN p = DOMAIN a
  /\ \A e \in DOMAIN a : EventIsKept(c, a[e], p[e])

LEMMA ProfilesInvImplies == ProfilesInv => EventsKeepTheirReturns
<1>9. (\A i \in Instruments : Kept(Closes(history[i]), InOrder(Occurrences(Closes(history[i]))), profile[i].events))
        => EventsKeepTheirReturns
  BY Zenon DEF EventsKeepTheirReturns, Kept, EventIsKept
<1> SUFFICES ASSUME ProfilesInv, NEW i \in Instruments, NEW c, NEW a, NEW p,
                    c = Closes(history[i]), a = InOrder(Occurrences(c)), p = profile[i].events
             PROVE  Kept(c, a, p)
  BY <1>9
<1>1. c \in Seq(Number)
  <2>1. history[i] \in Seq(Priced)
    BY DEF ProfilesInv
  <2> QED BY <2>1, ClosesAre
<1>2. profile[i] = ProfileOf(c, a)
  BY DEF ProfilesInv, AtOf
<1>3. p = [e \in DOMAIN a |-> EventAt(c, a[e])]
  BY <1>2 DEF ProfileOf
<1>4. \A e \in DOMAIN a : a[e] \in Int
  <2>1. a \in Seq(1 .. Len(c)) /\ DOMAIN a = 1 .. Len(a)
    BY <1>1, AtIs DEF AtOf
  <2> QED BY <2>1, ElementOfSeq
<1>5. ASSUME NEW k \in Int PROVE EventIsKept(c, k, EventAt(c, k))
  <2>1. IsComplete(EventAt(c, k)) <=> \A j \in Around(k) : j \in 2 .. Len(c) /\ (c[j - 1] = Zero => c[j] = Zero)
    BY <1>1, CompleteIs
  <2>2. ASSUME IsComplete(EventAt(c, k)), \A j \in Around(k) : c[j - 1] # Zero, NEW t \in Offsets
        PROVE  Normalized(EventAt(c, k))[t] = Over(c[k + t], c[k])
    <3>1. \A j \in Around(k) : j \in 2 .. Len(c) /\ c[j - 1] # Zero
      BY <2>1, <2>2
    <3> QED BY <1>1, <3>1, NormalizedIs
  <2> QED BY ONLY <2>1, <2>2 DEF Around, EventIsKept
<1>6. DOMAIN p = DOMAIN a
  BY ONLY <1>3
<1>7. ASSUME NEW e \in DOMAIN a PROVE EventIsKept(c, a[e], p[e])
  <2>1. p[e] = EventAt(c, a[e]) /\ a[e] \in Int
    BY ONLY <1>3, <1>4, <1>7
  <2> QED BY ONLY <1>5, <2>1
<1> QED BY ONLY <1>6, <1>7 DEF Kept

(* In every run, with any bars, any predicate and however many bars are    *)
(* looked at around an event, the values of a complete event are the       *)
(* closes around it relative to the close of its bar, and an event is      *)
(* complete as soon as there are enough bars around it.                    *)
THEOREM EventsKeepTheirReturnsCorrect == Spec => []EventsKeepTheirReturns
<1>1. ProfilesInv /\ [Next]_vars => ProfilesInv'
  BY ProfilesStep
<1> QED BY <1>1, ProfilesInit, ProfilesInvImplies, PTL DEF Spec
=============================================================================
