-------------------------- MODULE DispatcherProofs --------------------------
(***************************************************************************)
(* The dispatcher, for every stored feed and every arrival of live bars,   *)
(* every sequence of other values and every moment at which the strategy   *)
(* stops, raises or adds the resampled feed: events come in the order of   *)
(* their datetimes, nothing is left at the end, and the resampled feed     *)
(* loses no bar and counts none twice.                                     *)
(***************************************************************************)
EXTENDS Dispatcher, Events, DataTheorems, SequenceTheorems

Groups == (SUBSET Bars) \ {{}}

(* Every variable holds a value of its kind.                               *)
TypeOK ==
  /\ live \in BOOLEAN /\ stop \in BOOLEAN /\ dispatched \in BOOLEAN
  /\ stage \in {"setup", "scan", "turn", "finished"}
  /\ turn \in Nat \ {0} /\ smallest \in Nat /\ clock \in Nat
  /\ source \in Events \cup {"none", "failed"}
  /\ failure \in {"none", "strategy", "not in order"}
  /\ subscription \in {"none", "deferred", "subscribed"}
  /\ remaining \in [Instruments -> SUBSET Times] /\ other \in Seq(Times)
  /\ queue \in Seq(Bars) /\ current \subseteq Bars /\ seen \subseteq Bars /\ group \subseteq Bars
  /\ values \in Seq(Groups) /\ emitted \in Seq(Groups)
  /\ log \in Seq([dateTime : Times, bars : SUBSET Bars])

(* The subjects there may be, in the order in which they are.              *)
Subjects ==
  subjects \in {<<"broker", "feed">>, <<"broker", "feed", "other">>,
                <<"broker", "feed", "resampled">>, <<"broker", "feed", "resampled", "other">>}

(* Where the run is.                                                       *)
Control ==
  /\ stage \in {"setup", "finished"} => source = "none"
  /\ stage = "setup" => log = <<>>
  /\ failure # "none" => source = "failed" \/ stage = "finished"
  /\ source = "failed" => failure # "none"
  /\ subscription = "none" <=> "resampled" \notin ToSet(subjects)
  /\ subscription # "subscribed" => seen = {} /\ group = {} /\ values = <<>> /\ emitted = <<>>

(* What is dispatched is not later than what may still be dispatched, now  *)
(* and in the rest of the turn.                                            *)
NotLater(t) == \A j \in DOMAIN log : log[j].dateTime <= t

LogOK ==
  /\ \A j \in DOMAIN log : \A b \in log[j].bars : b[2] = log[j].dateTime
  /\ \A j \in DOMAIN log : j > 1 => log[j - 1].dateTime <= log[j].dateTime
  /\ \A j, k \in DOMAIN other : j <= k => other[j] <= other[k]
  /\ \A i \in Instruments : \A t \in remaining[i] : NotLater(t) /\ (stage = "turn" => smallest <= t)
  /\ "other" \in ToSet(subjects) =>
       \A k \in DOMAIN other : NotLater(other[k]) /\ (stage = "turn" => smallest <= other[k])

(* Over a stored feed no turn is idle: until something is dispatched there *)
(* is a subject ahead that is due.                                         *)
NeverIdle ==
  stage = "turn" /\ ~live /\ failure = "none" /\ ~dispatched =>
    source = "none" /\ \E k \in DOMAIN subjects : k >= turn /\ subjects[k] # "broker" /\ DueNow(subjects[k])

(* Bars come one after the other: those seen, those of the event that was  *)
(* dispatched last, those to come.                                         *)
BarsInOrder ==
  /\ \A b, c \in current : b[2] = c[2]
  /\ \A b \in seen : \E c \in current : b[2] <= c[2]
  /\ source = "feed" => current # {} /\ \A b \in seen, c \in current : b[2] < c[2]
  /\ \A b \in current : \A i \in Instruments : \A t \in remaining[i] : b[2] < t
  /\ \A b \in current, j \in DOMAIN queue : b[2] < queue[j][2]
  /\ \A j, k \in DOMAIN queue : j < k => queue[j][2] < queue[k][2]
  /\ live => /\ \A i \in Instruments : remaining[i] = {}
             /\ \A b \in current : b[2] <= clock
             /\ \A j \in DOMAIN queue : queue[j][2] <= clock
  /\ ~live => queue = <<>>

(* The groups that are complete.                                           *)
Complete == emitted \o values

Before(g, h, ended) ==
  \A b \in g, c \in h : b[2] < c[2] /\ (Begin(b[2]) = Begin(c[2]) => Begin(c[2]) \in ended)
OnePeriod(g) == \A b, c \in g : Begin(b[2]) = Begin(c[2])

(* Complete groups and the one being collected hold what was seen, in      *)
(* order, and one that is complete is over: a later period has begun or    *)
(* the clock has ended it.                                                 *)
GroupsOK ==
  /\ (UNION ToSet(Complete)) \cup group = seen
  /\ \A j, k \in DOMAIN Complete : j < k => Before(Complete[j], Complete[k], closed)
  /\ \A j \in DOMAIN Complete : Before(Complete[j], group, closed) /\ OnePeriod(Complete[j])
  /\ OnePeriod(group)
  /\ \A b \in seen \ group : Begin(b[2]) \in closed \/ \E c \in seen : Begin(b[2]) < Begin(c[2])
  /\ failure = "not in order" => StartOf(Head(values)) \in closed

IInv == TypeOK /\ Subjects /\ Control /\ NothingLeft /\ LogOK /\ NeverIdle /\ BarsInOrder /\ GroupsOK

-----------------------------------------------------------------------------
(* Numbers *)

(* A time has one period.                                                  *)
LEMMA OneMultiple ==
  ASSUME NEW f \in Nat \ {0}, NEW p \in Int, NEW q \in Int, NEW t \in Int,
         p * f <= t, t < p * f + f, q * f <= t, t < q * f + f
  PROVE  p = q
<1>1. \A a \in Int, b \in Int : a < b => a * f + f <= b * f
  <2> SUFFICES ASSUME NEW a \in Int, NEW b \in Int, a < b PROVE a * f + f <= b * f
    OBVIOUS
  <2>1. PICK d \in Nat : b = a + 1 + d
    <3>1. b - a - 1 \in Nat /\ b = a + 1 + (b - a - 1)
      OBVIOUS
    <3> QED BY <3>1
  <2>2. b * f = a * f + f + d * f /\ d * f >= 0
    BY <2>1
  <2>3. a * f \in Int /\ d * f \in Int
    OBVIOUS
  <2> QED BY <2>2, <2>3
<1>2. p * f \in Int /\ q * f \in Int
  OBVIOUS
<1>3. ~(p < q) /\ ~(q < p)
  BY <1>1, <1>2
<1> QED BY <1>3

(* The beginning of the period of a time.                                  *)
LEMMA BeginIs ==
  ASSUME NEW t \in Nat
  PROVE  /\ Begin(t) \in Int /\ Begin(t) <= t /\ t < Begin(t) + Frequency
         /\ \E q \in Int : Begin(t) = q * Frequency
<1>1. Frequency \in Nat \ {0}
  BY DispatcherAssumption
<1>2. PICK f \in Nat \ {0} : f = Frequency
  BY <1>1
<1>3. t % f \in 0 .. f - 1 /\ t = (t \div f) * f + (t % f) /\ t \div f \in Int
  OBVIOUS
<1>4. PICK r \in Int, q \in Int : r = t % f /\ q = t \div f
  BY <1>3
<1>5. q * f \in Int
  BY <1>2
<1>6. Begin(t) = t - r /\ Begin(t) = q * f
  BY <1>2, <1>3, <1>4, <1>5 DEF Begin
<1>7. r \in 0 .. f - 1
  BY <1>3, <1>4
<1>8. Begin(t) \in Int /\ Begin(t) <= t /\ t < Begin(t) + f
  BY <1>6, <1>7
<1> QED BY <1>2, <1>4, <1>6, <1>8

(* A time between the beginning of a period and its end is in the period.  *)
LEMMA SamePeriod ==
  ASSUME NEW s \in Nat, NEW t \in Nat, Begin(s) <= t, t < Begin(s) + Frequency
  PROVE  Begin(t) = Begin(s)
<1>1. PICK f \in Nat \ {0} : f = Frequency
  BY DispatcherAssumption
<1>2. PICK p \in Int : Begin(s) = p * f
  BY <1>1, BeginIs
<1>3. PICK q \in Int : Begin(t) = q * f
  BY <1>1, BeginIs
<1>4. Begin(t) \in Int /\ Begin(t) <= t /\ t < Begin(t) + f
  BY <1>1, BeginIs
<1>5. p = q
  BY <1>1, <1>2, <1>3, <1>4, OneMultiple
<1> QED BY <1>2, <1>3, <1>5

(* Periods follow one another.                                             *)
LEMMA BeginMonotonic ==
  ASSUME NEW s \in Nat, NEW t \in Nat, s <= t
  PROVE  Begin(s) <= Begin(t)
<1>1. SUFFICES ASSUME Begin(t) < Begin(s) PROVE FALSE
  BY BeginIs
<1>2. /\ Begin(t) \in Int /\ Begin(s) \in Int /\ Begin(s) <= s /\ t < Begin(t) + Frequency
      /\ Begin(t) <= t
  BY BeginIs
<1>3. Frequency \in Nat
  BY DispatcherAssumption
<1>4. Begin(t) <= s /\ s < Begin(t) + Frequency
  BY <1>1, <1>2, <1>3
<1>5. Begin(s) = Begin(t)
  BY <1>4, SamePeriod
<1> QED BY <1>1, <1>2, <1>5

(* The beginning of a group is that of the period of its first bar.        *)
LEMMA StartIs ==
  ASSUME NEW g \in Groups
  PROVE  \E b \in g : StartOf(g) = Begin(b[2]) /\ \A c \in g : b[2] <= c[2]
<1>1. PICK S : S = {b[2] : b \in g}
  OBVIOUS
<1>2. S \in SUBSET Nat /\ S # {}
  <2>1. \A b \in g : b[2] \in Nat
    BY DispatcherAssumption DEF Groups, Bars, Times
  <2>2. g # {}
    BY DEF Groups
  <2> QED BY <1>1, <2>1, <2>2
<1>3. Min(S) \in S /\ \A t \in S : Min(S) <= t
  BY <1>2, MinIs
<1>4. StartOf(g) = Begin(Min(S))
  BY <1>1 DEF StartOf
<1> QED BY <1>1, <1>3, <1>4

-----------------------------------------------------------------------------
(* The subjects *)

(* A sequence is the tuple of its elements.                                *)
LEMMA SingleIs ==
  ASSUME NEW S, NEW s \in Seq(S), Len(s) = 1
  PROVE  s = <<s[1]>>
OBVIOUS

(* So is a pair.                                                           *)
LEMMA PairIs ==
  ASSUME NEW S, NEW s \in Seq(S), Len(s) = 2
  PROVE  s = <<s[1], s[2]>>
OBVIOUS

(* The priorities of dispatchprio and of the subjects that have none.      *)
LEMMA Priorities ==
  /\ Priority("broker") = 1000 /\ Priority("feed") = 2000
  /\ Priority("resampled") = 2000 /\ Priority("other") = -1 /\ LAST = -1
BY DEF Priority, LAST

(* Adding a subject that comes after all the others, ...                   *)
LEMMA AddLast ==
  ASSUME NEW seq, NEW s, s \notin ToSet(seq),
         \A k \in DOMAIN seq : Priority(seq[k]) # LAST /\ (Priority(s) = LAST \/ ~(Priority(s) < Priority(seq[k])))
  PROVE  AddSubject(seq, s) = Append(seq, s)
BY DEF AddSubject

(* ... one that is there ...                                               *)
LEMMA AddAgain ==
  ASSUME NEW seq, NEW s, s \in ToSet(seq)
  PROVE  AddSubject(seq, s) = seq
BY DEF AddSubject

(* ... and the one that comes before the feed of other values.             *)
LEMMA AddBefore ==
  AddSubject(<<"broker", "feed", "other">>, "resampled") = <<"broker", "feed", "resampled", "other">>
<1>1. PICK seq : seq = <<"broker", "feed", "other">>
  OBVIOUS
<1>2. Len(seq) = 3 /\ DOMAIN seq = 1 .. 3 /\ seq[1] = "broker" /\ seq[2] = "feed" /\ seq[3] = "other"
  BY <1>1
<1>3. "resampled" \notin ToSet(seq)
  BY <1>2 DEF ToSet
<1>4. {k \in DOMAIN seq : Priority(seq[k]) = LAST
          \/ (Priority("resampled") # LAST /\ Priority("resampled") < Priority(seq[k]))} = {3}
  BY <1>2, Priorities
<1>5. Min({3}) = 3
  BY MinIs
<1>6. AddSubject(seq, "resampled") = InsertAt(seq, 3, "resampled")
  <2>1. {3} # {} /\ Priority("resampled") # LAST
    BY Priorities
  <2> QED BY <1>3, <1>4, <1>5, <2>1, Zenon DEF AddSubject
<1>7. SubSeq(seq, 1, 2) = <<"broker", "feed">> /\ SubSeq(seq, 3, 3) = <<"other">>
  <2>1. \A i \in 1 .. 3 : seq[i] \in Names
    BY <1>2 DEF Names
  <2>2. /\ SubSeq(seq, 1, 2) \in Seq(Names) /\ Len(SubSeq(seq, 1, 2)) = 2
        /\ \A i \in 1 .. 2 : SubSeq(seq, 1, 2)[i] = seq[i]
    BY <2>1, SubSeqProperties
  <2>3. /\ SubSeq(seq, 3, 3) \in Seq(Names) /\ Len(SubSeq(seq, 3, 3)) = 1
        /\ SubSeq(seq, 3, 3)[1] = seq[3]
    BY <2>1, SubSeqProperties
  <2>4. PICK a \in Seq(Names), b \in Seq(Names) : a = SubSeq(seq, 1, 2) /\ b = SubSeq(seq, 3, 3)
    BY <2>2, <2>3
  <2>5. a = <<a[1], a[2]>>
    BY <2>2, <2>4, PairIs
  <2>6. b = <<b[1]>>
    BY <2>3, <2>4, SingleIs
  <2> QED BY <1>2, <2>2, <2>3, <2>4, <2>5, <2>6
<1>8. InsertAt(seq, 3, "resampled") = <<"broker", "feed">> \o <<"resampled">> \o <<"other">>
  BY <1>2, <1>7 DEF InsertAt
<1> QED BY <1>1, <1>6, <1>8

(* The four sequences of subjects.                                         *)
LEMMA SubjectsAre ==
  ASSUME Subjects
  PROVE  /\ DOMAIN subjects \subseteq Nat \ {0}
         /\ "broker" \in ToSet(subjects) /\ "feed" \in ToSet(subjects)
         /\ ToSet(subjects) \subseteq Names
         /\ \A k \in DOMAIN subjects : subjects[k] \in Names
BY DEF Subjects, ToSet, Names

(* What the strategy may add, and where it goes.                           *)
LEMMA AddedSubjects ==
  /\ AddSubject(AddSubject(<<>>, "broker"), "feed") = <<"broker", "feed">>
  /\ AddSubject(<<"broker", "feed">>, "other") = <<"broker", "feed", "other">>
  /\ AddSubject(<<"broker", "feed">>, "resampled") = <<"broker", "feed", "resampled">>
  /\ AddSubject(<<"broker", "feed", "resampled">>, "other") = <<"broker", "feed", "resampled", "other">>
<1>1. AddSubject(<<>>, "broker") = <<"broker">>
  <2>1. PICK seq : seq = <<>>
    OBVIOUS
  <2>2. DOMAIN seq = 1 .. 0
    BY <2>1
  <2>3. "broker" \notin ToSet(seq)
    BY <2>2 DEF ToSet
  <2>4. \A k \in DOMAIN seq :
          Priority(seq[k]) # LAST /\ (Priority("broker") = LAST \/ ~(Priority("broker") < Priority(seq[k])))
    BY <2>2, Priorities
  <2>5. AddSubject(seq, "broker") = Append(seq, "broker")
    BY <2>3, <2>4, AddLast
  <2> QED BY <2>1, <2>5
<1>2. AddSubject(<<"broker">>, "feed") = <<"broker", "feed">>
  <2>1. PICK seq : seq = <<"broker">>
    OBVIOUS
  <2>2. DOMAIN seq = 1 .. 1 /\ seq[1] = "broker"
    BY <2>1
  <2>3. "feed" \notin ToSet(seq)
    BY <2>2 DEF ToSet
  <2>4. \A k \in DOMAIN seq :
          Priority(seq[k]) # LAST /\ (Priority("feed") = LAST \/ ~(Priority("feed") < Priority(seq[k])))
    BY <2>2, Priorities
  <2>5. AddSubject(seq, "feed") = Append(seq, "feed")
    BY <2>3, <2>4, AddLast
  <2> QED BY <2>1, <2>5
<1>3. AddSubject(<<"broker", "feed">>, "other") = <<"broker", "feed", "other">>
  <2>1. PICK seq : seq = <<"broker", "feed">>
    OBVIOUS
  <2>2. DOMAIN seq = 1 .. 2 /\ seq[1] = "broker" /\ seq[2] = "feed"
    BY <2>1
  <2>3. "other" \notin ToSet(seq)
    BY <2>2 DEF ToSet
  <2>4. \A k \in DOMAIN seq :
          Priority(seq[k]) # LAST /\ (Priority("other") = LAST \/ ~(Priority("other") < Priority(seq[k])))
    BY <2>2, Priorities
  <2>5. AddSubject(seq, "other") = Append(seq, "other")
    BY <2>3, <2>4, AddLast
  <2> QED BY <2>1, <2>5
<1>4. AddSubject(<<"broker", "feed">>, "resampled") = <<"broker", "feed", "resampled">>
  <2>1. PICK seq : seq = <<"broker", "feed">>
    OBVIOUS
  <2>2. DOMAIN seq = 1 .. 2 /\ seq[1] = "broker" /\ seq[2] = "feed"
    BY <2>1
  <2>3. "resampled" \notin ToSet(seq)
    BY <2>2 DEF ToSet
  <2>4. \A k \in DOMAIN seq :
          Priority(seq[k]) # LAST /\ (Priority("resampled") = LAST \/ ~(Priority("resampled") < Priority(seq[k])))
    BY <2>2, Priorities
  <2>5. AddSubject(seq, "resampled") = Append(seq, "resampled")
    BY <2>3, <2>4, AddLast
  <2> QED BY <2>1, <2>5
<1>5. AddSubject(<<"broker", "feed", "resampled">>, "other") = <<"broker", "feed", "resampled", "other">>
  <2>1. PICK seq : seq = <<"broker", "feed", "resampled">>
    OBVIOUS
  <2>2. DOMAIN seq = 1 .. 3 /\ seq[1] = "broker" /\ seq[2] = "feed" /\ seq[3] = "resampled"
    BY <2>1
  <2>3. "other" \notin ToSet(seq)
    BY <2>2 DEF ToSet
  <2>4. \A k \in DOMAIN seq :
          Priority(seq[k]) # LAST /\ (Priority("other") = LAST \/ ~(Priority("other") < Priority(seq[k])))
    BY <2>2, Priorities
  <2>5. AddSubject(seq, "other") = Append(seq, "other")
    BY <2>3, <2>4, AddLast
  <2> QED BY <2>1, <2>5
<1> QED BY <1>1, <1>2, <1>3, <1>4, <1>5

(* A subject is added to the ones there are, and they keep their order.    *)
LEMMA AddToSubjects ==
  ASSUME Subjects, NEW s \in {"other", "resampled"}, subjects' = AddSubject(subjects, s)
  PROVE  /\ Subjects'
         /\ ToSet(subjects') = ToSet(subjects) \cup {s}
<1>1. CASE subjects = <<"broker", "feed">>
  <2>1. subjects' = IF s = "other" THEN <<"broker", "feed", "other">> ELSE <<"broker", "feed", "resampled">>
    BY <1>1, AddedSubjects
  <2> QED BY <1>1, <2>1 DEF Subjects, ToSet
<1>2. CASE subjects = <<"broker", "feed", "other">>
  <2>1. "other" \in ToSet(subjects)
    BY <1>2 DEF ToSet
  <2>2. subjects' = IF s = "other" THEN subjects ELSE <<"broker", "feed", "resampled", "other">>
    BY <1>2, <2>1, AddBefore, AddAgain
  <2> QED BY <1>2, <2>2 DEF Subjects, ToSet
<1>3. CASE subjects = <<"broker", "feed", "resampled">>
  <2>1. "resampled" \in ToSet(subjects)
    BY <1>3 DEF ToSet
  <2>2. subjects' = IF s = "other" THEN <<"broker", "feed", "resampled", "other">> ELSE subjects
    BY <1>3, <2>1, AddedSubjects, AddAgain
  <2> QED BY <1>3, <2>2 DEF Subjects, ToSet
<1>4. CASE subjects = <<"broker", "feed", "resampled", "other">>
  <2>1. ToSet(subjects) = {"broker", "feed", "resampled", "other"}
    BY <1>4 DEF ToSet
  <2>2. subjects' = subjects
    BY <2>1, AddAgain
  <2> QED BY <1>4, <2>1, <2>2 DEF Subjects, ToSet
<1> QED BY <1>1, <1>2, <1>3, <1>4 DEF Subjects

(* Only the strategy adds subjects.                                        *)
LEMMA SubjectsStay ==
  ASSUME [Next]_vars, ~AddOther, ~ResampleBarFeed
  PROVE  subjects' = subjects
BY DEF Next, Thread, Strategy, vars, thread, Scan, EndTurn, Unwind, NothingDispatched, DispatchStored,
       DispatchLive, DispatchOther, DispatchResampled, TurnOf, Return, Run, RequestStop, Raise, Tick, Arrive

(* Every step leaves the subjects in one of the four orders.               *)
LEMMA StepSubjects ==
  ASSUME IInv, [Next]_vars
  PROVE  Subjects'
<1>1. CASE AddOther
  BY <1>1, AddToSubjects DEF IInv, AddOther
<1>2. CASE ResampleBarFeed
  BY <1>2, AddToSubjects DEF IInv, ResampleBarFeed
<1>3. CASE ~AddOther /\ ~ResampleBarFeed
  BY <1>3, SubjectsStay DEF IInv, Subjects
<1> QED BY <1>1, <1>2, <1>3

-----------------------------------------------------------------------------
(* What the stored feed offers *)

(* The datetimes of the stored feed's next bars, and the smallest.         *)
LEMMA NextTimesAre ==
  ASSUME TypeOK
  PROVE  /\ NextTimes \subseteq Times
         /\ NextTimes = {} <=> \A i \in Instruments : remaining[i] = {}
         /\ NextTimes # {} => /\ Min(NextTimes) \in Times
                              /\ \E i \in Instruments : Min(NextTimes) \in remaining[i]
                              /\ \A i \in Instruments : \A t \in remaining[i] : Min(NextTimes) <= t
<1>1. Times \subseteq Nat /\ \A i \in Instruments : remaining[i] \subseteq Times
  <2>1. \A i \in Instruments : remaining[i] \in SUBSET Times
    BY DEF TypeOK
  <2>2. Times \subseteq Nat
    BY DispatcherAssumption DEF Times
  <2> QED BY <2>1, <2>2
<1>2. ASSUME NEW i \in Instruments, remaining[i] # {}
      PROVE  Min(remaining[i]) \in remaining[i] /\ \A t \in remaining[i] : Min(remaining[i]) <= t
  <2>1. PICK S \in SUBSET Nat : S = remaining[i]
    BY <1>1
  <2> QED BY <1>2, <2>1, MinIs
<1>3. NextTimes \subseteq Times
  BY <1>1, <1>2 DEF NextTimes
<1>4. ASSUME NEW i \in Instruments, NEW t \in remaining[i]
      PROVE  Min(remaining[i]) \in NextTimes /\ Min(remaining[i]) <= t
  BY <1>2, <1>4 DEF NextTimes
<1>5. NextTimes # {} => Min(NextTimes) \in NextTimes /\ \A t \in NextTimes : Min(NextTimes) <= t
  <2>1. PICK S \in SUBSET Nat : S = NextTimes
    BY <1>1, <1>3
  <2> QED BY <2>1, MinIs
<1>6. ASSUME NextTimes # {}, NEW i \in Instruments, NEW t \in remaining[i]
      PROVE  Min(NextTimes) <= t
  <2>1. Min(remaining[i]) \in NextTimes /\ Min(remaining[i]) <= t
    BY <1>4
  <2>2. Min(NextTimes) <= Min(remaining[i])
    BY <1>5, <1>6, <2>1
  <2>3. Min(NextTimes) \in Nat /\ Min(remaining[i]) \in Nat /\ t \in Nat
    BY <1>1, <1>3, <1>5, <1>6, <2>1
  <2> QED BY <2>1, <2>2, <2>3
<1>7. NextTimes = {} => \A i \in Instruments : remaining[i] = {}
  BY <1>4
<1>8. (\A i \in Instruments : remaining[i] = {}) => NextTimes = {}
  BY DEF NextTimes
<1>9. NextTimes # {} => \E i \in Instruments : Min(NextTimes) \in remaining[i]
  <2> SUFFICES ASSUME NextTimes # {} PROVE \E i \in Instruments : Min(NextTimes) \in remaining[i]
    OBVIOUS
  <2>1. PICK i \in Instruments : remaining[i] # {} /\ Min(NextTimes) = Min(remaining[i])
    BY <1>5 DEF NextTimes
  <2> QED BY <1>2, <2>1
<1> QED BY <1>3, <1>5, <1>6, <1>7, <1>8, <1>9

(* What a subject peeks and when it ends.                                  *)
LEMMA Peeks ==
  /\ PeekDateTime("broker") = 0 /\ PeekDateTime("resampled") = 0
  /\ PeekDateTime("feed") = IF live \/ NextTimes = {} THEN 0 ELSE Min(NextTimes)
  /\ PeekDateTime("other") = IF other = <<>> THEN 0 ELSE Head(other)
  /\ Eof("broker") <=> ~live /\ NextTimes = {}
  /\ Eof("feed") <=> ~live /\ NextTimes = {}
  /\ Eof("other") <=> other = <<>>
  /\ Eof("resampled") <=> values = <<>>
BY DEF PeekDateTime, Eof

(* The datetimes on offer, and the smallest.                               *)
LEMMA OfferedAre ==
  ASSUME TypeOK, Subjects
  PROVE  /\ Offered \subseteq Times
         /\ Offered # {} => Min(Offered) \in Offered /\ \A t \in Offered : Min(Offered) <= t
<1>1. ASSUME NEW s \in Names
      PROVE  PeekDateTime(s) \in Times \cup {0}
  <2>1. PeekDateTime("feed") \in Times \cup {0}
    BY NextTimesAre, Peeks
  <2>2. PeekDateTime("other") \in Times \cup {0}
    <3>1. other # <<>> => Head(other) \in Times
      BY HeadTailProperties DEF TypeOK
    <3> QED BY <3>1, Peeks
  <2> QED BY <2>1, <2>2, Peeks DEF Names
<1>2. Offered \subseteq Times
  BY <1>1, SubjectsAre DEF Offered, Offering
<1>3. PICK S : S = Offered
  OBVIOUS
<1>4. S \in SUBSET Nat
  BY <1>2, <1>3, DispatcherAssumption DEF Times
<1> QED BY <1>2, <1>3, <1>4, MinIs

-----------------------------------------------------------------------------
(* Types *)

(* A bar is of an instrument and has a datetime after 0.                   *)
LEMMA Bounds == Times \subseteq Nat \ {0} /\ \A b \in Bars : b[1] \in Instruments /\ b[2] \in Times
BY DispatcherAssumption DEF Times, Bars

(* The bars that a stored feed dispatches, with the datetime of them all.  *)
LEMMA StoredBars ==
  ASSUME TypeOK, DispatchStored
  PROVE  \E time \in Times :
           /\ time = Min(NextTimes) /\ NextTimes # {} /\ ~live /\ PeekDateTime("feed") = time
           /\ smallest = time
           /\ remaining' = [i \in Instruments |-> remaining[i] \ {time}]
           /\ current' = {b \in Instruments \X {time} : time \in remaining[b[1]]}
           /\ current' \subseteq Bars /\ current' # {} /\ \A b \in current' : b[2] = time
           /\ log' = Append(log, [dateTime |-> time, bars |-> current'])
<1>1. ~live /\ DueNow("feed") /\ NextTimes # {}
  BY Peeks DEF DispatchStored, DueNow
<1>2. PICK time \in Times : /\ time = Min(NextTimes)
                            /\ \E i \in Instruments : time \in remaining[i]
  BY <1>1, NextTimesAre
<1>3. PeekDateTime("feed") = time /\ smallest = time
  BY <1>1, <1>2, Peeks, Bounds DEF DueNow
<1>4. /\ remaining' = [i \in Instruments |-> remaining[i] \ {time}]
      /\ current' = {b \in Instruments \X {time} : time \in remaining[b[1]]}
      /\ log' = Append(log, [dateTime |-> time, bars |-> current'])
  BY <1>2 DEF DispatchStored, Logged
<1>5. current' \subseteq Bars /\ \A b \in current' : b[2] = time
  BY <1>2, <1>4 DEF Bars
<1>6. current' # {}
  <2>1. PICK i \in Instruments : time \in remaining[i]
    BY <1>2
  <2>2. <<i, time>> \in current'
    BY <1>4, <2>1
  <2> QED BY <2>2
<1> QED BY <1>1, <1>2, <1>3, <1>4, <1>5, <1>6

(* The values of another step of a sequence of groups.                     *)
LEMMA AppendGroup ==
  ASSUME NEW s \in Seq(Groups), NEW g \in SUBSET Bars, g # {}
  PROVE  /\ Append(s, g) \in Seq(Groups) /\ Len(Append(s, g)) = Len(s) + 1
         /\ \A i \in 1 .. Len(s) : Append(s, g)[i] = s[i]
         /\ Append(s, g)[Len(s) + 1] = g
<1>1. g \in Groups
  BY DEF Groups
<1> QED BY <1>1, AppendProperties

(* What a turn leaves alone.                                               *)
LEMMA TurnIs ==
  ASSUME TypeOK, NEW s, TurnOf(s)
  PROVE  /\ turn' \in Nat \ {0} /\ stage' = "turn" /\ smallest' = smallest /\ stop' = stop
         /\ subjects' = subjects /\ stage = "turn" /\ source = "none" /\ s \in ToSet(subjects)
<1>1. turn \in Nat \ {0} /\ turn' = turn + 1
  BY DEF TurnOf, TypeOK
<1> QED BY <1>1 DEF TurnOf, Running, ToSet

(* Every step keeps the types.                                             *)
LEMMA StepTypes ==
  ASSUME IInv, [Next]_vars
  PROVE  TypeOK'
<1>1. TypeOK /\ Subjects /\ Control /\ BarsInOrder
  BY DEF IInv
<1> USE DEF vars, thread, feed, resampler
<1>2. CASE AddOther
  BY <1>1, <1>2 DEF AddOther, TypeOK
<1>3. CASE Run
  BY <1>1, <1>3 DEF Run, TypeOK, Events
<1>4. CASE Scan
  <2>1. PICK m \in Nat : m = IF Offered = {} THEN 0 ELSE Min(Offered)
    BY <1>1, OfferedAre, Bounds
  <2>2. turn' \in Nat \ {0} /\ smallest' \in Nat /\ stage' \in {"turn", "finished"} /\ dispatched' \in BOOLEAN
    <3>1. turn \in Nat \ {0} /\ smallest \in Nat /\ dispatched \in BOOLEAN
      BY <1>1 DEF TypeOK
    <3>2. CASE stage' = "finished" /\ UNCHANGED <<turn, smallest, dispatched>>
      BY <3>1, <3>2
    <3>3. CASE stage' = "turn" /\ turn' = 1 /\ dispatched' = FALSE /\ smallest' = m
      <4>1. dispatched' \in BOOLEAN
        BY <3>3, Zenon
      <4>2. turn' \in Nat \ {0} /\ smallest' \in Nat /\ stage' \in {"turn", "finished"}
        BY <3>3
      <4> QED BY <4>1, <4>2
    <3> QED BY <1>4, <2>1, <3>2, <3>3 DEF Scan
  <2>3. UNCHANGED <<stop, source, failure, feed, other, resampler, log>>
    BY <1>4 DEF Scan
  <2> QED BY <1>1, <2>2, <2>3 DEF TypeOK
<1>5. CASE EndTurn
  <2>1. PICK g \in SUBSET Bars : g = group
    BY <1>1 DEF TypeOK
  <2>2. values' \in Seq(Groups) /\ group' \in SUBSET Bars
    <3>1. group # {} => Append(values, group) \in Seq(Groups)
      BY <1>1, <2>1, AppendGroup DEF TypeOK
    <3> QED BY <1>1, <1>5, <3>1 DEF EndTurn, CheckNow, PeriodOver, TypeOK
  <2> QED BY <1>1, <1>5, <2>2 DEF EndTurn, CheckNow, TypeOK, Events
<1>6. CASE Unwind
  BY <1>1, <1>6 DEF Unwind, TypeOK
<1>7. ASSUME NEW s \in Names, NothingDispatched(s) PROVE TypeOK'
  <2>1. TurnOf(s) /\ UNCHANGED <<dispatched, source, failure, feed, other, resampler, log>>
    BY <1>7 DEF NothingDispatched
  <2> QED BY <1>1, <2>1, TurnIs DEF TypeOK
<1>8. CASE DispatchStored
  <2>1. PICK time \in Times :
          /\ remaining' = [i \in Instruments |-> remaining[i] \ {time}] /\ current' \subseteq Bars
          /\ log' = Append(log, [dateTime |-> time, bars |-> current'])
    BY <1>1, <1>8, StoredBars
  <2>2. remaining' \in [Instruments -> SUBSET Times]
    BY <1>1, <2>1 DEF TypeOK
  <2>3. PICK e \in [dateTime : Times, bars : SUBSET Bars] : log' = Append(log, e)
    BY <2>1
  <2>4. log' \in Seq([dateTime : Times, bars : SUBSET Bars])
    BY <1>1, <2>3, AppendProperties DEF TypeOK
  <2>5. /\ TurnOf("feed") /\ dispatched' = TRUE /\ source' = "feed" /\ failure' = failure
        /\ UNCHANGED <<live, clock, queue, other, resampler>>
    BY <1>8 DEF DispatchStored, Emits
  <2> QED BY <1>1, <2>1, <2>2, <2>4, <2>5, TurnIs DEF TypeOK, Events
<1>9. CASE DispatchLive
  <2>1. Head(queue) \in Bars /\ Tail(queue) \in Seq(Bars)
    BY <1>1, <1>9, HeadTailProperties DEF TypeOK, DispatchLive
  <2>2. /\ TurnOf("feed") /\ dispatched' = TRUE /\ source' = "feed" /\ failure' = failure
        /\ UNCHANGED <<live, clock, remaining, other, resampler, log>>
        /\ current' = {Head(queue)} /\ queue' = Tail(queue)
    BY <1>9 DEF DispatchLive, Emits
  <2> QED BY <1>1, <2>1, <2>2, TurnIs DEF TypeOK, Events
<1>10. CASE DispatchOther
  <2>1. other # <<>>
    BY <1>10, Peeks DEF DispatchOther, DueNow
  <2>2. Head(other) \in Times /\ Tail(other) \in Seq(Times)
    BY <1>1, <2>1, HeadTailProperties DEF TypeOK
  <2>3. PICK e \in [dateTime : Times, bars : SUBSET Bars] : log' = Append(log, e)
    BY <1>10, <2>2 DEF DispatchOther, Logged
  <2>4. log' \in Seq([dateTime : Times, bars : SUBSET Bars])
    BY <1>1, <2>3, AppendProperties DEF TypeOK
  <2>5. /\ TurnOf("other") /\ dispatched' = TRUE /\ source' = "other" /\ failure' = failure
        /\ other' = Tail(other) /\ UNCHANGED <<feed, resampler>>
    BY <1>10 DEF DispatchOther, Emits
  <2> QED BY <1>1, <2>2, <2>4, <2>5, TurnIs DEF TypeOK, Events
<1>11. CASE DispatchResampled
  <2>1. values # <<>>
    BY <1>11, Peeks DEF DispatchResampled, DueNow
  <2>2. Tail(values) \in Seq(Groups) /\ Append(emitted, Head(values)) \in Seq(Groups)
    <3>1. Head(values) \in Groups /\ Tail(values) \in Seq(Groups)
      BY <1>1, <2>1, HeadTailProperties DEF TypeOK
    <3> QED BY <1>1, <3>1, AppendProperties DEF TypeOK
  <2>3. CASE failure' = "not in order" /\ source' = "failed" /\ UNCHANGED <<dispatched, resampler>>
    <3>1. TurnOf("resampled") /\ UNCHANGED <<feed, other, log>>
      BY <1>11 DEF DispatchResampled
    <3> QED BY <1>1, <2>3, <3>1, TurnIs DEF TypeOK
  <2>4. CASE /\ values' = Tail(values) /\ emitted' = Append(emitted, Head(values)) /\ Emits("resampled")
             /\ UNCHANGED <<subscription, group, seen, closed>>
    <3>1. TurnOf("resampled") /\ UNCHANGED <<feed, other, log>>
      BY <1>11 DEF DispatchResampled
    <3>2. dispatched' = TRUE /\ source' = "resampled" /\ failure' = failure
      BY <2>4 DEF Emits
    <3> QED BY <1>1, <2>2, <2>4, <3>1, <3>2, TurnIs DEF TypeOK, Events
  <2> QED BY <1>11, <2>3, <2>4 DEF DispatchResampled
<1>12. CASE Return
  <2>1. PICK g \in SUBSET Bars : g = group
    BY <1>1 DEF TypeOK
  <2>2. group # {} => Append(values, group) \in Seq(Groups)
    BY <1>1, <2>1, AppendGroup DEF TypeOK
  <2>3. /\ values' \in Seq(Groups) /\ group' \in SUBSET Bars /\ seen' \in SUBSET Bars
        /\ emitted' = emitted /\ subscription' \in {"none", "deferred", "subscribed"}
    BY <1>1, <1>12, <2>2 DEF Return, OnNewValues, FirstOf, TypeOK
  <2> QED BY <1>1, <1>12, <2>3 DEF Return, TypeOK
<1>13. CASE RequestStop
  BY <1>1, <1>13 DEF RequestStop, TypeOK
<1>14. CASE Raise
  BY <1>1, <1>14 DEF Raise, TypeOK
<1>15. CASE ResampleBarFeed
  BY <1>1, <1>15 DEF ResampleBarFeed, TypeOK
<1>16. CASE Tick
  <2>1. clock' \in Nat
    <3>1. clock \in Nat
      BY <1>1 DEF TypeOK
    <3>2. clock' = clock + 1
      BY <1>16 DEF Tick
    <3> QED BY <3>1, <3>2
  <2>2. UNCHANGED <<thread, stop, source, failure, live, remaining, queue, current, other, resampler, log>>
    BY <1>16 DEF Tick
  <2> QED BY <1>1, <2>1, <2>2 DEF TypeOK
<1>17. ASSUME NEW i \in Instruments, Arrive(i) PROVE TypeOK'
  <2>1. PICK b \in Bars : queue' = Append(queue, b)
    BY <1>17 DEF Arrive, Bars
  <2>2. queue' \in Seq(Bars)
    BY <1>1, <2>1, AppendProperties DEF TypeOK
  <2> QED BY <1>1, <1>17, <2>2 DEF Arrive, TypeOK
<1>18. CASE UNCHANGED vars
  BY <1>1, <1>18 DEF TypeOK
<1> QED BY <1>2, <1>3, <1>4, <1>5, <1>6, <1>7, <1>8, <1>9, <1>10, <1>11, <1>12, <1>13, <1>14, <1>15,
           <1>16, <1>17, <1>18 DEF Next, Thread, Strategy

-----------------------------------------------------------------------------
(* Where the run is *)

(* Every step keeps what is known of where the run is: only an exception   *)
(* stops it between two turns, and nothing is collected before subscribing.*)
LEMMA StepControl ==
  ASSUME IInv, [Next]_vars
  PROVE  Control'
<1>1. TypeOK /\ Subjects /\ Control
  BY DEF IInv
<1> USE DEF vars, thread, feed, resampler
<1>2. CASE AddOther
  <2>1. ToSet(subjects') = ToSet(subjects) \cup {"other"}
    BY <1>1, <1>2, AddToSubjects DEF AddOther
  <2> QED BY <1>1, <1>2, <2>1 DEF AddOther, Control
<1>3. CASE Run
  BY <1>1, <1>3 DEF Run, Control
<1>4. CASE Scan
  <2>1. stage = "scan" /\ source = "none" /\ stage' \in {"turn", "finished"}
        /\ UNCHANGED <<subjects, stop, source, failure, feed, other, resampler, log>>
    BY <1>4 DEF Scan, Running
  <2> QED BY <1>1, <2>1 DEF Control
<1>5. CASE EndTurn
  <2>1. /\ stage = "turn" /\ source = "none" /\ stage' = "scan"
        /\ UNCHANGED <<subjects, stop, failure, feed, other, log>>
        /\ source' \in {"none", "idle"}
    BY <1>5 DEF EndTurn, Running
  <2>2. /\ subscription' = subscription
        /\ subscription # "subscribed" => UNCHANGED <<group, values, seen, emitted>>
    BY <1>1, <1>5 DEF EndTurn, CheckNow, PeriodOver, Control
  <2> QED BY <1>1, <2>1, <2>2 DEF Control
<1>6. CASE Unwind
  BY <1>1, <1>6 DEF Unwind, Control
<1>7. ASSUME NEW s \in Names, NothingDispatched(s) PROVE Control'
  <2>1. TurnOf(s) /\ UNCHANGED <<source, failure, feed, other, resampler, log>>
    BY <1>7 DEF NothingDispatched
  <2> QED BY <1>1, <2>1, TurnIs DEF Control
<1>8. CASE DispatchStored
  <2>1. TurnOf("feed") /\ source' = "feed" /\ failure' = failure /\ UNCHANGED resampler
    BY <1>8 DEF DispatchStored, Emits
  <2> QED BY <1>1, <2>1, TurnIs DEF Control
<1>9. CASE DispatchLive
  <2>1. TurnOf("feed") /\ source' = "feed" /\ failure' = failure /\ UNCHANGED resampler
    BY <1>9 DEF DispatchLive, Emits
  <2> QED BY <1>1, <2>1, TurnIs DEF Control
<1>10. CASE DispatchOther
  <2>1. TurnOf("other") /\ source' = "other" /\ failure' = failure /\ UNCHANGED resampler
    BY <1>10 DEF DispatchOther, Emits
  <2> QED BY <1>1, <2>1, TurnIs DEF Control
<1>11. CASE DispatchResampled
  <2>1. TurnOf("resampled") /\ values # <<>>
    BY <1>11, Peeks DEF DispatchResampled, DueNow
  <2>2. CASE failure' = "not in order" /\ source' = "failed" /\ UNCHANGED <<dispatched, resampler>>
    BY <1>1, <2>1, <2>2, TurnIs DEF Control
  <2>3. CASE Emits("resampled") /\ UNCHANGED <<subscription, group, seen, closed>>
    <3>1. source' = "resampled" /\ failure' = failure
      BY <2>3 DEF Emits
    <3>2. subscription = "subscribed"
      BY <1>1, <2>1 DEF Control, TypeOK
    <3> QED BY <1>1, <2>1, <2>3, <3>1, <3>2, TurnIs DEF Control
  <2> QED BY <1>11, <2>2, <2>3 DEF DispatchResampled
<1>12. CASE Return
  <2>1. source \in Events /\ source' = "none" /\ UNCHANGED <<thread, stop, failure, feed, other, log>>
    BY <1>12 DEF Return
  <2>2. /\ subscription = "none" <=> subscription' = "none"
        /\ subscription' # "subscribed" => UNCHANGED <<subscription, group, values, seen, emitted>>
    BY <1>1, <1>12 DEF Return, OnNewValues, TypeOK
  <2> QED BY <1>1, <2>1, <2>2 DEF Control, Events
<1>13. CASE RequestStop
  BY <1>1, <1>13 DEF RequestStop, Control
<1>14. CASE Raise
  BY <1>1, <1>14 DEF Raise, Control, Events
<1>15. CASE ResampleBarFeed
  <2>1. ToSet(subjects') = ToSet(subjects) \cup {"resampled"}
    BY <1>1, <1>15, AddToSubjects DEF ResampleBarFeed
  <2> QED BY <1>1, <1>15, <2>1 DEF ResampleBarFeed, Control
<1>16. CASE Tick
  BY <1>1, <1>16 DEF Tick, Control
<1>17. ASSUME NEW i \in Instruments, Arrive(i) PROVE Control'
  BY <1>1, <1>17 DEF Arrive, Control
<1>18. CASE UNCHANGED vars
  BY <1>1, <1>18 DEF Control
<1> QED BY <1>2, <1>3, <1>4, <1>5, <1>6, <1>7, <1>8, <1>9, <1>10, <1>11, <1>12, <1>13, <1>14, <1>15,
           <1>16, <1>17, <1>18 DEF Next, Thread, Strategy

(* When the run is over nothing happens any more.                          *)
LEMMA OverForGood ==
  ASSUME Control, [Next]_vars, stage = "finished"
  PROVE  UNCHANGED vars
<1>1. source = "none"
  BY DEF Control
<1> QED BY <1>1 DEF Next, Thread, Strategy, Scan, EndTurn, Unwind, NothingDispatched, DispatchStored,
       DispatchLive, DispatchOther, DispatchResampled, TurnOf, Running, Return, Run, RequestStop, Raise, Tick, Arrive,
       AddOther, ResampleBarFeed, Events

(* It ends between two turns or by an exception.                           *)
LEMMA EndsBy ==
  ASSUME [Next]_vars, stage # "finished", stage' = "finished"
  PROVE  Scan \/ Unwind
BY DEF Next, Thread, Strategy, EndTurn, NothingDispatched, DispatchStored, vars, thread,
       DispatchLive, DispatchOther, DispatchResampled, TurnOf, Return, Run, RequestStop, Raise, Tick, Arrive,
       AddOther, ResampleBarFeed

(* The run that nobody stopped ends when no subject has anything to offer. *)
LEMMA StepNothingLeft ==
  ASSUME IInv, [Next]_vars
  PROVE  NothingLeft'
<1>1. TypeOK /\ Subjects /\ Control /\ NothingLeft
  BY DEF IInv
<1>2. CASE stage = "finished"
  <2>1. UNCHANGED vars
    BY <1>1, <1>2, OverForGood
  <2> QED BY <1>1, <2>1 DEF NothingLeft, vars, thread, feed, resampler
<1>3. CASE stage' # "finished"
  BY <1>3 DEF NothingLeft
<1>4. CASE stage # "finished" /\ Unwind
  BY <1>1, <1>4 DEF Unwind, Control, NothingLeft
<1>5. CASE stage # "finished" /\ stage' = "finished" /\ Scan
  <2>1. (stop \/ Offering = {}) /\ UNCHANGED <<subjects, stop, failure, feed, other, resampler>>
    BY <1>5 DEF Scan
  <2>2. CASE stop
    BY <2>1, <2>2 DEF NothingLeft
  <2>3. CASE Offering = {}
    <3>1. Eof("feed") /\ ("other" \in ToSet(subjects) => Eof("other"))
          /\ ("resampled" \in ToSet(subjects) => Eof("resampled"))
      BY <1>1, <2>3, SubjectsAre DEF Offering
    <3>2. \A i \in Instruments : remaining[i] = {}
      BY <1>1, <3>1, NextTimesAre, Peeks
    <3>3. "other" \in ToSet(subjects) => other = <<>>
      BY <3>1, Peeks
    <3>4. values = <<>>
      BY <1>1, <3>1, Peeks DEF Control
    <3> QED BY <2>1, <3>2, <3>3, <3>4 DEF NothingLeft, feed, resampler
  <2> QED BY <2>1, <2>2, <2>3
<1> QED BY <1>2, <1>3, <1>4, <1>5, EndsBy

-----------------------------------------------------------------------------
(* The order of events *)

(* An event of the datetime of the turn is added to the log.               *)
LEMMA LogEvent ==
  ASSUME TypeOK, TypeOK', LogOK, stage = "turn", stage' = "turn", smallest' = smallest, subjects' = subjects,
         NEW time \in Times, time = smallest, NotLater(time),
         NEW bars \in SUBSET Bars, \A b \in bars : b[2] = time,
         log' = Append(log, [dateTime |-> time, bars |-> bars]),
         \A i \in Instruments : remaining'[i] \subseteq remaining[i],
         \A k \in DOMAIN other' : \E j \in DOMAIN other : other'[k] = other[j],
         \A j, k \in DOMAIN other' : j <= k => other'[j] <= other'[k]
  PROVE  LogOK'
<1>1. PICK e \in [dateTime : Times, bars : SUBSET Bars] :
        e = [dateTime |-> time, bars |-> bars] /\ e.dateTime = time /\ e.bars = bars
  OBVIOUS
<1>2. PICK n \in Nat : n = Len(log)
  BY LenProperties DEF TypeOK
<1>3. log \in Seq([dateTime : Times, bars : SUBSET Bars]) /\ DOMAIN log = 1 .. n
  BY <1>2, LenProperties DEF TypeOK
<1>4. /\ DOMAIN log' = 1 .. n + 1 /\ log'[n + 1] = e
      /\ \A j \in 1 .. n : log'[j] = log[j]
  <2>1. log' \in Seq([dateTime : Times, bars : SUBSET Bars])
    BY DEF TypeOK
  <2>2. log' = Append(log, e)
    BY <1>1
  <2>3. Len(log') = n + 1 /\ log'[n + 1] = e /\ \A j \in 1 .. n : log'[j] = log[j]
    BY <1>2, <1>3, <2>2, AppendProperties
  <2> QED BY <2>1, <2>3, LenProperties
<1>5. \A j \in 1 .. n : log[j].dateTime \in Nat /\ log[j].dateTime <= time
  <2>1. \A j \in 1 .. n : log[j] \in [dateTime : Times, bars : SUBSET Bars]
    BY ZenonT(60), <1>2, <1>3, ElementOfSeq
  <2> QED BY <1>3, <2>1, Bounds DEF NotLater
<1>6. \A j \in DOMAIN log' : log'[j].dateTime <= time
  <2>1. e.dateTime <= time
    BY <1>1, Bounds
  <2> QED BY <1>2, <1>4, <1>5, <2>1
<1>7. \A j \in DOMAIN log' : \A b \in log'[j].bars : b[2] = log'[j].dateTime
  <2> SUFFICES ASSUME NEW j \in 1 .. n + 1, NEW b \in log'[j].bars PROVE b[2] = log'[j].dateTime
    BY <1>4
  <2>1. CASE j = n + 1
    BY <1>1, <1>4, <2>1
  <2>2. CASE j \in 1 .. n
    BY <1>3, <1>4, <2>2 DEF LogOK
  <2> QED BY <1>2, <2>1, <2>2
<1>8. \A j \in DOMAIN log' : j > 1 => log'[j - 1].dateTime <= log'[j].dateTime
  <2> SUFFICES ASSUME NEW j \in 1 .. n + 1, j > 1 PROVE log'[j - 1].dateTime <= log'[j].dateTime
    BY <1>4
  <2>1. CASE j = n + 1
    <3>1. j - 1 \in 1 .. n
      BY <1>2, <2>1
    <3>2. log'[j - 1] = log[j - 1] /\ log[j - 1].dateTime <= time
      BY <1>4, <1>5, <3>1
    <3> QED BY <1>1, <1>4, <2>1, <3>2
  <2>2. CASE j \in 1 .. n
    <3>1. j - 1 \in 1 .. n
      BY <1>2, <2>2
    <3>2. log[j - 1].dateTime <= log[j].dateTime
      BY <1>3, <2>2 DEF LogOK
    <3> QED BY <1>4, <2>2, <3>1, <3>2
  <2> QED BY <1>2, <2>1, <2>2
<1>9. ASSUME NEW t \in Times, time <= t
      PROVE  (\A j \in DOMAIN log' : log'[j].dateTime <= t)
  <2> SUFFICES ASSUME NEW j \in DOMAIN log' PROVE log'[j].dateTime <= t
    OBVIOUS
  <2>1. log'[j].dateTime \in Nat
    <3>1. CASE j = n + 1
      BY <1>1, <1>4, <3>1, Bounds
    <3>2. CASE j \in 1 .. n
      BY <1>4, <1>5, <3>2
    <3> QED BY <1>2, <1>4, <3>1, <3>2
  <2> QED BY <1>6, <1>9, <2>1, Bounds
<1>10. \A i \in Instruments : \A t \in remaining'[i] : (\A j \in DOMAIN log' : log'[j].dateTime <= t) /\ smallest' <= t
  <2> SUFFICES ASSUME NEW i \in Instruments, NEW t \in remaining'[i]
               PROVE  (\A j \in DOMAIN log' : log'[j].dateTime <= t) /\ smallest' <= t
    OBVIOUS
  <2>1. t \in remaining[i] /\ t \in Times
    BY DEF TypeOK
  <2>2. smallest <= t
    BY <2>1 DEF LogOK
  <2> QED BY <1>9, <2>1, <2>2
<1>11. ASSUME "other" \in ToSet(subjects'), NEW k \in DOMAIN other'
       PROVE  (\A j \in DOMAIN log' : log'[j].dateTime <= other'[k]) /\ smallest' <= other'[k]
  <2>1. PICK j \in DOMAIN other : other'[k] = other[j]
    OBVIOUS
  <2>2. smallest <= other[j]
    BY <1>11, <2>1 DEF LogOK
  <2>3. other[j] \in Times
    <3>1. other \in Seq(Times)
      BY DEF TypeOK
    <3> QED BY <3>1, LenProperties, ElementOfSeq
  <2> QED BY <1>9, <2>1, <2>2, <2>3
<1> QED BY <1>7, <1>8, <1>10, <1>11 DEF LogOK, NotLater

(* Nothing on offer is earlier than the smallest datetime.                 *)
LEMMA SmallestIs ==
  ASSUME TypeOK, Subjects, LogOK, BarsInOrder, Scan, stage' = "turn"
  PROVE  /\ \A i \in Instruments : \A t \in remaining[i] : smallest' <= t
         /\ "other" \in ToSet(subjects) => \A k \in DOMAIN other : smallest' <= other[k]
<1>1. PICK m \in Nat : m = smallest' /\ m = IF Offered = {} THEN 0 ELSE Min(Offered)
  <2>1. stage = "scan" /\ smallest' = IF Offered = {} THEN 0 ELSE Min(Offered)
    BY DEF Scan
  <2> QED BY <2>1, OfferedAre, Bounds
<1>2. \A t \in Offered : m <= t
  BY <1>1, OfferedAre
<1>3. ASSUME NEW i \in Instruments, NEW t \in remaining[i]
      PROVE  m <= t
  <2>1. NextTimes # {} /\ Min(NextTimes) \in Times /\ Min(NextTimes) <= t /\ t \in Times
    BY <1>3, NextTimesAre DEF TypeOK
  <2>2. ~live
    BY <1>3 DEF BarsInOrder
  <2>3. "feed" \in Offering /\ PeekDateTime("feed") = Min(NextTimes)
    BY <2>1, <2>2, Peeks, SubjectsAre DEF Offering
  <2>4. Min(NextTimes) \in Offered
    BY <2>1, <2>3, Bounds DEF Offered
  <2>5. PICK u \in Nat, v \in Nat : u = Min(NextTimes) /\ v = t
    BY <2>1, Bounds
  <2>6. m <= u
    BY <1>2, <2>4, <2>5
  <2>7. u <= v
    BY <2>1, <2>5
  <2> QED BY <2>5, <2>6, <2>7
<1>4. ASSUME "other" \in ToSet(subjects), NEW k \in DOMAIN other
      PROVE  m <= other[k]
  <2>1. other \in Seq(Times) /\ DOMAIN other = 1 .. Len(other) /\ Len(other) \in Nat
    BY LenProperties DEF TypeOK
  <2>2. other # <<>> /\ 1 \in DOMAIN other /\ Head(other) = other[1]
    BY <1>4, <2>1
  <2>3. other[1] <= other[k] /\ other[1] \in Times /\ other[k] \in Times
    BY <1>4, <2>1, <2>2, ElementOfSeq DEF LogOK
  <2>4. "other" \in Offering /\ PeekDateTime("other") = other[1]
    BY <1>4, <2>2, Peeks DEF Offering
  <2>5. other[1] \in Offered
    BY <2>3, <2>4, Bounds DEF Offered
  <2>6. PICK u \in Nat, v \in Nat : u = other[1] /\ v = other[k]
    BY <2>3, Bounds
  <2>7. m <= u
    BY <1>2, <2>5, <2>6
  <2>8. u <= v
    BY <2>3, <2>6
  <2> QED BY <2>6, <2>7, <2>8
<1> QED BY <1>1, <1>3, <1>4

(* What the order of events depends on.                                    *)
LEMMA LogStays ==
  ASSUME LogOK, UNCHANGED <<log, remaining, other>>,
         "other" \in ToSet(subjects') => "other" \in ToSet(subjects),
         stage' = "turn" => stage = "turn" /\ smallest' = smallest
  PROVE  LogOK'
BY DEF LogOK, NotLater

(* Every step keeps the order of what is dispatched: an event has the      *)
(* datetime of its turn, the smallest on offer.                            *)
LEMMA StepLog ==
  ASSUME IInv, [Next]_vars
  PROVE  LogOK'
<1>1. TypeOK /\ Subjects /\ Control /\ LogOK /\ BarsInOrder /\ TypeOK'
  BY StepTypes DEF IInv
<1> USE DEF vars, thread, feed, resampler
<1>2. CASE AddOther
  BY <1>1, <1>2 DEF AddOther, Control, LogOK, NotLater
<1>3. CASE Run
  BY <1>1, <1>3, LogStays DEF Run
<1>4. CASE Scan
  <2>1. UNCHANGED <<log, remaining, other, subjects>>
    BY <1>4 DEF Scan
  <2>2. CASE stage' # "turn"
    BY <1>1, <2>1, <2>2, LogStays
  <2>3. CASE stage' = "turn"
    BY <1>1, <1>4, <2>1, <2>3, SmallestIs DEF LogOK, NotLater
  <2> QED BY <2>2, <2>3
<1>5. CASE EndTurn
  BY <1>1, <1>5, LogStays DEF EndTurn
<1>6. CASE Unwind
  BY <1>1, <1>6, LogStays DEF Unwind
<1>7. ASSUME NEW s \in Names, NothingDispatched(s) PROVE LogOK'
  <2>1. TurnOf(s) /\ UNCHANGED <<log, remaining, other>>
    BY <1>7 DEF NothingDispatched
  <2> QED BY <1>1, <2>1, TurnIs, LogStays
<1>8. CASE DispatchStored
  <2>1. PICK time \in Times :
           /\ time = Min(NextTimes) /\ NextTimes # {} /\ smallest = time
           /\ remaining' = [i \in Instruments |-> remaining[i] \ {time}]
           /\ current' \subseteq Bars /\ \A b \in current' : b[2] = time
           /\ log' = Append(log, [dateTime |-> time, bars |-> current'])
    BY <1>1, <1>8, StoredBars
  <2>2. TurnOf("feed") /\ other' = other
    BY <1>8 DEF DispatchStored
  <2>3. PICK bars \in SUBSET Bars : bars = current'
    BY <2>1
  <2>4. NotLater(time)
    BY <1>1, <2>1, NextTimesAre DEF LogOK
  <2>5. \A i \in Instruments : remaining'[i] \subseteq remaining[i]
    BY <2>1
  <2>6. stage = "turn" /\ stage' = "turn" /\ smallest' = smallest /\ subjects' = subjects
    BY <1>1, <2>2, TurnIs
  <2>7. /\ \A k \in DOMAIN other' : \E j \in DOMAIN other : other'[k] = other[j]
        /\ \A j, k \in DOMAIN other' : j <= k => other'[j] <= other'[k]
    BY <1>1, <2>2 DEF LogOK
  <2> QED BY <1>1, <2>1, <2>3, <2>4, <2>5, <2>6, <2>7, LogEvent
<1>9. CASE DispatchLive
  <2>1. TurnOf("feed") /\ UNCHANGED <<log, remaining, other>>
    BY <1>9 DEF DispatchLive
  <2> QED BY <1>1, <2>1, TurnIs, LogStays
<1>10. CASE DispatchOther
  <2>1. TurnOf("other") /\ other # <<>> /\ other' = Tail(other) /\ remaining' = remaining
    BY <1>10, Peeks DEF DispatchOther, DueNow
  <2>2. /\ other \in Seq(Times) /\ DOMAIN other = 1 .. Len(other) /\ Len(other) \in Nat
        /\ DOMAIN other' = 1 .. Len(other) - 1 /\ \A k \in DOMAIN other' : other'[k] = other[k + 1]
        /\ 1 \in DOMAIN other /\ Head(other) = other[1] /\ other[1] \in Times
    <3>1. other \in Seq(Times) /\ DOMAIN other = 1 .. Len(other) /\ Len(other) \in Nat /\ Len(other) # 0
      BY <1>1, <2>1, LenProperties, EmptySeq DEF TypeOK
    <3>2. /\ other' \in Seq(Times) /\ Len(other') = Len(other) - 1
          /\ \A k \in 1 .. Len(other') : other'[k] = other[k + 1]
      BY <2>1, <3>1, HeadTailProperties
    <3>3. DOMAIN other' = 1 .. Len(other')
      BY <3>2, LenProperties
    <3>4. Head(other) = other[1] /\ other[1] \in Times
      BY <3>1, ElementOfSeq
    <3> QED BY <3>1, <3>2, <3>3, <3>4
  <2>3. PICK time \in Times : time = other[1]
    BY <2>2
  <2>4. time = smallest
    <3>1. PeekDateTime("other") \in {0, smallest}
      BY <1>10 DEF DispatchOther, DueNow
    <3> QED BY <2>1, <2>2, <2>3, <3>1, Peeks, Bounds
  <2>5. log' = Append(log, [dateTime |-> time, bars |-> {}])
    BY <1>10, <2>2, <2>3 DEF DispatchOther, Logged
  <2>6. stage = "turn" /\ stage' = "turn" /\ smallest' = smallest /\ subjects' = subjects /\ "other" \in ToSet(subjects)
    BY <1>1, <2>1, TurnIs
  <2>7. NotLater(time)
    BY <1>1, <2>2, <2>3, <2>6 DEF LogOK
  <2>8. ASSUME NEW k \in DOMAIN other'
        PROVE  k \in Int /\ k + 1 \in DOMAIN other /\ other'[k] = other[k + 1]
    BY <2>2, <2>8
  <2>9. ASSUME NEW j \in DOMAIN other', NEW k \in DOMAIN other', j <= k
        PROVE  other'[j] <= other'[k]
    <3>1. j + 1 <= k + 1
      BY <2>8, <2>9
    <3> QED BY <1>1, <2>8, <3>1 DEF LogOK
  <2>10. PICK bars \in SUBSET Bars : bars = {}
    OBVIOUS
  <2>11. /\ \A i \in Instruments : remaining'[i] \subseteq remaining[i]
         /\ \A k \in DOMAIN other' : \E j \in DOMAIN other : other'[k] = other[j]
    BY <2>1, <2>8
  <2> QED BY <1>1, <2>4, <2>5, <2>6, <2>7, <2>9, <2>10, <2>11, LogEvent
<1>11. CASE DispatchResampled
  <2>1. TurnOf("resampled") /\ UNCHANGED <<log, remaining, other>>
    BY <1>11 DEF DispatchResampled
  <2> QED BY <1>1, <2>1, TurnIs, LogStays
<1>12. CASE Return
  BY <1>1, <1>12, LogStays DEF Return
<1>13. CASE RequestStop
  BY <1>1, <1>13, LogStays DEF RequestStop
<1>14. CASE Raise
  BY <1>1, <1>14, LogStays DEF Raise
<1>15. CASE ResampleBarFeed
  <2>1. ToSet(subjects') = ToSet(subjects) \cup {"resampled"}
    BY <1>1, <1>15, AddToSubjects DEF ResampleBarFeed
  <2>2. "other" \in ToSet(subjects') => "other" \in ToSet(subjects)
    BY <2>1
  <2> QED BY <1>1, <1>15, <2>2, LogStays DEF ResampleBarFeed
<1>16. CASE Tick
  BY <1>1, <1>16, LogStays DEF Tick
<1>17. ASSUME NEW i \in Instruments, Arrive(i) PROVE LogOK'
  BY <1>1, <1>17, LogStays DEF Arrive
<1>18. CASE UNCHANGED vars
  BY <1>1, <1>18, LogStays
<1> QED BY <1>2, <1>3, <1>4, <1>5, <1>6, <1>7, <1>8, <1>9, <1>10, <1>11, <1>12, <1>13, <1>14, <1>15,
           <1>16, <1>17, <1>18 DEF Next, Thread, Strategy

-----------------------------------------------------------------------------
(* Turns over a stored feed *)

(* A turn starts with a subject ahead that is due, and not only the        *)
(* broker, which ends with its feed.                                       *)
LEMMA SomeoneIsDue ==
  ASSUME TypeOK, Subjects, Scan, stage' = "turn", ~live
  PROVE  \E s \in ToSet(subjects) : s # "broker" /\ ~Eof(s) /\ PeekDateTime(s) \in {0, smallest'}
<1>1. Offering # {} /\ smallest' = IF Offered = {} THEN 0 ELSE Min(Offered)
  BY DEF Scan
<1>2. CASE Offered # {}
  <2>1. Min(Offered) \in Offered
    BY <1>2, OfferedAre
  <2>2. PICK s \in Offering : PeekDateTime(s) = Min(Offered) /\ PeekDateTime(s) # 0
    BY <2>1 DEF Offered
  <2>3. s # "broker"
    BY <2>2, Peeks
  <2> QED BY <1>1, <1>2, <2>2, <2>3 DEF Offering
<1>3. CASE Offered = {}
  <2>1. PICK s \in Offering : PeekDateTime(s) = 0
    BY <1>1, <1>3 DEF Offered
  <2>2. s # "broker"
    <3> SUFFICES ASSUME s = "broker" PROVE FALSE
      OBVIOUS
    <3>1. NextTimes # {} /\ Min(NextTimes) \in Times
      BY <2>1, Peeks, NextTimesAre DEF Offering
    <3>2. "feed" \in Offering /\ PeekDateTime("feed") \in Times
      BY <3>1, Peeks, SubjectsAre DEF Offering
    <3> QED BY <1>3, <3>2, Bounds DEF Offered
  <2> QED BY <1>1, <1>3, <2>1, <2>2 DEF Offering
<1> QED BY <1>2, <1>3

(* What is due depends on what subjects offer.                             *)
LEMMA DueStays ==
  ASSUME NEW s, UNCHANGED <<live, remaining, other, values, smallest>>
  PROVE  DueNow(s)' <=> DueNow(s)
<1>1. NextTimes' = NextTimes
  BY DEF NextTimes
<1> QED BY <1>1 DEF DueNow, Eof, PeekDateTime

(* Every step keeps a subject due ahead in a turn over a stored feed.      *)
LEMMA StepNeverIdle ==
  ASSUME IInv, [Next]_vars
  PROVE  NeverIdle'
<1>1. TypeOK /\ Subjects /\ Control /\ NeverIdle
  BY DEF IInv
<1> USE DEF vars, thread, feed, resampler
<1> SUFFICES ASSUME stage' = "turn", ~live', failure' = "none", ~dispatched'
             PROVE  /\ source' = "none"
                    /\ (\E k \in DOMAIN subjects : k >= turn /\ subjects[k] # "broker" /\ DueNow(subjects[k]))'
  BY DEF NeverIdle
<1>2. CASE Scan
  <2>1. PICK s \in ToSet(subjects) : s # "broker" /\ ~Eof(s) /\ PeekDateTime(s) \in {0, smallest'}
    BY <1>1, <1>2, SomeoneIsDue DEF Scan
  <2>2. PICK k \in DOMAIN subjects : subjects[k] = s
    BY <2>1 DEF ToSet
  <2>3. k >= 1
    BY <1>1, SubjectsAre
  <2>4. /\ turn' = 1 /\ source' = "none"
        /\ UNCHANGED <<subjects, live, remaining, other, values>>
    BY <1>2 DEF Scan, Running
  <2>5. (Eof(s) /\ Eof(s)') \/ (~Eof(s) /\ ~Eof(s)')
    <3>1. NextTimes' = NextTimes
      BY <2>4 DEF NextTimes
    <3> QED BY <2>4, <3>1 DEF Eof
  <2>6. PeekDateTime(s)' = PeekDateTime(s)
    <3>1. NextTimes' = NextTimes
      BY <2>4 DEF NextTimes
    <3> QED BY <2>4, <3>1 DEF PeekDateTime
  <2>7. DueNow(s)'
    BY <2>1, <2>5, <2>6 DEF DueNow
  <2> QED BY <2>1, <2>2, <2>3, <2>4, <2>7
<1>3. ASSUME NEW s \in Names, NothingDispatched(s)
      PROVE  source' = "none" /\ (\E k \in DOMAIN subjects : k >= turn /\ subjects[k] # "broker" /\ DueNow(subjects[k]))'
  <2>1. /\ TurnOf(s) /\ UNCHANGED <<dispatched, source, failure, feed, other, resampler>>
        /\ ~DueNow(s) \/ s = "broker"
    BY <1>3 DEF NothingDispatched
  <2>2. /\ turn' = turn + 1 /\ subjects[turn] = s /\ stage = "turn" /\ UNCHANGED <<subjects, smallest>>
    BY <2>1 DEF TurnOf
  <2>3. /\ source = "none"
        /\ \E k \in DOMAIN subjects : k >= turn /\ subjects[k] # "broker" /\ DueNow(subjects[k])
    BY <1>1, <2>1, <2>2 DEF NeverIdle
  <2>4. PICK k \in DOMAIN subjects : k >= turn /\ subjects[k] # "broker" /\ DueNow(subjects[k])
    BY <2>3
  <2>5. k # turn
    BY <2>1, <2>2, <2>4
  <2>6. k >= turn'
    <3>1. turn \in Nat /\ k \in Nat
      BY <1>1, SubjectsAre DEF TypeOK
    <3> QED BY <2>2, <2>4, <2>5, <3>1
  <2>7. DueNow(subjects[k])'
    BY <2>1, <2>2, <2>4, DueStays
  <2> QED BY <2>1, <2>2, <2>3, <2>4, <2>6, <2>7
<1>4. CASE DispatchStored \/ DispatchLive \/ DispatchOther
  BY <1>4 DEF DispatchStored, DispatchLive, DispatchOther, Emits
<1>5. CASE DispatchResampled
  BY <1>5 DEF DispatchResampled, Emits
<1>6. CASE Return
  <2>1. source \in Events /\ UNCHANGED <<thread, failure, feed, other>>
    BY <1>6 DEF Return
  <2> QED BY <1>1, <2>1 DEF NeverIdle, Events
<1>7. CASE RequestStop
  <2>1. source \in Events /\ UNCHANGED <<thread, source, failure, feed, other>>
    BY <1>7 DEF RequestStop
  <2> QED BY <1>1, <2>1 DEF NeverIdle, Events
<1>8. CASE Raise
  BY <1>8 DEF Raise
<1>9. CASE ResampleBarFeed
  <2>1. source \in Events /\ UNCHANGED <<stage, dispatched, source, failure, feed, other>>
    BY <1>9 DEF ResampleBarFeed
  <2> QED BY <1>1, <2>1 DEF NeverIdle, Events
<1>10. CASE Tick \/ \E i \in Instruments : Arrive(i)
  BY <1>10 DEF Tick, Arrive
<1>11. CASE AddOther \/ Run \/ EndTurn \/ Unwind
  BY <1>11 DEF AddOther, Run, EndTurn, Unwind
<1>12. CASE UNCHANGED vars
  <2>1. /\ source = "none"
        /\ \E k \in DOMAIN subjects : k >= turn /\ subjects[k] # "broker" /\ DueNow(subjects[k])
    BY <1>1, <1>12 DEF NeverIdle
  <2> QED BY <1>12, <2>1, DueStays
<1> QED BY <1>2, <1>3, <1>4, <1>5, <1>6, <1>7, <1>8, <1>9, <1>10, <1>11, <1>12 DEF Next, Thread, Strategy

-----------------------------------------------------------------------------
(* The order of bars *)

(* What the order of bars depends on.                                      *)
LEMMA BarsStay ==
  ASSUME BarsInOrder, UNCHANGED <<live, remaining, queue, current, seen, clock>>, source' = "feed" => source = "feed"
  PROVE  BarsInOrder'
BY DEF BarsInOrder

(* Every step keeps the order of the bars.                                 *)
LEMMA StepBars ==
  ASSUME IInv, [Next]_vars
  PROVE  BarsInOrder'
<1>1. TypeOK /\ Subjects /\ Control /\ BarsInOrder /\ TypeOK'
  BY StepTypes DEF IInv
<1> USE DEF vars, thread, feed, resampler
<1>2. CASE AddOther \/ Run \/ Scan \/ Unwind \/ RequestStop \/ Raise \/ ResampleBarFeed
  <2>1. UNCHANGED <<live, remaining, queue, current, seen, clock>> /\ (source' = "feed" => source = "feed")
    BY <1>2 DEF AddOther, Run, Scan, Unwind, RequestStop, Raise, ResampleBarFeed
  <2> QED BY <1>1, <2>1, BarsStay
<1>3. CASE EndTurn
  <2>1. UNCHANGED <<live, remaining, queue, current, seen, clock>> /\ (source' = "feed" => source = "feed")
    BY <1>3 DEF EndTurn, CheckNow
  <2> QED BY <1>1, <2>1, BarsStay
<1>4. ASSUME NEW s \in Names, NothingDispatched(s) PROVE BarsInOrder'
  BY <1>1, <1>4, BarsStay DEF NothingDispatched
<1>5. CASE DispatchOther
  BY <1>1, <1>5, BarsStay DEF DispatchOther, Emits
<1>6. CASE DispatchResampled
  <2>1. UNCHANGED <<live, remaining, queue, current, seen, clock>> /\ source' # "feed"
    BY <1>6 DEF DispatchResampled, Emits
  <2> QED BY <1>1, <2>1, BarsStay
<1>7. CASE DispatchStored
  <2>1. PICK time \in Times :
           /\ time = Min(NextTimes) /\ NextTimes # {} /\ ~live
           /\ remaining' = [i \in Instruments |-> remaining[i] \ {time}]
           /\ current' \subseteq Bars /\ current' # {} /\ \A b \in current' : b[2] = time
    BY <1>1, <1>7, StoredBars
  <2>2. UNCHANGED <<live, clock, queue, seen>> /\ queue = <<>>
    BY <1>1, <1>7, <2>1 DEF DispatchStored, BarsInOrder
  <2>3. \A b \in current : b[2] < time
    <3>1. PICK i \in Instruments : time \in remaining[i]
      BY <1>1, <2>1, NextTimesAre
    <3> QED BY <1>1, <3>1 DEF BarsInOrder
  <2>4. \A b \in seen : b[2] < time
    <3> SUFFICES ASSUME NEW b \in seen PROVE b[2] < time
      OBVIOUS
    <3>1. PICK c \in current : b[2] <= c[2]
      BY <1>1 DEF BarsInOrder
    <3>2. b[2] \in Nat /\ c[2] \in Nat /\ time \in Nat
      BY <1>1, Bounds DEF TypeOK
    <3> QED BY <2>3, <3>1, <3>2
  <2>5. ASSUME NEW i \in Instruments, NEW t \in remaining'[i]
        PROVE  time < t
    <3>1. t \in remaining[i] /\ t # time /\ t \in Times
      BY <1>1, <2>1 DEF TypeOK
    <3>2. time <= t
      BY <1>1, <2>1, <3>1, NextTimesAre
    <3> QED BY <3>1, <3>2, Bounds
  <2>6. /\ \A b \in seen, c \in current' : b[2] < c[2]
        /\ \A b \in seen : \E c \in current' : b[2] <= c[2]
    <3>1. PICK c \in current' : c[2] = time
      BY <2>1
    <3>2. \A b \in seen : b[2] \in Nat /\ time \in Nat
      BY <1>1, Bounds DEF TypeOK
    <3> QED BY <2>1, <2>4, <3>1, <3>2
  <2>7. DOMAIN queue = {}
    BY <2>2
  <2> QED BY <1>1, <2>1, <2>2, <2>5, <2>6, <2>7 DEF BarsInOrder
<1>8. CASE DispatchLive
  <2>1. /\ live /\ queue # <<>> /\ current' = {Head(queue)} /\ queue' = Tail(queue)
        /\ UNCHANGED <<live, clock, remaining, seen>>
    BY <1>8 DEF DispatchLive
  <2>2. /\ queue \in Seq(Bars) /\ DOMAIN queue = 1 .. Len(queue) /\ Len(queue) \in Nat /\ Len(queue) # 0
    BY <1>1, <2>1, LenProperties, EmptySeq DEF TypeOK
  <2>3. /\ queue' \in Seq(Bars) /\ Len(queue') = Len(queue) - 1
        /\ \A k \in 1 .. Len(queue') : queue'[k] = queue[k + 1]
    BY <2>1, <2>2, HeadTailProperties
  <2>4. DOMAIN queue' = 1 .. Len(queue) - 1
    BY <2>3, LenProperties
  <2>5. PICK h \in Bars : h = queue[1] /\ current' = {h}
    <3>1. queue[1] \in Bars /\ Head(queue) = queue[1]
      BY <2>2, ElementOfSeq
    <3> QED BY <2>1, <3>1
  <2>6. 1 \in DOMAIN queue /\ \A k \in DOMAIN queue' : k + 1 \in DOMAIN queue /\ 1 < k + 1 /\ queue'[k] = queue[k + 1]
    BY <2>2, <2>3, <2>4
  <2>7. \A b \in current : b[2] < h[2]
    BY <1>1, <2>5, <2>6 DEF BarsInOrder
  <2>8. \A b \in seen : b[2] < h[2]
    <3> SUFFICES ASSUME NEW b \in seen PROVE b[2] < h[2]
      OBVIOUS
    <3>1. PICK c \in current : b[2] <= c[2]
      BY <1>1 DEF BarsInOrder
    <3>2. b[2] \in Nat /\ c[2] \in Nat /\ h[2] \in Nat
      BY <1>1, Bounds DEF TypeOK
    <3> QED BY <2>7, <3>1, <3>2
  <2>9. \A k \in DOMAIN queue' : h[2] < queue'[k][2] /\ queue'[k][2] <= clock
    BY <1>1, <2>1, <2>5, <2>6 DEF BarsInOrder
  <2>10. ASSUME NEW j \in DOMAIN queue', NEW k \in DOMAIN queue', j < k
         PROVE  queue'[j][2] < queue'[k][2]
    <3>1. j + 1 < k + 1
      BY <2>4, <2>10
    <3> QED BY <1>1, <2>6, <3>1 DEF BarsInOrder
  <2>11. h[2] <= clock
    BY <1>1, <2>1, <2>5, <2>6 DEF BarsInOrder
  <2>12. \A b \in seen : b[2] <= h[2]
    <3>1. \A b \in seen : b[2] \in Nat /\ h[2] \in Nat
      BY <1>1, Bounds DEF TypeOK
    <3> QED BY <2>8, <3>1
  <2> QED BY <1>1, <2>1, <2>5, <2>8, <2>9, <2>10, <2>11, <2>12 DEF BarsInOrder
<1>9. CASE Return
  <2>1. source' = "none" /\ UNCHANGED <<live, remaining, queue, current, clock>>
    BY <1>9 DEF Return
  <2>2. seen' = seen \/ seen' = seen \cup current
    BY <1>9 DEF Return, OnNewValues
  <2>3. \A b \in seen' : \E c \in current : b[2] <= c[2]
    <3>1. \A b \in current : b[2] <= b[2]
      <4>1. \A b \in current : b[2] \in Nat
        BY <1>1, Bounds DEF TypeOK
      <4> QED BY <4>1
    <3> QED BY <1>1, <2>2, <3>1 DEF BarsInOrder
  <2> QED BY <1>1, <2>1, <2>3 DEF BarsInOrder
<1>10. CASE Tick
  <2>1. /\ clock' = clock + 1 /\ UNCHANGED <<source, live, remaining, queue, current, seen>>
    BY <1>10 DEF Tick
  <2>2. clock \in Nat /\ \A b \in current : b[2] \in Nat
    BY <1>1, Bounds DEF TypeOK
  <2>3. \A j \in DOMAIN queue : queue[j][2] \in Nat
    <3>1. queue \in Seq(Bars)
      BY <1>1 DEF TypeOK
    <3>2. \A j \in DOMAIN queue : queue[j] \in Bars
      BY <3>1, LenProperties, ElementOfSeq
    <3> QED BY <3>2, Bounds
  <2>4. live => /\ \A b \in current : b[2] <= clock'
                /\ \A j \in DOMAIN queue : queue[j][2] <= clock'
    BY <1>1, <2>1, <2>2, <2>3 DEF BarsInOrder
  <2> QED BY <1>1, <2>1, <2>4 DEF BarsInOrder
<1>11. ASSUME NEW i \in Instruments, Arrive(i) PROVE BarsInOrder'
  <2>1. /\ live /\ clock \in Times /\ \A b \in current \cup ToSet(queue) : b[2] < clock
        /\ queue' = Append(queue, <<i, clock>>)
        /\ UNCHANGED <<source, live, clock, remaining, current, seen>>
    BY <1>11 DEF Arrive
  <2>2. PICK b \in Bars : b = <<i, clock>> /\ b[2] = clock
    <3>1. <<i, clock>> \in Bars /\ <<i, clock>>[2] = clock
      BY <2>1 DEF Bars
    <3> QED BY <3>1
  <2>3. PICK n \in Nat : n = Len(queue) /\ DOMAIN queue = 1 .. n
    BY <1>1, LenProperties DEF TypeOK
  <2>4. DOMAIN queue' = 1 .. n + 1 /\ queue'[n + 1] = b /\ \A j \in 1 .. n : queue'[j] = queue[j]
    <3>1. queue \in Seq(Bars) /\ queue' = Append(queue, b)
      BY <1>1, <2>1, <2>2 DEF TypeOK
    <3>2. queue' \in Seq(Bars) /\ Len(queue') = n + 1
      BY <2>3, <3>1, AppendProperties
    <3> QED BY <2>3, <3>1, <3>2, AppendProperties, LenProperties
  <2>5. \A j \in 1 .. n : queue[j][2] < clock
    BY <2>1, <2>3 DEF ToSet
  <2>6. ASSUME NEW j \in 1 .. n + 1
        PROVE  queue'[j][2] <= clock /\ \A c \in current : c[2] < queue'[j][2]
    <3>1. CASE j = n + 1
      BY <2>1, <2>2, <2>4, <3>1, Bounds
    <3>2. CASE j \in 1 .. n
      BY <1>1, <2>1, <2>3, <2>4, <3>2 DEF BarsInOrder
    <3> QED BY <2>3, <3>1, <3>2
  <2>7. ASSUME NEW j \in 1 .. n + 1, NEW k \in 1 .. n + 1, j < k
        PROVE  queue'[j][2] < queue'[k][2]
    <3>1. j \in 1 .. n
      BY <2>3, <2>7
    <3>2. CASE k = n + 1
      BY <2>2, <2>4, <2>5, <3>1, <3>2
    <3>3. CASE k \in 1 .. n
      BY <1>1, <2>3, <2>4, <2>7, <3>1, <3>3 DEF BarsInOrder
    <3> QED BY <2>3, <3>2, <3>3
  <2> QED BY <1>1, <2>1, <2>4, <2>6, <2>7 DEF BarsInOrder
<1>12. CASE UNCHANGED vars
  BY <1>1, <1>12, BarsStay
<1> QED BY <1>2, <1>3, <1>4, <1>5, <1>6, <1>7, <1>8, <1>9, <1>10, <1>11, <1>12 DEF Next, Thread, Strategy

-----------------------------------------------------------------------------
(* Groups *)

(* The complete groups, by position.                                       *)
LEMMA CompleteIs ==
  ASSUME TypeOK
  PROVE  /\ Complete \in Seq(Groups) /\ Len(Complete) \in Nat /\ DOMAIN Complete = 1 .. Len(Complete)
         /\ Len(Complete) = Len(emitted) + Len(values) /\ Len(emitted) \in Nat /\ Len(values) \in Nat
         /\ \A j \in 1 .. Len(emitted) : Complete[j] = emitted[j]
         /\ \A j \in 1 .. Len(values) : Complete[Len(emitted) + j] = values[j]
         /\ \A j \in DOMAIN Complete : Complete[j] \in SUBSET Bars /\ Complete[j] # {}
<1>1. emitted \in Seq(Groups) /\ values \in Seq(Groups)
  BY DEF TypeOK
<1>2. PICK m \in Nat, n \in Nat : m = Len(emitted) /\ n = Len(values)
  BY <1>1, LenProperties
<1>3. /\ Complete \in Seq(Groups) /\ Len(Complete) = m + n
      /\ \A i \in 1 .. m + n : Complete[i] = IF i <= m THEN emitted[i] ELSE values[i - m]
  BY <1>1, <1>2, ConcatProperties DEF Complete
<1>4. DOMAIN Complete = 1 .. m + n
  BY <1>3, LenProperties
<1>5. \A j \in DOMAIN Complete : Complete[j] \in Groups
  BY <1>3, <1>4, ElementOfSeq
<1>6. ASSUME NEW j \in 1 .. n PROVE Complete[m + j] = values[j]
  <2>1. m + j \in 1 .. m + n /\ ~(m + j <= m) /\ (m + j) - m = j
    BY <1>2
  <2> QED BY <1>3, <2>1
<1>7. ASSUME NEW j \in 1 .. m PROVE Complete[j] = emitted[j]
  BY <1>2, <1>3
<1> QED BY <1>2, <1>3, <1>4, <1>5, <1>6, <1>7 DEF Groups

(* Another group is complete.                                              *)
LEMMA CompleteAppends ==
  ASSUME TypeOK, emitted' = emitted, NEW g \in SUBSET Bars, g # {}, values' = Append(values, g)
  PROVE  \E c \in Seq(Groups), d \in Seq(Groups), n \in Nat :
           /\ c = Complete /\ d = Complete' /\ DOMAIN c = 1 .. n /\ DOMAIN d = 1 .. n + 1
           /\ d[n + 1] = g /\ \A j \in 1 .. n : d[j] = c[j]
<1>1. emitted \in Seq(Groups) /\ values \in Seq(Groups) /\ g \in Groups
  BY DEF TypeOK, Groups
<1>2. PICK c \in Seq(Groups), n \in Nat : c = Complete /\ n = Len(c) /\ DOMAIN c = 1 .. n
  BY CompleteIs
<1>3. Complete' = Append(c, g)
  BY <1>1, <1>2, AppendToBoth DEF Complete
<1>4. PICK d \in Seq(Groups) : d = Append(c, g)
  BY <1>1, AppendProperties
<1>5. Len(d) = n + 1 /\ d[n + 1] = g /\ \A j \in 1 .. n : d[j] = c[j]
  BY <1>1, <1>2, <1>4, AppendProperties
<1>6. DOMAIN d = 1 .. n + 1
  BY <1>5, LenProperties
<1>7. d = Complete'
  BY <1>3, <1>4
<1> QED BY <1>2, <1>5, <1>6, <1>7

(* A bar of a complete group was seen, and is not in the group that is     *)
(* being collected.                                                        *)
LEMMA CompleteIsPast ==
  ASSUME TypeOK, GroupsOK, NEW j \in DOMAIN Complete, NEW b \in Complete[j]
  PROVE  b \in seen \ group /\ b \in Bars
<1>1. b \in seen
  BY DEF GroupsOK, ToSet
<1>2. b \in Bars /\ b[2] \in Nat
  BY <1>1, Bounds DEF TypeOK
<1>3. b \notin group
  <2> SUFFICES ASSUME b \in group PROVE FALSE
    OBVIOUS
  <2>1. b[2] < b[2]
    BY DEF GroupsOK, Before
  <2> QED BY <1>2, <2>1
<1> QED BY <1>1, <1>2, <1>3

(* The group that is being collected is of one period.                     *)
LEMMA GroupPeriod ==
  ASSUME TypeOK, GroupsOK, NEW b \in group
  PROVE  /\ StartOf(group) = Begin(b[2]) /\ StartOf(group) \in Int /\ b[2] \in Nat
         /\ StartOf(group) <= b[2] /\ b[2] < StartOf(group) + Frequency
<1>1. group \in Groups /\ b[2] \in Nat
  BY Bounds DEF TypeOK, Groups
<1>2. PICK c \in group : StartOf(group) = Begin(c[2])
  BY <1>1, StartIs
<1>3. Begin(c[2]) = Begin(b[2])
  BY DEF GroupsOK, OnePeriod
<1> QED BY <1>1, <1>2, <1>3, BeginIs

(* A bar that is delivered comes after the complete groups.                *)
LEMMA NewBarAfter ==
  ASSUME TypeOK, BarsInOrder, GroupsOK, source = "feed", NEW b \in seen \ group, NEW c \in current
  PROVE  b[2] < c[2] /\ (Begin(b[2]) = Begin(c[2]) => Begin(c[2]) \in closed)
<1>1. b[2] < c[2]
  BY DEF BarsInOrder
<1>2. CASE Begin(b[2]) \in closed
  BY <1>1, <1>2
<1>3. ASSUME NEW d \in seen, Begin(b[2]) < Begin(d[2]) PROVE Begin(b[2]) # Begin(c[2])
  <2>1. d[2] < c[2] /\ d[2] \in Nat /\ c[2] \in Nat /\ b[2] \in Nat
    BY Bounds DEF BarsInOrder, TypeOK
  <2>2. Begin(d[2]) <= Begin(c[2])
    BY <2>1, BeginMonotonic
  <2>3. PICK x \in Int, y \in Int, z \in Int : x = Begin(b[2]) /\ y = Begin(d[2]) /\ z = Begin(c[2])
    BY <2>1, BeginIs
  <2> QED BY <1>3, <2>2, <2>3
<1> QED BY <1>1, <1>2, <1>3 DEF GroupsOK

(* The datetime of the bars that are delivered.                            *)
LEMMA CurrentTime ==
  ASSUME TypeOK, BarsInOrder, source = "feed"
  PROVE  \E t \in Nat : /\ current # {} /\ \A c \in current : c[2] = t
                        /\ Min({b[2] : b \in current}) = t
<1>1. PICK c0 \in current : TRUE
  BY DEF BarsInOrder
<1>2. PICK t \in Nat : t = c0[2]
  BY Bounds DEF TypeOK
<1>3. \A c \in current : c[2] = t
  BY <1>2 DEF BarsInOrder
<1>4. {b[2] : b \in current} = {t}
  BY <1>1, <1>3
<1>5. Min({t}) = t
  BY MinIs
<1> QED BY <1>1, <1>3, <1>4, <1>5

(* What groups depend on.                                                  *)
LEMMA GroupsStay ==
  ASSUME GroupsOK, UNCHANGED <<emitted, values, group, seen, closed>>,
         failure' = "not in order" => failure = "not in order" /\ values' = values
  PROVE  GroupsOK'
BY DEF GroupsOK, Complete

(* The first bars of a group are delivered.                                *)
LEMMA GroupBegins ==
  ASSUME TypeOK, BarsInOrder, GroupsOK, source = "feed", failure' # "not in order", group = {},
         seen' = seen \cup current, group' = current, UNCHANGED <<values, emitted, closed>>
  PROVE  GroupsOK'
<1>1. Complete' = Complete
  BY DEF Complete
<1>2. (UNION ToSet(Complete)) \cup current = seen \cup current
  BY DEF GroupsOK
<1>3. ASSUME NEW j \in DOMAIN Complete
      PROVE  Before(Complete[j], current, closed) /\ OnePeriod(Complete[j])
  BY CompleteIsPast, NewBarAfter DEF GroupsOK, Before
<1>4. OnePeriod(current)
  <2>1. \A b, c \in current : b[2] = c[2]
    BY DEF BarsInOrder
  <2> QED BY <2>1 DEF OnePeriod
<1>5. ASSUME NEW b \in (seen \cup current) \ current
      PROVE  Begin(b[2]) \in closed \/ \E c \in seen \cup current : Begin(b[2]) < Begin(c[2])
  BY DEF GroupsOK
<1>6. \A j, k \in DOMAIN Complete : j < k => Before(Complete[j], Complete[k], closed)
  BY DEF GroupsOK
<1> QED BY <1>1, <1>2, <1>3, <1>4, <1>5, <1>6 DEF GroupsOK

(* More bars of its period are delivered.                                  *)
LEMMA GroupGrows ==
  ASSUME TypeOK, BarsInOrder, GroupsOK, source = "feed", failure' # "not in order", group # {},
         Belongs(group, Min({b[2] : b \in current})),
         seen' = seen \cup current, group' = group \cup current, UNCHANGED <<values, emitted, closed>>
  PROVE  GroupsOK'
<1>1. Complete' = Complete
  BY DEF Complete
<1>2. (UNION ToSet(Complete)) \cup (group \cup current) = seen \cup current
  BY DEF GroupsOK
<1>3. ASSUME NEW j \in DOMAIN Complete
      PROVE  Before(Complete[j], group \cup current, closed) /\ OnePeriod(Complete[j])
  BY CompleteIsPast, NewBarAfter DEF GroupsOK, Before
<1>4. PICK t \in Nat : (\A c \in current : c[2] = t) /\ Min({b[2] : b \in current}) = t
  BY CurrentTime
<1>5. PICK b0 \in group : TRUE
  OBVIOUS
<1>6. Begin(t) = StartOf(group)
  <2>1. StartOf(group) <= t /\ t < StartOf(group) + Frequency
    <3>1. Belongs(group, t)
      BY <1>4
    <3> QED BY <3>1, GroupPeriod, <1>5 DEF Belongs
  <2>2. StartOf(group) = Begin(b0[2]) /\ b0[2] \in Nat
    BY <1>5, GroupPeriod
  <2> QED BY <2>1, <2>2, SamePeriod
<1>7. OnePeriod(group \cup current)
  BY <1>4, <1>6, GroupPeriod DEF OnePeriod
<1>8. ASSUME NEW b \in (seen \cup current) \ (group \cup current)
      PROVE  Begin(b[2]) \in closed \/ \E c \in seen \cup current : Begin(b[2]) < Begin(c[2])
  BY DEF GroupsOK
<1>9. \A j, k \in DOMAIN Complete : j < k => Before(Complete[j], Complete[k], closed)
  BY DEF GroupsOK
<1> QED BY <1>1, <1>2, <1>3, <1>7, <1>8, <1>9 DEF GroupsOK

(* A group is complete, and another one is collected, or none: the other   *)
(* one comes later, and the complete one is over.                          *)
LEMMA GroupCompletes ==
  ASSUME TypeOK, GroupsOK, failure' # "not in order", group # {},
         NEW more \in SUBSET Bars, group' = more, seen' = seen \cup more,
         emitted' = emitted, values' = Append(values, group),
         NEW ended, ended = closed', closed \subseteq ended, OnePeriod(more),
         \A b \in seen, c \in more : b[2] < c[2] /\ (Begin(b[2]) = Begin(c[2]) => Begin(c[2]) \in ended),
         \A b \in group : Begin(b[2]) \in ended \/ \E c \in more : Begin(b[2]) < Begin(c[2])
  PROVE  GroupsOK'
<1>1. PICK g \in SUBSET Bars : g = group
  BY DEF TypeOK
<1>2. PICK c \in Seq(Groups), d \in Seq(Groups), n \in Nat :
        /\ c = Complete /\ d = Complete' /\ DOMAIN c = 1 .. n /\ DOMAIN d = 1 .. n + 1
        /\ d[n + 1] = g /\ \A j \in 1 .. n : d[j] = c[j]
  BY <1>1, CompleteAppends
<1>3. (UNION ToSet(d)) \cup more = seen \cup more
  <2>1. UNION ToSet(d) = (UNION ToSet(c)) \cup g
    <3>1. \A x : x \in UNION ToSet(d) <=> \E j \in 1 .. n + 1 : x \in d[j]
      BY <1>2 DEF ToSet
    <3>2. \A x : x \in UNION ToSet(c) <=> \E j \in 1 .. n : x \in c[j]
      BY <1>2 DEF ToSet
    <3>3. ASSUME NEW x PROVE x \in UNION ToSet(d) <=> x \in (UNION ToSet(c)) \cup g
      BY <1>2, <3>1, <3>2, OneMore
    <3> QED BY <3>3
  <2> QED BY <1>1, <1>2, <2>1 DEF GroupsOK
<1>4. \A j \in 1 .. n : Before(c[j], g, closed) /\ OnePeriod(c[j])
  BY <1>1, <1>2 DEF GroupsOK
<1>5. \A j, k \in 1 .. n : j < k => Before(c[j], c[k], closed)
  BY <1>2 DEF GroupsOK
<1>6. ASSUME NEW x, NEW y, Before(x, y, closed) PROVE Before(x, y, ended)
  BY <1>6 DEF Before
<1>7. ASSUME NEW j \in 1 .. n + 1, NEW k \in 1 .. n + 1, j < k
      PROVE  Before(d[j], d[k], ended)
  <2>1. j \in 1 .. n
    BY <1>7, OneMore
  <2>2. CASE k = n + 1
    BY <1>2, <1>4, <1>6, <2>1, <2>2
  <2>3. CASE k \in 1 .. n
    BY <1>2, <1>5, <1>6, <1>7, <2>1, <2>3
  <2> QED BY <2>2, <2>3, OneMore
<1>8. ASSUME NEW j \in 1 .. n + 1
      PROVE  Before(d[j], more, ended) /\ OnePeriod(d[j])
  <2>1. d[j] \subseteq seen
    <3>1. d[j] \in ToSet(d)
      BY <1>2 DEF ToSet
    <3>2. CASE j = n + 1
      BY <1>1, <1>2, <3>2 DEF GroupsOK
    <3>3. CASE j \in 1 .. n
      BY <1>2, <3>3, CompleteIsPast
    <3> QED BY <3>2, <3>3, OneMore
  <2>2. OnePeriod(d[j])
    <3>1. CASE j = n + 1
      BY <1>1, <1>2, <3>1 DEF GroupsOK
    <3>2. CASE j \in 1 .. n
      BY <1>2, <1>4, <3>2
    <3> QED BY <3>1, <3>2, OneMore
  <2> QED BY <2>1, <2>2 DEF Before
<1>9. ASSUME NEW b \in (seen \cup more) \ more
      PROVE  Begin(b[2]) \in ended \/ \E x \in seen \cup more : Begin(b[2]) < Begin(x[2])
  <2>1. CASE b \in group
    BY <2>1
  <2>2. CASE b \notin group
    BY <2>2, <1>9 DEF GroupsOK
  <2> QED BY <2>1, <2>2
<1> QED BY <1>2, <1>3, <1>7, <1>8, <1>9 DEF GroupsOK

(* A group that is offered after one of its own period was delivered had   *)
(* been ended by the clock.                                                *)
LEMMA RefusedWasEnded ==
  ASSUME TypeOK, GroupsOK, emitted # <<>>, values # <<>>, StartOf(Last(emitted)) >= StartOf(Head(values))
  PROVE  StartOf(Head(values)) \in closed
<1>1. PICK m \in Nat, n \in Nat : m = Len(emitted) /\ n = Len(values)
  BY CompleteIs
<1>2. m # 0 /\ n # 0
  BY <1>1, EmptySeq DEF TypeOK
<1>3. PICK g, h : g = emitted[m] /\ h = values[1]
  OBVIOUS
<1>4. Last(emitted) = g /\ Head(values) = h
  <2>1. Last(emitted) = emitted[m]
    BY <1>1 DEF Last
  <2>2. Head(values) = values[1]
    <3>1. values \in Seq(Groups)
      BY DEF TypeOK
    <3> QED BY <3>1
  <2> QED BY <1>3, <2>1, <2>2
<1>5. g = Complete[m] /\ h = Complete[m + 1] /\ m \in DOMAIN Complete /\ m + 1 \in DOMAIN Complete /\ m < m + 1
  <2>1. m \in 1 .. m /\ 1 \in 1 .. n /\ m \in 1 .. m + n /\ m + 1 \in 1 .. m + n /\ m < m + 1
    BY <1>2
  <2>2. /\ DOMAIN Complete = 1 .. m + n /\ Complete[m] = emitted[m] /\ Complete[m + 1] = values[1]
    BY <1>1, <2>1, CompleteIs
  <2> QED BY <1>3, <2>1, <2>2
<1>6. g \in Groups /\ h \in Groups
  BY <1>5, CompleteIs DEF Groups
<1>7. PICK b \in g : StartOf(g) = Begin(b[2])
  BY <1>6, StartIs
<1>8. PICK c \in h : StartOf(h) = Begin(c[2])
  BY <1>6, StartIs
<1>9. b[2] < c[2] /\ (Begin(b[2]) = Begin(c[2]) => Begin(c[2]) \in closed)
  BY <1>5, <1>7, <1>8 DEF GroupsOK, Before
<1>10. b[2] \in Nat /\ c[2] \in Nat
  BY <1>6, <1>7, <1>8, Bounds DEF Groups
<1>11. Begin(b[2]) <= Begin(c[2]) /\ Begin(b[2]) \in Int /\ Begin(c[2]) \in Int
  BY <1>9, <1>10, BeginIs, BeginMonotonic
<1>12. Begin(b[2]) >= Begin(c[2])
  BY <1>4, <1>7, <1>8
<1>13. Begin(b[2]) = Begin(c[2])
  BY <1>11, <1>12
<1> QED BY <1>4, <1>8, <1>9, <1>13

(* A turn that dispatched nothing is over: the feed is live.               *)
LEMMA IdleIsLive ==
  ASSUME TypeOK, Subjects, Control, NeverIdle, EndTurn, ~dispatched
  PROVE  live
<1>1. stage = "turn" /\ source = "none" /\ turn \notin DOMAIN subjects
  BY DEF EndTurn, Running
<1>2. failure = "none"
  BY <1>1 DEF Control
<1>3. SUFFICES ASSUME ~live PROVE FALSE
  OBVIOUS
<1>4. PICK k \in DOMAIN subjects : k >= turn
  BY <1>1, <1>2, <1>3 DEF NeverIdle
<1>5. \A i \in Nat \ {0} : i <= k => i \in DOMAIN subjects
  BY <1>4 DEF Subjects
<1>6. k \in Nat /\ turn \in Nat \ {0}
  BY SubjectsAre DEF TypeOK
<1> QED BY <1>1, <1>4, <1>5, <1>6

(* Every step keeps the groups: bars go to the group of their period, and  *)
(* a group is complete when its period is over.                            *)
LEMMA StepGroups ==
  ASSUME IInv, [Next]_vars
  PROVE  GroupsOK'
<1>1. TypeOK /\ Subjects /\ Control /\ NeverIdle /\ BarsInOrder /\ GroupsOK
  BY DEF IInv
<1> USE DEF vars, thread, feed, resampler
<1>2. CASE AddOther \/ Run \/ Scan \/ Unwind \/ RequestStop \/ ResampleBarFeed \/ Tick
  BY <1>1, <1>2, GroupsStay DEF AddOther, Run, Scan, Unwind, RequestStop, ResampleBarFeed, Tick
<1>3. CASE Raise
  BY <1>1, <1>3, GroupsStay DEF Raise
<1>4. CASE DispatchStored \/ DispatchLive \/ DispatchOther
  <2>1. UNCHANGED <<emitted, values, group, seen, closed, failure>>
    BY <1>4 DEF DispatchStored, DispatchLive, DispatchOther, Emits
  <2> QED BY <1>1, <2>1, GroupsStay
<1>5. ASSUME NEW s \in Names, NothingDispatched(s) PROVE GroupsOK'
  BY <1>1, <1>5, GroupsStay DEF NothingDispatched
<1>6. ASSUME NEW i \in Instruments, Arrive(i) PROVE GroupsOK'
  BY <1>1, <1>6, GroupsStay DEF Arrive
<1>7. CASE DispatchResampled
  <2>1. values # <<>>
    BY <1>7, Peeks DEF DispatchResampled, DueNow
  <2>2. TurnOf("resampled")
    BY <1>7 DEF DispatchResampled
  <2>3. failure = "none"
    BY <1>1, <2>2, TurnIs DEF Control
  <2>4. CASE /\ emitted # <<>> /\ StartOf(Last(emitted)) >= StartOf(Head(values))
             /\ UNCHANGED <<dispatched, resampler>>
    <3>1. StartOf(Head(values)) \in closed
      BY <1>1, <2>1, <2>4, RefusedWasEnded
    <3> QED BY <1>1, <2>4, <3>1 DEF GroupsOK, Complete
  <2>5. CASE /\ values' = Tail(values) /\ emitted' = Append(emitted, Head(values)) /\ Emits("resampled")
             /\ UNCHANGED <<subscription, group, seen, closed>>
    <3>1. Complete' = Complete
      BY <1>1, <2>1, <2>5, MoveHead DEF TypeOK, Complete
    <3>2. failure' = "none"
      BY <2>3, <2>5 DEF Emits
    <3> QED BY <1>1, <2>5, <3>1, <3>2 DEF GroupsOK
  <2> QED BY <1>7, <2>4, <2>5 DEF DispatchResampled
<1>8. CASE EndTurn
  <2>1. stage = "turn" /\ source = "none" /\ failure' = failure
    BY <1>8 DEF EndTurn, Running
  <2>2. failure = "none"
    BY <1>1, <2>1 DEF Control
  <2>3. CASE dispatched \/ ~PeriodOver(clock)
    <3>1. UNCHANGED <<emitted, values, group, seen, closed>>
      BY <1>8, <2>3 DEF EndTurn, CheckNow
    <3> QED BY <1>1, <2>1, <2>2, <3>1, GroupsStay
  <2>4. CASE ~dispatched /\ PeriodOver(clock)
    <3>1. /\ group # {} /\ ~Belongs(group, clock) /\ group' = {} /\ values' = Append(values, group)
          /\ closed' = closed \cup {start \in {StartOf(group)} : start + Frequency <= clock}
          /\ UNCHANGED <<seen, emitted>>
      BY <1>8, <2>4 DEF EndTurn, CheckNow, PeriodOver
    <3>2. live
      BY <1>1, <1>8, <2>4, IdleIsLive
    <3>3. PICK b \in group : TRUE
      BY <3>1
    <3>4. b[2] <= clock
      <4>1. b \in seen
        BY <1>1 DEF GroupsOK
      <4>2. PICK c \in current : b[2] <= c[2]
        BY <1>1, <4>1 DEF BarsInOrder
      <4>3. c[2] <= clock
        BY <1>1, <3>2, <4>2 DEF BarsInOrder
      <4>4. b[2] \in Nat /\ c[2] \in Nat /\ clock \in Nat
        BY <1>1, <4>1, <4>2, Bounds DEF TypeOK
      <4> QED BY <4>2, <4>3, <4>4
    <3>5. PICK s \in Int, now \in Nat, f \in Nat : s = StartOf(group) /\ now = clock /\ f = Frequency
      BY <1>1, <3>3, GroupPeriod, DispatcherAssumption DEF TypeOK
    <3>6. s + f <= now
      <4>1. s <= b[2] /\ b[2] \in Nat
        BY <1>1, <3>3, <3>5, GroupPeriod
      <4>2. s <= now
        BY <3>4, <3>5, <4>1
      <4>3. ~(now >= s /\ now < s + f)
        BY <3>1, <3>5 DEF Belongs
      <4> QED BY <4>2, <4>3
    <3>7. PICK ended : ended = closed' /\ closed \subseteq ended /\ s \in ended
      BY <3>1, <3>5, <3>6
    <3>8. \A d \in group : Begin(d[2]) \in ended
      BY <1>1, <3>5, <3>7, GroupPeriod
    <3>9. PICK more \in SUBSET Bars : more = {}
      OBVIOUS
    <3>10. group' = more /\ seen' = seen \cup more /\ OnePeriod(more)
      BY <3>1, <3>9 DEF OnePeriod
    <3>11. failure' # "not in order"
      BY <2>1, <2>2
    <3>12. \A x \in seen, c \in more : x[2] < c[2] /\ (Begin(x[2]) = Begin(c[2]) => Begin(c[2]) \in ended)
      BY <3>9
    <3> QED BY <1>1, <3>1, <3>7, <3>8, <3>10, <3>11, <3>12, GroupCompletes
  <2> QED BY <2>3, <2>4
<1>9. CASE Return
  <2>1. source \in Events /\ failure' = failure
    BY <1>9 DEF Return
  <2>2. failure = "none"
    BY <1>1, <2>1 DEF Control, Events
  <2>3. CASE source # "feed" \/ subscription # "subscribed"
    <3>1. UNCHANGED <<emitted, values, group, seen, closed>>
      BY <1>9, <2>3 DEF Return, OnNewValues
    <3> QED BY <1>1, <2>1, <2>2, <3>1, GroupsStay
  <2>4. CASE source = "feed" /\ subscription = "subscribed"
    <3>1. /\ seen' = seen \cup current /\ UNCHANGED <<emitted, closed>>
          /\ IF group = {} THEN group' = current /\ UNCHANGED values
             ELSE IF Belongs(group, Min({b[2] : b \in current}))
             THEN group' = group \cup current /\ UNCHANGED values
             ELSE group' = current /\ values' = Append(values, group)
      BY <1>9, <2>4 DEF Return, OnNewValues, FirstOf
    <3>2. failure' # "not in order"
      BY <2>1, <2>2
    <3>3. CASE group = {}
      BY <1>1, <2>4, <3>1, <3>2, <3>3, GroupBegins
    <3>4. CASE group # {} /\ Belongs(group, Min({b[2] : b \in current}))
      BY <1>1, <2>4, <3>1, <3>2, <3>4, GroupGrows
    <3>5. CASE group # {} /\ ~Belongs(group, Min({b[2] : b \in current}))
      <4>1. group' = current /\ values' = Append(values, group)
        BY <3>1, <3>5
      <4>2. PICK t \in Nat : /\ current # {} /\ \A c \in current : c[2] = t
                             /\ Min({b[2] : b \in current}) = t
        BY <1>1, <2>4, CurrentTime
      <4>3. PICK b0 \in group : TRUE
        BY <3>5
      <4>4. PICK s \in Int, f \in Nat : s = StartOf(group) /\ f = Frequency
        BY <1>1, <4>3, GroupPeriod, DispatcherAssumption
      <4>5. s + f <= t
        <5>1. ~(t >= s /\ t < s + f)
          BY <3>5, <4>2, <4>4 DEF Belongs
        <5>2. s <= b0[2] /\ b0[2] \in Nat /\ b0[2] < t
          <6>1. b0 \in seen
            BY <1>1, <4>3 DEF GroupsOK
          <6> QED BY <1>1, <2>4, <4>2, <4>3, <4>4, <6>1, GroupPeriod DEF BarsInOrder
        <5> QED BY <5>1, <5>2
      <4>6. \A b \in group : Begin(b[2]) = s
        BY <1>1, <4>4, GroupPeriod
      <4>7. s < Begin(t)
        <5>1. Begin(t) \in Int /\ t < Begin(t) + f
          BY <4>4, BeginIs
        <5> QED BY <4>5, <5>1
      <4>8. PICK ended : ended = closed' /\ ended = closed
        BY <3>1
      <4>9. PICK more \in SUBSET Bars : more = current
        BY <1>1 DEF TypeOK
      <4>10. OnePeriod(more)
        BY <4>2, <4>9 DEF OnePeriod
      <4>11. ASSUME NEW b \in seen, NEW c \in more
             PROVE  b[2] < c[2] /\ (Begin(b[2]) = Begin(c[2]) => Begin(c[2]) \in ended)
        <5>1. CASE b \notin group
          BY <1>1, <2>4, <4>8, <4>9, <5>1, NewBarAfter
        <5>2. CASE b \in group
          <6>1. b[2] < c[2]
            BY <1>1, <2>4, <4>9 DEF BarsInOrder
          <6>2. Begin(b[2]) = s /\ Begin(c[2]) = Begin(t)
            BY <4>2, <4>6, <4>9, <5>2
          <6>3. s # Begin(t)
            BY <4>7
          <6> QED BY <6>1, <6>2, <6>3
        <5> QED BY <5>1, <5>2
      <4>12. \A b \in group : \E c \in more : Begin(b[2]) < Begin(c[2])
        BY <4>2, <4>6, <4>7, <4>9
      <4> QED BY <1>1, <3>1, <3>2, <3>5, <4>1, <4>8, <4>9, <4>10, <4>11, <4>12, GroupCompletes
    <3> QED BY <3>3, <3>4, <3>5
  <2> QED BY <2>3, <2>4
<1>10. CASE UNCHANGED vars
  BY <1>1, <1>10, GroupsStay
<1> QED BY <1>2, <1>3, <1>4, <1>5, <1>6, <1>7, <1>8, <1>9, <1>10 DEF Next, Thread, Strategy

-----------------------------------------------------------------------------
(* What is proved *)

(* A run starts with the broker and the feed, and nothing dispatched.      *)
LEMMA InitIInv == Init => IInv
<1> SUFFICES ASSUME Init PROVE IInv
  OBVIOUS
<1>1. subjects = <<"broker", "feed">>
  BY AddedSubjects DEF Init
<1>2. ToSet(subjects) = {"broker", "feed"}
  BY <1>1 DEF ToSet
<1>3. other \in Seq(Times) /\ live \in BOOLEAN
  BY DispatcherAssumption DEF Init
<1>4. remaining \in [Instruments -> SUBSET Times] /\ (live => \A i \in Instruments : remaining[i] = {})
  BY DEF Init
<1>5. TypeOK
  <2>1. values \in Seq(Groups) /\ emitted \in Seq(Groups) /\ queue \in Seq(Bars)
        /\ log \in Seq([dateTime : Times, bars : SUBSET Bars])
    BY EmptySeq DEF Init
  <2>2. live \in BOOLEAN /\ stop \in BOOLEAN /\ dispatched \in BOOLEAN
    BY <1>3, Zenon DEF Init
  <2> QED BY <1>3, <1>4, <2>1, <2>2 DEF Init, TypeOK, Events
<1>6. Subjects
  BY <1>1 DEF Subjects
<1>7. Control /\ NothingLeft /\ NeverIdle
  BY <1>2 DEF Init, Control, NothingLeft, NeverIdle
<1>8. LogOK
  <2>1. DOMAIN log = {} /\ \A j, k \in DOMAIN other : j <= k => other[j] <= other[k]
    BY DispatcherAssumption DEF Init
  <2> QED BY <1>2, <2>1 DEF Init, LogOK, NotLater
<1>9. BarsInOrder
  BY <1>4 DEF Init, BarsInOrder
<1>10. GroupsOK
  <2>1. Complete = <<>>
    BY ConcatEmptySeq, EmptySeq DEF Init, Complete
  <2>2. ToSet(Complete) = {} /\ DOMAIN Complete = {}
    BY <2>1 DEF ToSet
  <2> QED BY <2>2 DEF Init, GroupsOK, OnePeriod
<1> QED BY <1>5, <1>6, <1>7, <1>8, <1>9, <1>10 DEF IInv

(* The invariant holds in every state.                                     *)
THEOREM Invariance == Spec => []IInv
<1>1. IInv /\ [Next]_vars => IInv'
  BY StepTypes, StepSubjects, StepControl, StepNothingLeft, StepLog, StepNeverIdle, StepBars, StepGroups DEF IInv
<1> QED BY <1>1, InitIInv, PTL DEF Spec

(* Events of stored subjects come in the order of their datetimes, each    *)
(* with the bars of its own, subjects stay in the order of their           *)
(* priorities, and a run that nobody stopped leaves nothing.               *)
THEOREM DispatchedInOrderCorrect == Spec => []DispatchedInOrder
<1>1. IInv => DispatchedInOrder
  <2> SUFFICES ASSUME IInv PROVE DispatchedInOrder
    OBVIOUS
  <2>1. SubjectsByPriority
    <3>1. Subjects
      BY DEF IInv
    <3>2. CASE subjects = <<"broker", "feed">>
      BY <3>2, Priorities DEF SubjectsByPriority
    <3>3. CASE subjects = <<"broker", "feed", "other">>
      BY <3>3, Priorities DEF SubjectsByPriority
    <3>4. CASE subjects = <<"broker", "feed", "resampled">>
      BY <3>4, Priorities DEF SubjectsByPriority
    <3>5. CASE subjects = <<"broker", "feed", "resampled", "other">>
      BY <3>5, Priorities DEF SubjectsByPriority
    <3> QED BY <3>1, <3>2, <3>3, <3>4, <3>5 DEF Subjects
  <2> QED BY <2>1 DEF IInv, LogOK, DispatchedInOrder
<1> QED BY <1>1, Invariance, PTL

(* The resampled feed loses no bar and counts none twice, no group has     *)
(* bars of two periods, and a period is offered twice only if the clock    *)
(* had ended it before.                                                    *)
THEOREM GroupsPartitionCorrect == Spec => []GroupsPartition
<1>1. IInv => GroupsPartition
  <2> SUFFICES ASSUME IInv PROVE GroupsPartition
    OBVIOUS
  <2>1. TypeOK /\ GroupsOK
    BY DEF IInv
  <2>2. PICK c \in Seq(Groups), n \in Nat : c = Complete /\ n = Len(c) /\ DOMAIN c = 1 .. n
    BY <2>1, CompleteIs
  <2>3. /\ (UNION ToSet(c)) \cup group = seen
        /\ \A j, k \in 1 .. n : j < k => Before(c[j], c[k], closed)
        /\ \A j \in 1 .. n : Before(c[j], group, closed) /\ OnePeriod(c[j])
        /\ OnePeriod(group) /\ (failure = "not in order" => StartOf(Head(values)) \in closed)
    BY <2>1, <2>2 DEF GroupsOK
  <2>4. ASSUME NEW g, NEW h \in SUBSET Bars, Before(g, h, closed) PROVE g \cap h = {}
    <3> SUFFICES ASSUME NEW b \in g \cap h PROVE FALSE
      OBVIOUS
    <3>1. b[2] < b[2] /\ b[2] \in Nat
      BY <2>4, Bounds DEF Before
    <3> QED BY <3>1
  <2>5. \A j \in 1 .. n : c[j] \in SUBSET Bars
    BY <2>1, <2>2, CompleteIs
  <2>6. ASSUME NEW j \in 1 .. n, NEW k \in 1 .. n, j # k PROVE c[j] \cap c[k] = {}
    <3>1. CASE j < k
      BY <2>3, <2>4, <2>5, <3>1
    <3>2. CASE k < j
      BY <2>3, <2>4, <2>5, <3>2
    <3> QED BY <2>6, <3>1, <3>2
  <2>7. \A j \in 1 .. n : c[j] \cap group = {}
    <3>1. group \in SUBSET Bars
      BY <2>1 DEF TypeOK
    <3> QED BY <2>3, <2>4, <3>1
  <2>8. CASE group = {}
    <3>1. Resampled = c
      BY <2>2, <2>8, ConcatEmptySeq DEF Resampled, Complete
    <3>2. UNION ToSet(c) = seen
      BY <2>3, <2>8
    <3>3. \A j \in DOMAIN c : \A b, d \in c[j] : Begin(b[2]) = Begin(d[2])
      BY ZenonT(60), <2>2, <2>3 DEF OnePeriod
    <3>4. \A j, k \in DOMAIN c : j # k => c[j] \cap c[k] = {}
      BY <2>2, <2>6
    <3> QED BY <2>3, <3>1, <3>2, <3>3, <3>4 DEF GroupsPartition
  <2>9. CASE group # {}
    <3>1. PICK g \in Groups : g = group
      BY <2>1, <2>9 DEF TypeOK, Groups
    <3>2. Resampled = Append(c, g)
      <4>1. Append(c, g) = c \o <<g>>
        BY AppendIsConcat
      <4> QED BY <2>2, <2>9, <3>1, <4>1 DEF Resampled, Complete
    <3>3. PICK r \in Seq(Groups) : r = Resampled
      BY <3>2, AppendProperties
    <3>4. Len(r) = n + 1 /\ r[n + 1] = g /\ \A j \in 1 .. n : r[j] = c[j]
      BY <2>2, <3>2, <3>3, AppendProperties
    <3>5. DOMAIN r = (1 .. n) \cup {n + 1}
      BY <3>4, LenProperties, OneMore
    <3>6. UNION ToSet(r) = seen
      <4>1. \A x : x \in UNION ToSet(r) <=> (\E j \in 1 .. n : x \in c[j]) \/ x \in g
        BY <3>4, <3>5 DEF ToSet
      <4>2. \A x : x \in UNION ToSet(c) <=> \E j \in 1 .. n : x \in c[j]
        BY <2>2 DEF ToSet
      <4> QED BY <2>3, <3>1, <4>1, <4>2
    <3>7. \A j, k \in DOMAIN r : j # k => r[j] \cap r[k] = {}
      BY <2>6, <2>7, <3>1, <3>4, <3>5
    <3>8. \A j \in DOMAIN r : OnePeriod(r[j])
      BY <2>3, <3>1, <3>4, <3>5
    <3>9. \A j \in DOMAIN r : \A b, d \in r[j] : Begin(b[2]) = Begin(d[2])
      BY <3>8 DEF OnePeriod
    <3>10. failure = "not in order" => StartOf(Head(values)) \in closed
      BY <2>3
    <3>11. UNION ToSet(Resampled) = seen
      BY <3>3, <3>6
    <3>12. \A j, k \in DOMAIN Resampled : j # k => Resampled[j] \cap Resampled[k] = {}
      BY <3>3, <3>7
    <3>13. \A j \in DOMAIN Resampled : \A b, d \in Resampled[j] : Begin(b[2]) = Begin(d[2])
      BY <3>3, <3>9
    <3> QED BY ONLY <3>10, <3>11, <3>12, <3>13 DEF GroupsPartition
  <2> QED BY <2>8, <2>9
<1> QED BY <1>1, Invariance, PTL

-----------------------------------------------------------------------------
(* observer.Event: the changes that wait for the end of an emission *)

(* The handlers after each of the first n changes, if the changes before   *)
(* it are made one after the other.                                        *)
IsRun(after, hs, changes, n) ==
  after = [i \in 0 .. n |->
             IF i = 0 THEN [handlers |-> hs, failed |-> FALSE] ELSE AfterChange(after[i - 1], changes[i])]

(* There is one such run.                                                  *)
LEMMA RunExists ==
  ASSUME NEW hs, NEW changes, NEW n \in Nat
  PROVE  \E after : IsRun(after, hs, changes, n)
<1> DEFINE B == {k \in 0 .. n : ~\E after : IsRun(after, hs, changes, k)}
<1>1. SUFFICES ASSUME B # {} PROVE FALSE
  OBVIOUS
<1>2. PICK k \in B : \A j \in B : k <= j
  <2>1. B \in SUBSET Nat
    OBVIOUS
  <2> HIDE DEF B
  <2> QED BY <1>1, <2>1, LeastNatural
<1>3. CASE k = 0
  <2> DEFINE g == [i \in 0 .. 0 |-> [handlers |-> hs, failed |-> FALSE]]
  <2>1. IsRun(g, hs, changes, 0)
    BY DEF IsRun
  <2> QED BY <1>3, <2>1
<1>4. CASE k # 0
  <2>1. k - 1 \in 0 .. n /\ k - 1 \notin B
    BY <1>2, <1>4
  <2>2. PICK f : IsRun(f, hs, changes, k - 1)
    BY <2>1
  <2> DEFINE g == [i \in 0 .. k |-> IF i = k THEN AfterChange(f[k - 1], changes[k]) ELSE f[i]]
  <2>3. \A i \in 0 .. k : g[i] = IF i = 0 THEN [handlers |-> hs, failed |-> FALSE]
                                 ELSE AfterChange(g[i - 1], changes[i])
    <3> TAKE i \in 0 .. k
    <3>1. CASE i = k
      BY <1>4, <3>1
    <3>2. CASE i # k
      <4>1. i \in 0 .. k - 1 /\ g[i] = f[i] /\ (i # 0 => g[i - 1] = f[i - 1])
        BY <3>2
      <4> QED BY <2>2, <4>1 DEF IsRun
    <3> QED BY <3>1, <3>2
  <2>4. IsRun(g, hs, changes, k)
    <3>1. g = [i \in 0 .. k |-> g[i]]
      OBVIOUS
    <3> HIDE DEF g
    <3> QED BY <2>3, <3>1 DEF IsRun
  <2> QED BY <2>4
<1> QED BY <1>3, <1>4

(* Two runs agree, on what their changes have in common.                   *)
LEMMA RunUnique ==
  ASSUME NEW hs, NEW n \in Nat, NEW f, NEW g, NEW c, NEW d, NEW m \in Nat, m <= n,
         \A i \in 1 .. m : c[i] = d[i],
         IsRun(f, hs, c, n), IsRun(g, hs, d, m)
  PROVE  f[m] = g[m]
<1> DEFINE B == {k \in 0 .. m : f[k] # g[k]}
<1>1. SUFFICES ASSUME B # {} PROVE FALSE
  BY DEF B
<1>2. PICK k \in B : \A j \in B : k <= j
  <2>1. B \in SUBSET Nat
    OBVIOUS
  <2> HIDE DEF B
  <2> QED BY <1>1, <2>1, LeastNatural
<1>3. k \in 0 .. m /\ k \in 0 .. n
  OBVIOUS
<1>4. f[k] = IF k = 0 THEN [handlers |-> hs, failed |-> FALSE] ELSE AfterChange(f[k - 1], c[k])
  BY <1>3 DEF IsRun
<1>5. g[k] = IF k = 0 THEN [handlers |-> hs, failed |-> FALSE] ELSE AfterChange(g[k - 1], d[k])
  BY <1>3 DEF IsRun
<1>6. k # 0 => f[k - 1] = g[k - 1] /\ c[k] = d[k]
  <2>1. k # 0 => k - 1 \in 0 .. m /\ k - 1 \notin B /\ k \in 1 .. m
    BY <1>2
  <2> QED BY <2>1
<1>7. f[k] = g[k]
  BY <1>4, <1>5, <1>6
<1> QED BY <1>7

(* AfterChanges is what the run ends with.                                 *)
LEMMA AfterChangesIs ==
  ASSUME NEW hs, NEW C, NEW changes \in Seq(C)
  PROVE  \E after : IsRun(after, hs, changes, Len(changes)) /\ AfterChanges(hs, changes) = after[Len(changes)]
<1> DEFINE f == CHOOSE after : IsRun(after, hs, changes, Len(changes))
<1>1. IsRun(f, hs, changes, Len(changes))
  BY RunExists, LenProperties
<1>2. AfterChanges(hs, changes) = f[Len(changes)]
  BY DEF AfterChanges, IsRun
<1> QED BY <1>1, <1>2

(* No change leaves the handlers as they are.                              *)
LEMMA NoChange ==
  ASSUME NEW hs
  PROVE  AfterChanges(hs, <<>>) = [handlers |-> hs, failed |-> FALSE]
<1>1. <<>> \in Seq(Nat) /\ Len(<<>>) = 0
  OBVIOUS
<1>2. PICK f : IsRun(f, hs, <<>>, 0) /\ AfterChanges(hs, <<>>) = f[0]
  BY <1>1, AfterChangesIs
<1> QED BY <1>2 DEF IsRun

(* One more change is made after the others.                               *)
LEMMA OneMoreChange ==
  ASSUME NEW hs, NEW C, NEW changes \in Seq(C), NEW c \in C
  PROVE  AfterChanges(hs, Append(changes, c)) = AfterChange(AfterChanges(hs, changes), c)
<1>1. PICK n \in Nat : n = Len(changes)
  BY LenProperties
<1>2. PICK more \in Seq(C) : /\ more = Append(changes, c) /\ Len(more) = n + 1 /\ more[n + 1] = c
                             /\ \A i \in 1 .. n : more[i] = changes[i]
  <2>1. /\ Append(changes, c) \in Seq(C) /\ Len(Append(changes, c)) = Len(changes) + 1
        /\ Append(changes, c)[Len(changes) + 1] = c
        /\ \A i \in 1 .. Len(changes) : Append(changes, c)[i] = changes[i]
    BY AppendProperties
  <2> QED BY <1>1, <2>1
<1>3. PICK f : IsRun(f, hs, changes, n) /\ AfterChanges(hs, changes) = f[n]
  BY <1>1, AfterChangesIs
<1>4. PICK g : IsRun(g, hs, more, n + 1) /\ AfterChanges(hs, more) = g[n + 1]
  BY <1>2, AfterChangesIs
<1>5. g[n] = f[n]
  <2>1. n + 1 \in Nat /\ n <= n + 1
    OBVIOUS
  <2>2. IsRun(f, hs, changes, n) /\ IsRun(g, hs, more, n + 1)
    BY <1>3, <1>4
  <2>3. \A i \in 1 .. n : more[i] = changes[i]
    BY <1>2
  <2> QED BY ONLY n \in Nat, <2>1, <2>2, <2>3, RunUnique
<1>6. g[n + 1] = AfterChange(g[n], more[n + 1])
  <2>1. n + 1 \in 0 .. n + 1 /\ n + 1 # 0 /\ (n + 1) - 1 = n
    OBVIOUS
  <2>2. g = [i \in 0 .. n + 1 |->
               IF i = 0 THEN [handlers |-> hs, failed |-> FALSE] ELSE AfterChange(g[i - 1], more[i])]
    BY <1>4 DEF IsRun
  <2> QED BY ONLY <2>1, <2>2
<1> QED BY <1>2, <1>3, <1>4, <1>5, <1>6

ChangeRecords == [action : {"subscribe", "unsubscribe"}, handler : Handlers]

AllChanges == AfterChanges(<<>>, requests)

(* Unless a change could not be made, the deferred changes lead from the   *)
(* handlers there are to the ones there would be if no change had waited,  *)
(* and none waits while no event is emitted.                               *)
EventsInv ==
  /\ requests \in Seq(ChangeRecords) /\ deferred \in Seq(ChangeRecords)
  /\ emitting \in Seq(Nat)
  /\ ~AllChanges.failed =>
       /\ AllChanges = [handlers |-> AllChanges.handlers, failed |-> FALSE]
       /\ AfterChanges(handlers, deferred) = AllChanges
       /\ emitting = <<>> => deferred = <<>>

(* A change keeps the invariant, at once or deferred.                      *)
LEMMA ChangesInv ==
  ASSUME EventsInv, NEW c \in ChangeRecords, MakeChange(c), UNCHANGED emitting
  PROVE  EventsInv'
<1>1. PICK q \in Seq(ChangeRecords), d \in Seq(ChangeRecords) : q = requests /\ d = deferred
  BY DEF EventsInv
<1>2. PICK all : all = AfterChanges(<<>>, q)
  OBVIOUS
<1>3. /\ AfterChanges(<<>>, Append(q, c)) = AfterChange(all, c)
      /\ Append(q, c) \in Seq(ChangeRecords) /\ Append(d, c) \in Seq(ChangeRecords)
  BY <1>2, OneMoreChange, AppendProperties
<1>4. PICK next : next = AfterChange(all, c)
  OBVIOUS
<1>5. requests' = Append(q, c) /\ AllChanges' = next
  BY <1>1, <1>3, <1>4 DEF MakeChange, AllChanges
<1>6. ~next.failed => /\ ~all.failed /\ next = [handlers |-> next.handlers, failed |-> FALSE]
  BY <1>4 DEF AfterChange
<1>7. ~all.failed => AfterChanges(handlers, d) = all /\ (emitting = <<>> => d = <<>>)
  BY <1>1, <1>2 DEF EventsInv, AllChanges
<1>8. CASE emitting # <<>>
  <2>1. deferred' = Append(d, c) /\ handlers' = handlers
    BY <1>1, <1>8 DEF MakeChange
  <2>2. AfterChanges(handlers, Append(d, c)) = AfterChange(AfterChanges(handlers, d), c)
    BY OneMoreChange
  <2>3. ~next.failed => AfterChanges(handlers, deferred)' = next
    BY <1>4, <1>6, <1>7, <2>1, <2>2
  <2>4. deferred' \in Seq(ChangeRecords) /\ requests' \in Seq(ChangeRecords)
    BY <1>3, <1>5, <2>1
  <2> QED BY <1>5, <1>6, <1>8, <2>3, <2>4 DEF EventsInv
<1>9. CASE emitting = <<>>
  <2>1. deferred' = d /\ handlers' = AfterChanges(handlers, <<c>>).handlers
    BY <1>1, <1>9 DEF MakeChange
  <2>2. AfterChanges(handlers, <<c>>) = AfterChange(AfterChanges(handlers, <<>>), c)
    <3>1. PICK none \in Seq(ChangeRecords) : none = <<>>
      BY EmptySeq
    <3>2. <<c>> = Append(none, c)
      BY <3>1
    <3>3. AfterChanges(handlers, Append(none, c)) = AfterChange(AfterChanges(handlers, none), c)
      BY OneMoreChange
    <3> QED BY <3>1, <3>2, <3>3, Zenon
  <2>3. ~next.failed => handlers' = next.handlers /\ deferred' = <<>>
    BY <1>4, <1>6, <1>7, <1>9, <2>1, <2>2
  <2>4. ~next.failed => AfterChanges(handlers, deferred)' = next
    BY <1>6, <2>3, NoChange
  <2>5. deferred' \in Seq(ChangeRecords) /\ requests' \in Seq(ChangeRecords)
    BY <1>3, <1>5, <2>1
  <2> QED BY <1>5, <1>6, <2>3, <2>4, <2>5 DEF EventsInv
<1> QED BY <1>8, <1>9

(* The end of an emission keeps it: that of the outermost makes what was   *)
(* deferred.                                                               *)
LEMMA EmitEndsInv ==
  ASSUME EventsInv, emitting # <<>>, EmitEnds
  PROVE  EventsInv'
<1>1. requests' = requests /\ AllChanges' = AllChanges
  BY DEF EmitEnds, AllChanges
<1>2. emitting' = Front(emitting) /\ Len(emitting) \in Nat \ {0}
  BY EmptySeq, LenProperties DEF EmitEnds, EventsInv
<1>3. emitting' \in Seq(Nat) /\ Len(emitting') = Len(emitting) - 1
  <2>1. SubSeq(emitting, 1, Len(emitting) - 1) \in Seq(Nat)
        /\ Len(SubSeq(emitting, 1, Len(emitting) - 1)) = Len(emitting) - 1
    <3>1. PICK e \in Seq(Nat), n \in Nat : e = emitting /\ n = Len(e) /\ n # 0
      BY <1>2 DEF EventsInv
    <3>2. \A i \in 1 .. n - 1 : e[i] \in Nat
      BY <3>1
    <3>3. /\ SubSeq(e, 1, n - 1) \in Seq(Nat)
          /\ Len(SubSeq(e, 1, n - 1)) = IF 1 <= n - 1 THEN n - 1 - 1 + 1 ELSE 0
      BY <3>2, SubSeqProperties
    <3> QED BY <3>1, <3>3
  <2> QED BY <1>2, <2>1 DEF Front
<1>4. CASE Len(emitting) > 1
  <2>1. handlers' = handlers /\ deferred' = deferred
    BY <1>4 DEF EmitEnds
  <2>2. emitting' # <<>>
    BY <1>2, <1>3, <1>4
  <2> QED BY <1>1, <1>3, <2>1, <2>2 DEF EventsInv
<1>5. CASE ~(Len(emitting) > 1)
  <2>1. handlers' = AfterChanges(handlers, deferred).handlers
        /\ deferred' = IF AfterChanges(handlers, deferred).failed THEN deferred ELSE <<>>
    BY <1>5 DEF EmitEnds
  <2>2. deferred' \in Seq(ChangeRecords)
    BY <2>1 DEF EventsInv
  <2>3. ~AllChanges.failed =>
          handlers' = AllChanges.handlers /\ deferred' = <<>>
          /\ AllChanges = [handlers |-> AllChanges.handlers, failed |-> FALSE]
    BY <2>1 DEF EventsInv
  <2>4. ~AllChanges.failed => AfterChanges(handlers, deferred)' = AllChanges
    BY <2>3, NoChange
  <2> QED BY <1>1, <1>3, <2>2, <2>3, <2>4 DEF EventsInv
<1> QED BY <1>4, <1>5

(* Every step keeps it.                                                    *)
LEMMA EventsStep ==
  ASSUME EventsInv, [EventsNext]_eventVars
  PROVE  EventsInv'
<1>1. CASE Changes
  <2>1. PICK c \in ChangeRecords : MakeChange(c) /\ UNCHANGED emitting
    BY <1>1 DEF Changes, Change, ChangeRecords
  <2> QED BY <2>1, ChangesInv
<1>2. CASE Emit
  <2>1. emitting' = Append(emitting, 0) /\ UNCHANGED <<handlers, deferred, requests>>
    BY <1>2 DEF Emit
  <2>2. emitting' \in Seq(Nat) /\ emitting' # <<>>
    <3>1. PICK e \in Seq(Nat) : e = emitting
      BY DEF EventsInv
    <3>2. Append(e, 0) \in Seq(Nat) /\ Append(e, 0) # <<>>
      BY AppendProperties
    <3> QED BY <2>1, <3>1, <3>2
  <2> QED BY <2>1, <2>2 DEF EventsInv, AllChanges
<1>3. CASE CallHandler
  <2>1. emitting # <<>> /\ emitting' = [emitting EXCEPT ![Len(emitting)] = @ + 1]
        /\ UNCHANGED <<handlers, deferred, requests>>
    BY <1>3 DEF CallHandler
  <2>2. emitting' \in Seq(Nat)
    BY <2>1, ExceptSeq DEF EventsInv
  <2> QED BY <2>1, <2>2 DEF EventsInv, AllChanges
<1>4. CASE EmitReturns \/ HandlerRaises
  BY <1>4, EmitEndsInv DEF EmitReturns, HandlerRaises
<1>5. CASE UNCHANGED eventVars
  BY <1>5 DEF eventVars, EventsInv, AllChanges
<1> QED BY <1>1, <1>2, <1>3, <1>4, <1>5 DEF EventsNext

(* Whoever subscribes or unsubscribes finds it done when no emission is in *)
(* progress, as if it had been done at once, unless a change could not be  *)
(* made.                                                                   *)
THEOREM ChangesTakeEffectCorrect == EventsSpec => []ChangesTakeEffect
<1>1. EventsInit => EventsInv
  <2> SUFFICES ASSUME EventsInit PROVE EventsInv
    OBVIOUS
  <2>1. requests = <<>> /\ deferred = <<>> /\ handlers = <<>> /\ emitting = <<>>
    BY DEF EventsInit
  <2>2. AfterChanges(<<>>, <<>>) = [handlers |-> <<>>, failed |-> FALSE]
    BY NoChange
  <2> QED BY <2>1, <2>2, EmptySeq DEF EventsInv, AllChanges
<1>2. EventsInv /\ [EventsNext]_eventVars => EventsInv'
  BY EventsStep
<1>3. EventsInv => ChangesTakeEffect
  <2> SUFFICES ASSUME EventsInv, emitting = <<>>, ~AllChanges.failed
               PROVE  handlers = AllChanges.handlers /\ deferred = <<>>
    BY DEF ChangesTakeEffect, AllChanges
  <2>1. deferred = <<>> /\ AfterChanges(handlers, <<>>) = AllChanges
    BY DEF EventsInv
  <2> QED BY <2>1, NoChange
<1> QED BY <1>1, <1>2, <1>3, PTL DEF EventsSpec

=============================================================================
