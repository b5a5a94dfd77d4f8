----------------------------- MODULE Dispatcher -----------------------------
(***************************************************************************)
(* dispatcher.py and the subjects of a strategy that has a bar feed, a     *)
(* feed of other values and a bar feed resampled from the first one.       *)
(*                                                                         *)
(* The dispatcher takes turns.  In each it looks for the smallest datetime *)
(* that a subject has to offer, and dispatches the subjects with that      *)
(* datetime and the ones without any, in the order of their priorities.    *)
(* Dispatching a feed runs callbacks of the strategy, which may stop the   *)
(* dispatcher, raise, or add the resampled feed in the middle of a turn.   *)
(*                                                                         *)
(* The bar feed is stored, and then offers the datetime of its next bars,  *)
(* or live: another thread queues bars as they arrive, and when there are  *)
(* none the dispatcher is idle and groups of bars are closed by the clock. *)
(* A bar is an instrument and a datetime.  Datetimes are numbers, 0 is     *)
(* None, and a period of the resampled feed starts at multiples of         *)
(* Frequency.                                                              *)
(***************************************************************************)
EXTENDS Integers, Sequences, SequencesExt

CONSTANTS
  Instruments,   (* of the bar feed                                              *)
  MaxTime,       (* bound: datetimes                                             *)
  Frequency,     (* of the resampled feed, in units of time                      *)
  OtherValues,   (* the sequences of datetimes the other feed may hold           *)
  Modes          (* subset of BOOLEAN: the bar feed is live                      *)

Times == 1 .. MaxTime
Bars  == Instruments \X Times
Names == {"broker", "feed", "resampled", "other"}
LAST  == -1

(* MemFeed.start sorts what the other feed holds.                          *)
ASSUME DispatcherAssumption ==
  /\ MaxTime \in Nat /\ Frequency \in Nat \ {0, 1}
  /\ OtherValues \subseteq Seq(Times) /\ Modes \subseteq BOOLEAN
  /\ \A s \in OtherValues : \A j, k \in DOMAIN s : j <= k => s[j] <= s[k]

VARIABLES
  live,          (* the bar feed is live                                         *)
  subjects,      (* Dispatcher.__subjects                                        *)
  stage,         (* where Dispatcher.run is                                      *)
  stop,          (* Dispatcher.__stop, as set by a callback                      *)
  turn,          (* the next subject of the for loop of __dispatch               *)
  smallest,      (* smallestDateTime                                             *)
  dispatched,    (* eventsDispatched                                             *)
  source,        (* the event whose callback runs, or "none"                     *)
  failure,       (* the exception that ended the run                             *)
  clock,         (* the time, for a live feed                                    *)
  remaining,     (* the bars a stored feed has not delivered, by instrument      *)
  queue,         (* the bars that arrived at a live feed                         *)
  current,       (* BaseBarFeed.__currentBars of the bar feed                    *)
  other,         (* the values the other feed has not delivered                  *)
  subscription,  (* of the resampled feed to the bar feed                        *)
  group,         (* ResampledBarFeed.__range and __grouper                       *)
  values,        (* ResampledBarFeed.__values                                    *)
  log,           (* history: the events of stored subjects                       *)
  seen,          (* history: the bars delivered to the resampled feed            *)
  emitted,       (* history: the groups the resampled feed delivered             *)
  closed         (* history: the periods that the clock ended                    *)

thread    == <<subjects, stage, turn, smallest, dispatched>>
feed      == <<live, clock, remaining, queue, current>>
resampler == <<subscription, group, values, seen, emitted, closed>>
vars      == <<thread, stop, source, failure, feed, other, resampler, log>>

-----------------------------------------------------------------------------
(* Dispatcher.addSubject *)

Priority(s) ==
  CASE s = "broker" -> 1000 [] s \in {"feed", "resampled"} -> 2000 [] OTHER -> LAST

AddSubject(seq, s) ==
  LET before == {k \in DOMAIN seq :
                   Priority(seq[k]) = LAST \/ (Priority(s) # LAST /\ Priority(s) < Priority(seq[k]))} IN
  IF s \in ToSet(seq) THEN seq
  ELSE IF Priority(s) = LAST \/ before = {} THEN Append(seq, s)
  ELSE InsertAt(seq, Min(before), s)

-----------------------------------------------------------------------------
(* What subjects offer *)

NextTimes == {Min(remaining[i]) : i \in {j \in Instruments : remaining[j] # {}}}

BrokerNeverEnds(s) ==                                \* mutant: the broker has no end
  CASE s = "broker" -> FALSE
    [] s = "feed" -> ~live /\ NextTimes = {}
    [] s = "other" -> other = <<>>
    [] s = "resampled" -> values = <<>>
Eof(s) ==
  CASE s \in {"broker", "feed"} -> ~live /\ NextTimes = {}
    [] s = "other" -> other = <<>>
    [] s = "resampled" -> values = <<>>

PeekDateTime(s) ==
  CASE s = "feed" /\ ~live -> IF NextTimes = {} THEN 0 ELSE Min(NextTimes)
    [] s = "other" -> IF other = <<>> THEN 0 ELSE Head(other)
    [] OTHER -> 0

-----------------------------------------------------------------------------
(* Dispatcher.run *)

Running   == source = "none" /\ stage # "finished"
Offering  == {s \in ToSet(subjects) : ~Eof(s)}
Offered   == {PeekDateTime(s) : s \in Offering} \ {0}

(* The strategy's constructor added the broker and the bar feed.           *)
AddOther ==
  /\ stage = "setup"
  /\ subjects' = AddSubject(subjects, "other")
  /\ UNCHANGED <<stage, turn, smallest, dispatched, stop, source, failure, feed, other, resampler, log>>

Run ==
  /\ stage = "setup"
  /\ stage' = "scan" /\ source' = "start"
  /\ UNCHANGED <<subjects, turn, smallest, dispatched, stop, failure, feed, other, resampler, log>>

(* Between two turns: the run ends, or the next turn starts.               *)
Scan ==
  /\ Running /\ stage = "scan"
  /\ IF stop \/ Offering = {}
     THEN stage' = "finished" /\ UNCHANGED <<turn, smallest, dispatched>>
     ELSE /\ stage' = "turn" /\ turn' = 1 /\ dispatched' = FALSE
          /\ smallest' = IF Offered = {} THEN 0 ELSE Min(Offered)
  /\ UNCHANGED <<subjects, stop, source, failure, feed, other, resampler, log>>

EveryTurn(s) == ~Eof(s)                              \* mutant: datetimes are not looked at
DueNow(s) == ~Eof(s) /\ PeekDateTime(s) \in {0, smallest}

(* It is the turn of s in the loop of __dispatch.                          *)
TurnOf(s) ==
  /\ Running /\ stage = "turn"
  /\ turn \in DOMAIN subjects /\ subjects[turn] = s
  /\ turn' = turn + 1
  /\ UNCHANGED <<subjects, stage, smallest, stop>>

(* Nothing is due, or nothing comes of it: the broker's events were        *)
(* emitted with the feed's, and a live feed may have no bar.               *)
NothingDispatched(s) ==
  /\ TurnOf(s)
  /\ ~DueNow(s) \/ s = "broker" \/ (s = "feed" /\ live /\ queue = <<>>)
  /\ UNCHANGED <<dispatched, source, failure, feed, other, resampler, log>>

Emits(s) == dispatched' = TRUE /\ source' = s /\ UNCHANGED failure
Logged(dateTime, bars) == log' = Append(log, [dateTime |-> dateTime, bars |-> bars])

(* BarFeed.getNextBars: the bars of all instruments that have one with the *)
(* smallest datetime.                                                      *)
DispatchStored ==
  LET time == Min(NextTimes)
      bars == {b \in Instruments \X {time} : time \in remaining[b[1]]} IN
  /\ TurnOf("feed") /\ DueNow("feed") /\ ~live
  /\ remaining' = [i \in Instruments |-> remaining[i] \ {time}]
  /\ current' = bars
  /\ Logged(time, bars)
  /\ Emits("feed")
  /\ UNCHANGED <<live, clock, queue, other, resampler>>

DispatchLive ==
  /\ TurnOf("feed") /\ DueNow("feed") /\ live /\ queue # <<>>
  /\ current' = {Head(queue)} /\ queue' = Tail(queue)
  /\ Emits("feed")
  /\ UNCHANGED <<live, clock, remaining, other, resampler, log>>

DispatchOther ==
  /\ TurnOf("other") /\ DueNow("other")
  /\ other' = Tail(other)
  /\ Logged(Head(other), {})
  /\ Emits("other")
  /\ UNCHANGED <<feed, resampler>>

-----------------------------------------------------------------------------
(* The resampled feed *)

Begin(time) == time - (time % Frequency)
StartOf(bars) == Begin(Min({b[2] : b \in bars}))
Belongs(bars, time) ==
  time >= StartOf(bars) /\ time < StartOf(bars) + Frequency

(* getNextValues raises if datetimes are not in order.                     *)
DispatchResampled ==
  /\ TurnOf("resampled") /\ DueNow("resampled")
  /\ IF emitted # <<>> /\ StartOf(Last(emitted)) >= StartOf(Head(values))
     THEN failure' = "not in order" /\ source' = "failed" /\ UNCHANGED <<dispatched, resampler>>
     ELSE /\ values' = Tail(values) /\ emitted' = Append(emitted, Head(values))
          /\ Emits("resampled")
          /\ UNCHANGED <<subscription, group, seen, closed>>
  /\ UNCHANGED <<feed, other, log>>

(* ResampledBarFeed.__onNewValues; one that subscribed while the event was *)
(* being emitted gets the next event only.                                 *)
DropsFirst(bars) == {}                               \* mutant: a group starts without its first bars
FirstOf(bars) == bars

OnNewValues ==
  /\ IF subscription # "subscribed" THEN UNCHANGED <<group, values, seen>>
     ELSE /\ seen' = seen \cup current
          /\ IF group = {} THEN group' = FirstOf(current) /\ UNCHANGED values
             ELSE IF Belongs(group, Min({b[2] : b \in current}))
             THEN group' = group \cup current /\ UNCHANGED values
             ELSE group' = FirstOf(current) /\ values' = Append(values, group)
  /\ subscription' = IF subscription = "deferred" THEN "subscribed" ELSE subscription
  /\ UNCHANGED <<emitted, closed>>

(* checkNow *)
PeriodOver(now) == group # {} /\ ~Belongs(group, now)

CheckNow(now) ==
  /\ IF ~PeriodOver(now) THEN UNCHANGED <<group, values, closed>>
     ELSE /\ group' = {} /\ values' = Append(values, group)
          /\ closed' = closed \cup {start \in {StartOf(group)} : start + Frequency <= now}
  /\ UNCHANGED <<subscription, seen, emitted>>

(* When a turn dispatched nothing the dispatcher is idle.                  *)
EndTurn ==
  /\ Running /\ stage = "turn" /\ turn \notin DOMAIN subjects
  /\ stage' = "scan"
  /\ IF dispatched THEN UNCHANGED <<source, resampler>>
     ELSE source' = "idle" /\ CheckNow(clock)
  /\ UNCHANGED <<subjects, turn, smallest, dispatched, stop, failure, feed, other, log>>

-----------------------------------------------------------------------------
(* Callbacks of the strategy *)

Events == {"start", "feed", "other", "resampled", "idle"}

Return ==
  /\ source \in Events
  /\ source' = "none"
  /\ IF source = "feed" THEN OnNewValues ELSE UNCHANGED resampler
  /\ UNCHANGED <<thread, stop, failure, feed, other, log>>

RequestStop ==
  /\ source \in Events /\ ~stop
  /\ stop' = TRUE
  /\ UNCHANGED <<thread, source, failure, feed, other, resampler, log>>

(* An exception leaves the loop; subjects are stopped and joined.          *)
Raise ==
  /\ source \in Events
  /\ failure' = "strategy" /\ source' = "failed"
  /\ UNCHANGED <<thread, stop, feed, other, resampler, log>>

Unwind ==
  /\ source = "failed"
  /\ source' = "none" /\ stage' = "finished"
  /\ UNCHANGED <<subjects, turn, smallest, dispatched, stop, failure, feed, other, resampler, log>>

(* BaseStrategy.resampleBarFeed                                            *)
ResampleBarFeed ==
  /\ stage = "setup" \/ source \in Events
  /\ subscription = "none"
  /\ subscription' = IF source = "feed" THEN "deferred" ELSE "subscribed"
  /\ subjects' = AddSubject(subjects, "resampled")
  /\ UNCHANGED <<stage, turn, smallest, dispatched, stop, source, failure, feed, other,
                 group, values, seen, emitted, closed, log>>

-----------------------------------------------------------------------------
(* The live feed's thread: bars arrive with datetimes that increase.       *)

Arrive(i) ==
  /\ live /\ stage \in {"scan", "turn"}
  /\ clock \in Times /\ \A b \in current \cup ToSet(queue) : b[2] < clock
  /\ queue' = Append(queue, <<i, clock>>)
  /\ UNCHANGED <<thread, stop, source, failure, live, clock, remaining, current, other, resampler, log>>

Tick ==
  /\ live /\ stage # "finished" /\ clock < MaxTime
  /\ clock' = clock + 1
  /\ UNCHANGED <<thread, stop, source, failure, live, remaining, queue, current, other, resampler, log>>

-----------------------------------------------------------------------------

Init ==
  /\ live \in Modes
  /\ remaining \in [Instruments -> IF live THEN {{}} ELSE SUBSET Times]
  /\ other \in OtherValues
  /\ subjects = AddSubject(AddSubject(<<>>, "broker"), "feed")
  /\ stage = "setup" /\ stop = FALSE
  /\ turn = 1 /\ smallest = 0 /\ dispatched = FALSE
  /\ source = "none" /\ failure = "none"
  /\ clock = 0 /\ queue = <<>> /\ current = {}
  /\ subscription = "none" /\ group = {} /\ values = <<>>
  /\ log = <<>> /\ seen = {} /\ emitted = <<>> /\ closed = {}

Thread ==
  \/ Scan \/ EndTurn \/ Unwind
  \/ \E s \in Names : NothingDispatched(s)
  \/ DispatchStored \/ DispatchLive \/ DispatchOther \/ DispatchResampled

Strategy == AddOther \/ Run \/ RequestStop \/ Raise \/ ResampleBarFeed

Next ==
  \/ Thread \/ Return \/ Strategy
  \/ Tick \/ \E i \in Instruments : Arrive(i)

(* The dispatcher's thread runs and callbacks return.                      *)
Spec == Init /\ [][Next]_vars /\ WF_vars(Thread) /\ WF_vars(Return)

-----------------------------------------------------------------------------
(* Properties *)

SubjectsByPriority ==
  \A j, k \in DOMAIN subjects :
    j < k =>
      /\ subjects[j] # subjects[k]
      /\ Priority(subjects[k]) = LAST \/ Priority(subjects[j]) \in 0 .. Priority(subjects[k])
      /\ subjects[k] # "feed" \/ subjects[j] # "resampled"

NothingLeft ==
  stage = "finished" /\ ~stop /\ failure = "none" =>
    /\ \A i \in Instruments : remaining[i] = {}
    /\ "other" \in ToSet(subjects) => other = <<>>
    /\ values = <<>>

(* Events of all the subjects that are not live come in the order of their *)
(* datetimes, and bars with the event of their own datetime, even if a     *)
(* subject is inserted in the middle of a turn; a run that nobody stopped  *)
(* has dispatched all there was.  Subjects stay in the order of their      *)
(* priorities, those without one at the end, whenever they are added: the  *)
(* broker comes before the feeds, and the resampled feed after the feed it *)
(* depends on.                                                             *)
DispatchedInOrder ==
  /\ \A j \in DOMAIN log :
       /\ \A b \in log[j].bars : b[2] = log[j].dateTime
       /\ j > 1 => log[j - 1].dateTime <= log[j].dateTime
  /\ SubjectsByPriority /\ NothingLeft

Resampled == emitted \o values \o (IF group = {} THEN <<>> ELSE <<group>>)

(* The resampled feed neither loses a bar nor counts one twice: what it    *)
(* delivered, has ready and is collecting is what it was given, each bar   *)
(* in one group, and a group never has bars of two periods.  It offers a   *)
(* period twice, and raises, only if the clock had ended the period before *)
(* a bar of it was dispatched.                                             *)
GroupsPartition ==
  /\ failure = "not in order" => StartOf(Head(values)) \in closed
  /\ UNION ToSet(Resampled) = seen
  /\ \A j, k \in DOMAIN Resampled : j # k => Resampled[j] \cap Resampled[k] = {}
  /\ \A j \in DOMAIN Resampled : \A b, c \in Resampled[j] : Begin(b[2]) = Begin(c[2])

(* A run over stored feeds ends, and one that is told to stop does.        *)
Ends == stage = "scan" /\ (~live \/ stop) ~> stage = "finished"

=============================================================================
