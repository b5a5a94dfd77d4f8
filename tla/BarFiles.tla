------------------------------ MODULE BarFiles ------------------------------
(***************************************************************************)
(* The bar feeds over stored data: CSV files with a parser for each format *)
(* (barfeed/csvfeed.py, yahoofeed.py, ninjatraderfeed.py, and the trades   *)
(* of bitcoincharts), or a database (sqlitefeed.py).  What they load is    *)
(* held in memory, sorted and merged by datetime (membf.BarFeed).          *)
(*                                                                         *)
(* A datetime is naive, or it is aware and then at an instant in UTC;      *)
(* Python refuses to compare one with the other.  An exception ends the    *)
(* run.                                                                    *)
(***************************************************************************)
EXTENDS SequencesExt, FiniteSetsExt, Sorting

CONSTANTS
  Names,          (* of the instruments                                    *)
  Files,          (* sequences of rows [time, adjClose, malformed]         *)
  Formats,        (* the kinds of feed, a format of files, or sqlite        *)
  Zones, NoZone, Offset(_),   (* timezones and how far they are from UTC   *)
  Filters, NoFilter,  (* [aware, from, to], for DateRangeFilter            *)
  DayLength,      (* the times of a day                                    *)
  DailyBarTime,   (* setDailyBarTime                                       *)
  Second,         (* in microseconds                                       *)
  MaxLoads, MaxResets  (* bounds                                           *)

VARIABLES
  format,
  bars,           (* __bars of membf.BarFeed                               *)
  nextPos,
  started,
  currDateTime,   (* the last datetime returned, None is <<>>              *)
  fix,            (* UnixTimeFix: the last datetime, __nextFix, and what    *)
                  (* fixDateTime returned last                              *)
  haveAdjClose,   (* of GenericBarFeed                                     *)
  useAdjusted,    (* setUseAdjustedValues                                  *)
  db,             (* the table bar, by instrument and timestamp            *)
  loads, resets,
  read,           (* history: the rows of all the files read, in order     *)
  emitted,        (* history: the bars dispatched since the last reset     *)
  failure         (* what was raised                                       *)

vars == <<format, bars, nextPos, started, currDateTime, fix, haveAdjClose, useAdjusted,
          db, loads, resets, read, emitted, failure>>

FilesInit ==
  /\ format \in Formats
  /\ bars = [i \in Names |-> <<>>] /\ nextPos = [i \in Names |-> 1]
  /\ started = FALSE /\ currDateTime = <<>>
  /\ fix = [last |-> -1, next |-> 1, at |-> -1]
  /\ haveAdjClose = FALSE /\ useAdjusted = FALSE
  /\ db = [i \in Names |-> <<>>]
  /\ loads = 0 /\ resets = 0 /\ read = <<>> /\ emitted = <<>> /\ failure = "none"

-----------------------------------------------------------------------------
(* Rows *)

(* dt.localize of what the file says, if there is a timezone.              *)
Localized(at, zone) ==
  IF zone = NoZone THEN [aware |-> FALSE, at |-> at]
  ELSE [aware |-> TRUE, at |-> at - Offset(zone) * Second]

(* Mutant: every trade of the same time is moved by one microsecond.       *)
FixedByOne(f, at) ==
  IF at = f.last THEN [last |-> at, next |-> 1, at |-> at + 1]
  ELSE [last |-> at, next |-> 1, at |-> at]

(* UnixTimeFix.fixDateTime, with the datetime it returns.                  *)
FixDateTime(f, at) ==
  IF at = f.last THEN [last |-> at, next |-> f.next + 1, at |-> at + f.next]
  ELSE [last |-> at, next |-> 1, at |-> at]

(* The fix after each row of a file.                                       *)
Fixes(file) ==
  LET f[k \in 0 .. Len(file)] == IF k = 0 THEN fix ELSE FixDateTime(f[k - 1], file[k].time * Second)
  IN f

(* The parsers: a generic file has datetimes, one of Yahoo! or Google      *)
(* Finance dates that get the daily time; NinjaTrader and bitcoincharts have datetimes   *)
(* in UTC, and those of bitcoincharts are fixed.                           *)
ParseGeneric(file, k, zone) == Localized(file[k].time * Second, zone)
ParseYahoo(file, k, zone) ==
  Localized(((file[k].time \div DayLength) * DayLength + DailyBarTime) * Second, zone)
ParseGoogle(file, k, zone) == ParseYahoo(file, k, zone)
ParseNinjaTrader(file, k, zone) == [aware |-> TRUE, at |-> file[k].time * Second]
ParseBitcoinCharts(file, k, zone) == [aware |-> TRUE, at |-> Fixes(file)[k].at]

ParseDate(file, k, zone) ==
  CASE format = "generic"       -> ParseGeneric(file, k, zone)
    [] format = "yahoo"         -> ParseYahoo(file, k, zone)
    [] format = "google"        -> ParseGoogle(file, k, zone)
    [] format = "ninjatrader"   -> ParseNinjaTrader(file, k, zone)
    [] format = "bitcoincharts" -> ParseBitcoinCharts(file, k, zone)

ParseBar(file, k, zone) ==
  [dateTime |-> ParseDate(file, k, zone), adjClose |-> file[k].adjClose, row |-> Len(read) + k]

(* DateRangeFilter.                                                        *)
IncludeBar(filter, b) ==
  filter = NoFilter \/ (filter.from * Second <= b.dateTime.at /\ b.dateTime.at <= filter.to * Second)

-----------------------------------------------------------------------------
(* Loading *)

Running == failure = "none"

Sorted(s) == SortedBy(s, [k \in DOMAIN s |-> s[k].dateTime.at])

Mixed(dateTimes) == \E a, b \in dateTimes : a.aware # b.aware
DateTimes(s) == {s[k].dateTime : k \in DOMAIN s}

(* membf.BarFeed.addBarsFromSequence: what it raises, and the bars after.  *)
Refused(i, loaded) ==
  IF started THEN "started"
  ELSE IF Mixed(DateTimes(bars[i] \o loaded)) THEN "naive and aware" ELSE "none"

Added(i, loaded) == [bars EXCEPT ![i] = Sorted(@ \o loaded)]

(* csvfeed.BarFeed.addBarsFromCSV: the parsed bars, and what is raised     *)
(* unless the bars that the filter includes are added.                     *)
Parsed(file, zone) ==
  Picked([k \in DOMAIN file |-> ParseBar(file, k, zone)], {k \in DOMAIN file : ~file[k].malformed})

Included(parsed, filter) == Picked(parsed, {k \in DOMAIN parsed : IncludeBar(filter, parsed[k])})

Raised(i, file, parsed, filter, skip) ==
  IF ~skip /\ Len(parsed) < Len(file) THEN "malformed"
  ELSE IF filter # NoFilter /\ Mixed(DateTimes(parsed) \cup {filter}) THEN "naive and aware"
  ELSE Refused(i, Included(parsed, filter))

LoadCSV(i, file, zone, filter, skip) ==
  LET parsed == Parsed(file, zone)
      raised == Raised(i, file, parsed, filter, skip)
  IN
  /\ Running /\ loads < MaxLoads /\ resets = 0
  /\ loads' = loads + 1 /\ read' = read \o file
  /\ bars' = IF raised = "none" THEN Added(i, Included(parsed, filter)) ELSE bars
  /\ UNCHANGED <<format, nextPos, started, currDateTime, useAdjusted, db, resets, emitted>>

(* GenericBarFeed.addBarsFromCSV can skip what is malformed, and checks    *)
(* the adjusted closes of the file once its bars were added.               *)
AddGeneric ==
  \E i \in Names, file \in Files, zone \in Zones, filter \in Filters, skip \in BOOLEAN :
    LET parsed == Parsed(file, zone)
        raised == Raised(i, file, parsed, filter, skip)
        adjClose == \E n \in DOMAIN parsed : parsed[n].adjClose
    IN
    /\ format = "generic" /\ LoadCSV(i, file, zone, filter, skip)
    /\ haveAdjClose' = (haveAdjClose \/ (raised = "none" /\ adjClose))
    /\ failure' = IF raised = "none" /\ haveAdjClose /\ ~adjClose THEN "adjusted close" ELSE raised
    /\ UNCHANGED fix

(* yahoofeed; every row of its files has an adjusted close.                *)
AddYahoo ==
  \E i \in Names, file \in Files, zone \in Zones, filter \in Filters :
    LET raised == Raised(i, file, Parsed(file, zone), filter, FALSE) IN
    /\ format = "yahoo" /\ LoadCSV(i, file, zone, filter, FALSE)
    /\ \A k \in DOMAIN file : file[k].adjClose
    /\ failure' = raised
    /\ UNCHANGED <<fix, haveAdjClose>>

(* googlefeed, whose files have none.                                      *)
AddGoogle ==
  \E i \in Names, file \in Files, zone \in Zones, filter \in Filters, skip \in BOOLEAN :
    LET raised == Raised(i, file, Parsed(file, zone), filter, skip) IN
    /\ format = "google" /\ LoadCSV(i, file, zone, filter, skip)
    /\ \A k \in DOMAIN file : ~file[k].adjClose
    /\ failure' = raised
    /\ UNCHANGED <<fix, haveAdjClose>>

AddNinjaTrader ==
  \E i \in Names, file \in Files, zone \in Zones, filter \in Filters :
    LET raised == Raised(i, file, Parsed(file, zone), filter, FALSE) IN
    /\ format = "ninjatrader" /\ LoadCSV(i, file, zone, filter, FALSE)
    /\ failure' = raised
    /\ UNCHANGED <<fix, haveAdjClose>>

(* CSVTradeFeed.addBarsFromCSV, with fromDateTime and toDateTime: the fix  *)
(* lives as long as the feed.                                              *)
AddBitcoinCharts ==
  \E i \in Names, file \in Files, zone \in Zones, filter \in Filters :
    LET raised == Raised(i, file, Parsed(file, zone), filter, FALSE) IN
    /\ format = "bitcoincharts" /\ LoadCSV(i, file, zone, filter, FALSE)
    /\ failure' = raised
    /\ fix' = Fixes(file)[Len(file)]
    /\ UNCHANGED haveAdjClose

(* Database.addBar for the bars of a file: one that is there already is    *)
(* updated.  Naive datetimes are taken for UTC.                            *)
AddToDatabase ==
  \E i \in Names, file \in Files, zone \in Zones :
    LET at(k)  == Localized(file[k].time * Second, zone).at
        now    == {at(k) : k \in DOMAIN file}
        lastOf == [t \in now |-> Max({k \in DOMAIN file : at(k) = t})]
    IN
    /\ Running /\ format = "sqlite" /\ loads < MaxLoads /\ resets = 0
    /\ loads' = loads + 1 /\ read' = read \o file
    /\ db' = [db EXCEPT ![i] = [t \in now \cup DOMAIN @ |->
                                   IF t \in now THEN [row |-> Len(read) + lastOf[t],
                                                      adjClose |-> file[lastOf[t]].adjClose]
                                   ELSE @[t]]]
    /\ UNCHANGED <<format, bars, nextPos, started, currDateTime, fix, haveAdjClose, useAdjusted,
                   resets, emitted, failure>>

(* Database.getBars, in the order of their timestamps.                     *)
GetBars(i, filter) ==
  LET times == InOrder({t \in DOMAIN db[i] :
                          filter = NoFilter \/ t \in filter.from * Second .. filter.to * Second})
  IN [k \in DOMAIN times |-> [dateTime |-> [aware |-> TRUE, at |-> times[k]],
                              adjClose |-> db[i][times[k]].adjClose, row |-> db[i][times[k]].row]]

(* Feed.loadBars.                                                          *)
LoadBars ==
  \E i \in Names, filter \in Filters :
    /\ Running /\ format = "sqlite" /\ loads < MaxLoads /\ resets = 0
    /\ loads' = loads + 1
    /\ failure' = Refused(i, GetBars(i, filter))
    /\ bars' = IF failure' = "none" THEN Added(i, GetBars(i, filter)) ELSE bars
    /\ UNCHANGED <<format, nextPos, started, currDateTime, fix, haveAdjClose, useAdjusted, db,
                   resets, read, emitted>>

-----------------------------------------------------------------------------
(* Dispatching *)

BarsHaveAdjClose ==
  format \in {"yahoo", "sqlite"} \/ (format = "generic" /\ haveAdjClose)

(* setUseAdjustedValues(True), before the run.                             *)
UseAdjusted ==
  /\ Running /\ ~started /\ ~useAdjusted
  /\ IF BarsHaveAdjClose THEN useAdjusted' = TRUE /\ UNCHANGED failure
     ELSE failure' = "no adjusted close" /\ UNCHANGED useAdjusted
  /\ UNCHANGED <<format, bars, nextPos, started, currDateTime, fix, haveAdjClose, db, loads, resets, read, emitted>>

Start ==
  /\ Running /\ ~started /\ started' = TRUE
  /\ UNCHANGED <<format, bars, nextPos, currDateTime, fix, haveAdjClose, useAdjusted, db, loads,
                 resets, read, emitted, failure>>

(* The instruments that have bars left, and the next bar of one.           *)
Left == {i \in Names : nextPos[i] <= Len(bars[i])}
Eof == Left = {}
NextBar(i) == bars[i][nextPos[i]]

(* The second pass of getNextBars.                                         *)
WithBarsAt(smallest) == {i \in Left : NextBar(i).dateTime.at = smallest}

(* BaseFeed.dispatch: getNextBars, the bars are kept as the current ones   *)
(* and are appended to the series, which looks at their adjusted closes.   *)
Dispatch ==
  LET smallest == Min({NextBar(i).dateTime.at : i \in Left})
      now      == WithBarsAt(smallest)
  IN
  /\ Running /\ started /\ ~Eof
  /\ IF Mixed({NextBar(i).dateTime : i \in Left})
     THEN failure' = "naive and aware" /\ UNCHANGED <<nextPos, currDateTime, emitted>>
     ELSE /\ nextPos' = [i \in Names |-> IF i \in now THEN nextPos[i] + 1 ELSE nextPos[i]]
          /\ IF currDateTime = <<smallest>>
             THEN failure' = "duplicate" /\ UNCHANGED <<currDateTime, emitted>>
             ELSE /\ currDateTime' = <<smallest>>
                  /\ failure' = IF useAdjusted /\ \E i \in now : ~NextBar(i).adjClose
                                THEN "not adjusted" ELSE "none"
                  /\ emitted' = Append(emitted, [i \in now |-> NextBar(i)])
  /\ UNCHANGED <<format, bars, started, fix, haveAdjClose, useAdjusted, db, loads, resets, read>>

(* reset: the feed can be gone through again.                              *)
Reset ==
  /\ Running /\ started /\ resets < MaxResets
  /\ resets' = resets + 1
  /\ nextPos' = [i \in Names |-> 1] /\ currDateTime' = <<>> /\ emitted' = <<>>
  /\ UNCHANGED <<format, bars, started, fix, haveAdjClose, useAdjusted, db, loads, read, failure>>

FilesNext ==
  AddGeneric \/ AddYahoo \/ AddGoogle \/ AddNinjaTrader \/ AddBitcoinCharts \/ AddToDatabase \/ LoadBars
  \/ UseAdjusted \/ Start \/ Dispatch \/ Reset

-----------------------------------------------------------------------------
(* Properties *)

AtOnce(k) == {b.dateTime.at : b \in {emitted[k][i] : i \in DOMAIN emitted[k]}}

(* What was loaded from any number of files, in whatever order and with    *)
(* whichever timezones, is dispatched once, in the order of time, with the *)
(* bars of one time together; the feed raises a duplicate only when two    *)
(* bars of an instrument have one datetime, and trades that were read in   *)
(* order never have.                                                       *)
LoadedBarsOnceInOrder ==
  LET inOrder == \A k \in 1 .. Len(read) - 1 : read[k].time <= read[k + 1].time
      conflict(i) == \E a, b \in DOMAIN bars[i] : a # b /\ bars[i][a].dateTime = bars[i][b].dateTime
  IN
  /\ \A k \in DOMAIN emitted : Cardinality(AtOnce(k)) = 1
  /\ \A k \in 2 .. Len(emitted) : Max(AtOnce(k - 1)) < Min(AtOnce(k))
  /\ \A i \in Names :
       LET mine == Picked(emitted, {k \in DOMAIN emitted : i \in DOMAIN emitted[k]}) IN
       Running => [k \in DOMAIN mine |-> mine[k][i]] = SubSeq(bars[i], 1, nextPos[i] - 1)
  /\ failure = "duplicate" => \E i \in Names : conflict(i)
  /\ format = "bitcoincharts" /\ inOrder =>
       \A i \in Names : /\ ~conflict(i)
                        /\ \A k \in 2 .. Len(bars[i]) : bars[i][k - 1].row < bars[i][k].row

=============================================================================
