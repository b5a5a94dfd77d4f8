----------------------------- MODULE ValueFeed -----------------------------
(***************************************************************************)
(* feed/csvfeed.py over feed/memfeed.py: rows of CSV files with any        *)
(* columns, all in one list.  Each row dispatched is an event, and each of *)
(* its values goes to the series of its column, which takes values in      *)
(* order only.  Nothing keeps the program from loading more after start,   *)
(* which is when the list is sorted.                                       *)
(***************************************************************************)
EXTENDS SequencesExt, Sorting

CONSTANTS
  Files,         (* sequences of rows [time, malformed]                    *)
  Columns,       (* of the files: sets of names                            *)
  Zones, NoZone, Offset(_),   (* timezones and how far they are from UTC   *)
  Filters, NoFilter,  (* [aware, from, to], for DateRangeFilter            *)
  TimeDelta,     (* what setTimeDelta may be told                          *)
  MaxLoads, MaxResets  (* bounds                                           *)

VARIABLES
  zone,          (* of the BasicRowParser                                  *)
  timeDelta, rowFilter,
  values,        (* MemFeed.__values                                       *)
  nextIdx,
  running,       (* start was called, and reset was not since              *)
  series,        (* the values in the DataSeries of every column           *)
  loads, resets,
  kept,          (* history: how many values were kept while loading       *)
  late,          (* history: the values kept while running                 *)
  failure        (* what was raised                                        *)

vars == <<zone, timeDelta, rowFilter, values, nextIdx, running, series, loads, resets,
          kept, late, failure>>

ColumnNames == UNION Columns

ValuesInit ==
  /\ zone \in Zones /\ timeDelta = 0 /\ rowFilter = NoFilter
  /\ values = <<>> /\ nextIdx = 1 /\ running = FALSE
  /\ series = [c \in ColumnNames |-> <<>>]
  /\ loads = 0 /\ resets = 0 /\ kept = 0 /\ late = {} /\ failure = "none"

Fails == failure # "none"

-----------------------------------------------------------------------------
(* BasicRowParser.parseRow: the delta is for times that get a timezone.    *)
ParseRow(row) == IF zone = NoZone THEN row.time ELSE row.time + timeDelta - Offset(zone)

IncludeRow(at) == rowFilter = NoFilter \/ (rowFilter.from <= at /\ at <= rowFilter.to)

(* A row cannot be parsed, or is compared with a filter of the other kind  *)
(* of datetimes.                                                           *)
RowRaises(file) ==
  \/ \E k \in DOMAIN file : file[k].malformed
  \/ rowFilter # NoFilter /\ rowFilter.aware # (zone # NoZone)

(* BaseFeed.addValuesFromCSV, and MemFeed.addValues, which looks for the   *)
(* columns in the first of the values.                                     *)
AddValuesFromCSV ==
  \E file \in Files, columns \in Columns :
    LET at  == [k \in DOMAIN file |-> ParseRow(file[k])]
        new == Picked(at, {k \in DOMAIN at : IncludeRow(at[k])})
    IN
    /\ ~Fails /\ loads < MaxLoads
    /\ loads' = loads + 1
    /\ failure' = IF RowRaises(file) THEN "row" ELSE IF new = <<>> THEN "nothing" ELSE "none"
    /\ IF failure' # "none" THEN UNCHANGED <<values, kept, late>>
       ELSE /\ values' = values \o [k \in DOMAIN new |->
                                       [at |-> new[k], columns |-> columns, id |-> kept + k]]
            /\ kept' = kept + Len(new)
            /\ late' = IF running THEN late \cup (kept + 1 .. kept') ELSE late
    /\ UNCHANGED <<zone, timeDelta, rowFilter, nextIdx, running, series, resets>>

SetDateRange ==
  /\ ~Fails /\ loads < MaxLoads /\ rowFilter' \in Filters
  /\ UNCHANGED <<zone, timeDelta, values, nextIdx, running, series, loads, resets, kept, late, failure>>

SetTimeDelta ==
  /\ ~Fails /\ loads < MaxLoads /\ timeDelta' = TimeDelta
  /\ UNCHANGED <<zone, rowFilter, values, nextIdx, running, series, loads, resets, kept, late, failure>>

-----------------------------------------------------------------------------
(* MemFeed.start.                                                          *)
Start ==
  /\ ~Fails /\ ~running
  /\ running' = TRUE /\ late' = {}
  /\ values' = SortedBy(values, [k \in DOMAIN values |-> values[k].at])
  /\ UNCHANGED <<zone, timeDelta, rowFilter, nextIdx, series, loads, resets, kept, failure>>

Eof == nextIdx > Len(values)

(* SequenceDataSeries.appendWithDateTime.                                  *)
Accepts(c, at) == series[c] = <<>> \/ Last(series[c]).at < at

(* BaseFeed.getNextValuesAndUpdateDS goes through the columns in any order *)
(* until a series raises.                                                  *)
UpdateDS(value) ==
  LET append(cs) == [c \in ColumnNames |->
                       IF c \in cs THEN Append(series[c], value) ELSE series[c]]
      good       == {c \in value.columns : Accepts(c, value.at)}
  IN IF good = value.columns THEN series' = append(good) /\ UNCHANGED failure
     ELSE /\ \E before \in SUBSET good : series' = append(before)
          /\ failure' = "order"

(* BaseFeed.dispatch.                                                      *)
Dispatch ==
  /\ ~Fails /\ running /\ ~Eof
  /\ nextIdx' = nextIdx + 1
  /\ UpdateDS(values[nextIdx])
  /\ UNCHANGED <<zone, timeDelta, rowFilter, values, running, loads, resets, kept, late>>

(* MemFeed.reset and BaseFeed.reset; the series start again.               *)
Reset ==
  /\ ~Fails /\ running /\ resets < MaxResets
  /\ resets' = resets + 1 /\ running' = FALSE
  /\ nextIdx' = 1 /\ series' = [c \in ColumnNames |-> <<>>]
  /\ UNCHANGED <<zone, timeDelta, rowFilter, values, loads, kept, late, failure>>

ValuesNext ==
  AddValuesFromCSV \/ SetDateRange \/ SetTimeDelta \/ Start \/ Dispatch \/ Reset

-----------------------------------------------------------------------------
(* Every value that was kept is in the list once; what was dispatched is   *)
(* in the series of its columns, in the order of time whatever order the   *)
(* files were in; and a series refuses a value only if another one of its  *)
(* column has the same datetime, or if more was loaded during the run.     *)
ValuesOnceInOrder ==
  /\ {values[k].id : k \in DOMAIN values} = 1 .. Len(values) /\ Len(values) = kept
  /\ \A c \in ColumnNames : \A k \in 2 .. Len(series[c]) : series[c][k - 1].at < series[c][k].at
  /\ ~Fails => \A c \in ColumnNames :
       LET done == SubSeq(values, 1, nextIdx - 1) IN
       series[c] = Picked(done, {k \in DOMAIN done : c \in done[k].columns})
  /\ failure = "order" /\ late = {} =>
       \E a, b \in DOMAIN values :
         a # b /\ values[a].at = values[b].at /\ values[a].columns \cap values[b].columns # {}

=============================================================================
