---------------------------- MODULE StoredFeeds ----------------------------
(***************************************************************************)
(* The two feeds over data that is stored, side by side: bars of files or  *)
(* of a database (BarFiles) and rows with any columns (ValueFeed).         *)
(***************************************************************************)
EXTENDS Integers, Sequences, FiniteSets

CONSTANTS Names, Files, Formats, Zones, NoZone, Offset(_), Filters, NoFilter, DayLength,
          DailyBarTime, Second, Columns, TimeDelta, MaxLoads, MaxResets

(* The rows of a file from one to another have one time; and where rows    *)
(* that follow each other do, they are so few that reading them in every   *)
(* load gives no more than this number of them.                            *)
AtOneTime(file, from, to) == \A k \in from .. to : file[k].time = file[from].time
FewAtOneTime(file, most) ==
  \A j, k \in DOMAIN file : j <= k /\ AtOneTime(file, j, k) => (k - j + 1) * MaxLoads <= most

(* Rows of files and the filters of dates have the fields that their       *)
(* parsers and constructors require; and the trades of one second that may *)
(* follow each other are no more than its microseconds, since UnixTimeFix  *)
(* moves each of them by one.  Nothing bounds how many trades there are.   *)
ASSUME StoredAssumption ==
  /\ IsFiniteSet(Names)
  /\ \A file \in Files : file \in Seq([time : Nat, adjClose : BOOLEAN, malformed : BOOLEAN])
  /\ \A zone \in Zones : Offset(zone) \in Int
  /\ \A filter \in Filters : filter # NoFilter => filter \in [aware : BOOLEAN, from : Int, to : Int]
  /\ DayLength \in Nat \ {0} /\ DailyBarTime \in Int /\ Second \in Nat /\ TimeDelta \in Int
  /\ MaxLoads \in Nat /\ \A file \in Files : FewAtOneTime(file, Second)

VARIABLES format, bars, nextPos, started, currDateTime, fix, haveAdjClose, useAdjusted, db,
          loads, resets, read, barsEmitted, failure

Stored == INSTANCE BarFiles WITH emitted <- barsEmitted
stored == <<format, bars, nextPos, started, currDateTime, fix, haveAdjClose, useAdjusted, db,
            loads, resets, read, barsEmitted, failure>>

VARIABLES zone, timeDelta, rowFilter, values, nextIdx, inProgress, series, valueLoads,
          valueResets, kept, late, raised

Values == INSTANCE ValueFeed WITH
  running <- inProgress, loads <- valueLoads, resets <- valueResets, failure <- raised
otherValues == <<zone, timeDelta, rowFilter, values, nextIdx, inProgress, series, valueLoads,
                 valueResets, kept, late, raised>>

StoredInit == Stored!FilesInit /\ Values!ValuesInit
StoredNext ==
  \/ Stored!FilesNext /\ UNCHANGED otherValues
  \/ Values!ValuesNext /\ UNCHANGED stored

StoredSpec == StoredInit /\ [][StoredNext]_<<stored, otherValues>>

(* What was loaded from files is dispatched once, in the order of time; see *)
(* BarFiles and ValueFeed.                                                 *)
LoadedOnceInOrder == Stored!LoadedBarsOnceInOrder /\ Values!ValuesOnceInOrder
=============================================================================
