------------------------------ MODULE MCFeeds ------------------------------
(***************************************************************************)
(* Small instances of the feeds: every behaviour is one of the trade feed  *)
(* of Bitstamp, of the feed of tweets, of a feed over stored bars, or of a *)
(* feed over other stored values.                                          *)
(***************************************************************************)
EXTENDS LiveFeeds, StoredFeeds

VARIABLE feed

-----------------------------------------------------------------------------
(* Stored bars: three files, one of them newest first, one with two rows   *)
(* of one time and one with a malformed row; two timezones, an hour apart. *)
(* Other values: the same files, with one column or with two.              *)

Row(time, adjClose, malformed) == [time |-> time, adjClose |-> adjClose, malformed |-> malformed]

TheFiles ==
  { <<Row(2, TRUE, FALSE), Row(1, TRUE, FALSE)>>,
    <<Row(2, FALSE, FALSE), Row(2, TRUE, FALSE), Row(2, FALSE, FALSE)>>,
    <<Row(3, FALSE, FALSE), Row(4, FALSE, TRUE)>> }
TheFilters == {NoFilter, [aware |-> TRUE, from |-> 2, to |-> 3]}
TheOffset(tz) == IF tz = "UTC" THEN 0 ELSE -1
TheColumns == {{"a"}, {"a", "b"}}

-----------------------------------------------------------------------------
FeedsInit ==
  /\ Init /\ Twitter!Init /\ Stored!FilesInit /\ Values!ValuesInit
  /\ feed \in {"bitstamp", "twitter", "stored", "values"}
  /\ feed # "stored" => format = "generic"
  /\ feed # "values" => zone = NoZone

FeedsNext ==
  /\ UNCHANGED feed
  /\ \/ feed = "bitstamp" /\ Next /\ UNCHANGED <<twitter, stored, otherValues>>
     \/ feed = "twitter" /\ Twitter!Next /\ UNCHANGED <<vars, stored, otherValues>>
     \/ feed = "stored" /\ Stored!FilesNext /\ UNCHANGED <<vars, twitter, otherValues>>
     \/ feed = "values" /\ Values!ValuesNext /\ UNCHANGED <<vars, twitter, stored>>

Bitstamp(A) == feed = "bitstamp" /\ A /\ UNCHANGED <<feed, twitter, stored, otherValues>>
Tweeting(A) == feed = "twitter" /\ A /\ UNCHANGED <<feed, vars, stored, otherValues>>

allVars == <<feed, vars, twitter, stored, otherValues>>

FeedsSpec ==
  /\ FeedsInit /\ [][FeedsNext]_allVars
  /\ WF_allVars(Bitstamp(Main)) /\ WF_allVars(Bitstamp(Tick)) /\ WF_allVars(Bitstamp(Closing))
  /\ WF_allVars(Bitstamp(Opens))
  /\ WF_allVars(Tweeting(Twitter!Main)) /\ WF_allVars(Tweeting(Twitter!Disconnected))
=============================================================================
