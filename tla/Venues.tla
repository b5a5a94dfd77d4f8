------------------------------- MODULE Venues -------------------------------
(***************************************************************************)
(* The two brokers for backtesting: a strategy trades with the broker of   *)
(* BacktestingBroker or, at the venue "bitstamp", with the one of          *)
(* BitstampBroker in front of it.                                          *)
(***************************************************************************)
EXTENDS BitstampBroker

VARIABLE venue

sessionVars == <<venue, vars, bitstamp>>

SessionsInit == Init /\ BitstampInit /\ venue \in {"any", "bitstamp"}

(* The two brokers differ in how orders are made; the other steps are one. *)
SessionsNext ==
  /\ UNCHANGED venue
  /\ \/ venue = "any" /\ (\E t \in Tickets : SubmitOrder(t)) /\ UNCHANGED bitstamp
     \/ venue = "bitstamp" /\ Ordering
     \/ Inherited

SessionsSpec == SessionsInit /\ [][SessionsNext]_sessionVars

(* The checks of Bitstamp's orders; see BitstampBroker.                    *)
BitstampChecksHold == venue = "bitstamp" => ChecksHoldUntilFilled
=============================================================================
