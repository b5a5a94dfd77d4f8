---------------------------- MODULE MCLiveBroker ----------------------------
(***************************************************************************)
(* Small instances of LiveBroker.                                          *)
(***************************************************************************)
EXTENDS LiveBroker

OnFills   == {"events", "filled"}
EverySite == HandlerStages
=============================================================================
