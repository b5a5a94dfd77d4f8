---------------------------- MODULE MCDispatcher ----------------------------
(***************************************************************************)
(* Small instances of Dispatcher.                                          *)
(***************************************************************************)
EXTENDS Dispatcher

(* Values at one time of a bar, twice at the same time, and none.          *)
MCOtherValues == {<<>>, <<1, 3>>, <<2, 2>>}
=============================================================================
