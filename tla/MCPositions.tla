---------------------------- MODULE MCPositions -----------------------------
(***************************************************************************)
(* Small instances of Positions.                                           *)
(***************************************************************************)
EXTENDS Positions

(* A strategy that acts in onBars and in the callbacks about positions.    *)
PositionCallbacks == Callbacks \ {"onOrderUpdated"}
EveryCallback     == Callbacks
BothSides == {1, -1}
LongOnly  == {1}
=============================================================================
