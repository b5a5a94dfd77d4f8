---------------------------- MODULE MCOptimizer -----------------------------
(***************************************************************************)
(* A small instance of Optimizer: five results, the first and the last of  *)
(* runs that fail.                                                         *)
(***************************************************************************)
EXTENDS Optimizer

MixedResults == <<None, 3, 1, 2, None>>
=============================================================================
