------------------------------ MODULE MCStudies ------------------------------
(***************************************************************************)
(* Small instances of what observes a run: every behaviour is one of the   *)
(* indicators and series over the bars (Studies), one of the analyzers of  *)
(* a strategy (Analyzers), or one of the event that they are all notified  *)
(* with (Events).                                                          *)
(***************************************************************************)
EXTENDS Studies, Analyzers, Events

VARIABLE subject

StudiesInit ==
  /\ Init /\ AnalyzersInit /\ EventsInit
  /\ subject \in {"studies", "analyzers", "events"}

StudiesNext ==
  /\ UNCHANGED subject
  /\ \/ subject = "studies" /\ Next /\ UNCHANGED <<analyzersVars, eventVars>>
     \/ subject = "analyzers" /\ AnalyzersNext /\ UNCHANGED <<vars, eventVars>>
     \/ subject = "events" /\ EventsNext /\ UNCHANGED <<vars, analyzersVars>>

StudiesSpec == StudiesInit /\ [][StudiesNext]_<<subject, vars, analyzersVars, eventVars>>

-----------------------------------------------------------------------------
(* The instance *)

BarsOf(i) ==
  IF i = Second THEN {Bar(3, 4, 1, 3, 1)}
  ELSE {Bar(2, 2, 1, 2, 1), Bar(2, 4, 2, 3, 2), Bar(1, 5, 1, 4, 1), Bar(3, 3, 1, 1, 3)}
MaxTimeOf(i) == IF i = First THEN 5 ELSE 2
TheWeights == <<1, 2, 3>>
NotFalling(closeSeq) ==
  Len(closeSeq) > 1 /\ ~Below(Last(closeSeq), closeSeq[Len(closeSeq) - 1])

(* Executions that open, extend, reduce, close and reverse a position.     *)
Execution(quantity, price, commission) ==
  [quantity |-> quantity, price |-> Q(price), commission |-> Q(commission)]
TheFills == {Execution(1, 1, 0), Execution(2, 2, 1), Execution(-1, 3, 1), Execution(-3, 2, 1)}
ThePrices == {Q(1), Q(3)}
=============================================================================
