--------------------------- MODULE EventProfiler ---------------------------
(***************************************************************************)
(* eventprofiler.py: the returns of an instrument before and after some    *)
(* events, while its bars come one by one.  What an event still waits for  *)
(* is kept in futureRets.                                                  *)
(***************************************************************************)
EXTENDS Technical

CONSTANTS
  LookBack, LookForward,  (* of the Profiler                               *)
  EventOccurred(_)        (* Predicate.eventOccurred, of the closes so far *)

ASSUME EventProfilerAssumption == LookBack \in Nat \ {0} /\ LookForward \in Nat \ {0}

Offsets == -LookBack .. LookForward

(* Event: None is nan.                                                     *)
NewEvent == [t \in Offsets |-> None]
IsComplete(event) == \A t \in Offsets : event[t] # None
SetValue(event, t, v) == IF v = None THEN event ELSE [event EXCEPT ![t] = v]

(* One instrument: returns so far, events and the next time of those that  *)
(* wait for returns: a set, since the order of the list does not matter.   *)
Profile0 == [window |-> Window, rets |-> <<>>, events |-> <<>>, futureRets |-> {}]

(* Mutant: the past returns end one bar too early.                         *)
PastReturnsEarly(event, rets) ==
  [t \in Offsets |-> LET i == Len(rets) + t - 1 IN
     IF t <= 0 /\ i \in DOMAIN rets THEN SetValue(event, t, rets[i])[t] ELSE event[t]]

(* __addPastReturns: from LookBack bars before to the bar of the event.    *)
PastReturns(event, rets) ==
  [t \in Offsets |-> LET i == Len(rets) + t IN
     IF t <= 0 /\ i \in DOMAIN rets THEN SetValue(event, t, rets[i])[t] ELSE event[t]]

(* __addCurrentReturns.                                                    *)
CurrentReturns(p) ==
  LET waiting(e) == {f \in p.futureRets : f.event = e}
  IN [p EXCEPT
       !.events = [e \in DOMAIN p.events |->
                     IF waiting(e) = {} THEN p.events[e]
                     ELSE SetValue(p.events[e], (CHOOSE f \in waiting(e) : TRUE).t, Last(p.rets))],
       !.futureRets = {[event |-> f.event, t |-> f.t + 1] : f \in {g \in p.futureRets : g.t < LookForward}}]

(* The close of a bar, in the RateOfChange that is subscribed to its       *)
(* series, and then __onBars.                                              *)
Profile(p, closes) ==
  LET w   == RateOfChange(p.window, Last(closes), 1)
      cur == CurrentReturns([p EXCEPT !.window = w, !.rets = Append(@, w.value)])
  IN IF ~EventOccurred(closes) THEN cur
     ELSE [cur EXCEPT !.events = Append(@, PastReturns(NewEvent, cur.rets)),
                      !.futureRets = @ \cup {[event |-> Len(cur.events) + 1, t |-> 1]}]

(* Results: cumulative returns, normalized to the time of the event.       *)
Normalized(event) ==
  LET cumprod(t) == Product([i \in 1 .. t + LookBack + 1 |-> Plus(event[i - 1 - LookBack], One)])
  IN [t \in Offsets |-> Over(cumprod(t), cumprod(0))]

=============================================================================
