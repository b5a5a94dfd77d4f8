------------------------------- MODULE Events -------------------------------
(***************************************************************************)
(* observer.Event: handlers are called in the order of subscription, may   *)
(* subscribe, unsubscribe, emit the same event again and raise.  What they *)
(* change while the event is being emitted is deferred to the end of the   *)
(* outermost emission.                                                     *)
(***************************************************************************)
EXTENDS Naturals, SequencesExt

CONSTANTS
  Handlers,
  MaxDepth,   (* bound: emissions within one another                       *)
  MaxChanges  (* bound: calls to subscribe and unsubscribe                 *)

VARIABLES
  handlers,   (* __handlers                                                *)
  deferred,   (* __deferred                                                *)
  emitting,   (* for every emission in progress, how many handlers were    *)
              (* called; its length is __emitting                          *)
  requests    (* history: every change asked for, in order                 *)

eventVars == <<handlers, deferred, emitting, requests>>

Change(action, h) == [action |-> action, handler |-> h]

EventsInit == handlers = <<>> /\ deferred = <<>> /\ emitting = <<>> /\ requests = <<>>

Refused(hs, change) == change.action = "unsubscribe" /\ change.handler \notin ToSet(hs)

(* __subscribeImpl and __unsubscribeImpl.                                  *)
Applied(hs, change) ==
  IF change.action = "unsubscribe" THEN Remove(hs, change.handler)
  ELSE IF change.handler \in ToSet(hs) THEN hs ELSE Append(hs, change.handler)

(* One more change, and all of them in order: remove raises for a handler  *)
(* that is not there, and the changes after it are not made.               *)
AfterChange(before, change) ==
  IF before.failed \/ Refused(before.handlers, change)
  THEN [handlers |-> before.handlers, failed |-> TRUE]
  ELSE [handlers |-> Applied(before.handlers, change), failed |-> FALSE]

AfterChanges(hs, changes) ==
  LET after[i \in 0 .. Len(changes)] ==
        IF i = 0 THEN [handlers |-> hs, failed |-> FALSE]
        ELSE AfterChange(after[i - 1], changes[i])
  IN after[Len(changes)]

(* Mutant: a handler that is subscribed now is not subscribed again, even  *)
(* if it is to be unsubscribed.                                            *)
ChangeChecksNow(change) ==
  /\ requests' = Append(requests, change)
  /\ IF change.action = "subscribe" /\ change.handler \in ToSet(handlers)
     THEN UNCHANGED <<handlers, deferred>>
     ELSE IF emitting # <<>>
     THEN deferred' = Append(deferred, change) /\ UNCHANGED handlers
     ELSE handlers' = AfterChanges(handlers, <<change>>).handlers /\ UNCHANGED deferred

(* subscribe and unsubscribe; outside an emission the one who unsubscribes *)
(* a handler that is not subscribed gets the error.                        *)
MakeChange(change) ==
  /\ requests' = Append(requests, change)
  /\ IF emitting # <<>>
     THEN deferred' = Append(deferred, change) /\ UNCHANGED handlers
     ELSE handlers' = AfterChanges(handlers, <<change>>).handlers /\ UNCHANGED deferred

(* Code of the program runs: in a handler, or outside every emission.      *)
InUserCode == emitting # <<>> => Last(emitting) > 0

Changes ==
  /\ InUserCode /\ Len(requests) < MaxChanges
  /\ \E h \in Handlers, action \in {"subscribe", "unsubscribe"} : MakeChange(Change(action, h))
  /\ UNCHANGED emitting

Emit ==
  /\ InUserCode /\ Len(emitting) < MaxDepth
  /\ emitting' = Append(emitting, 0)
  /\ UNCHANGED <<handlers, deferred, requests>>

CallHandler ==
  /\ emitting # <<>> /\ Last(emitting) < Len(handlers)
  /\ emitting' = [emitting EXCEPT ![Len(emitting)] = @ + 1]
  /\ UNCHANGED <<handlers, deferred, requests>>

(* The end of emit, and __applyChanges: __deferred is emptied only when    *)
(* every change in it could be made.                                       *)
EmitEnds ==
  LET after == AfterChanges(handlers, deferred) IN
  /\ emitting' = Front(emitting)
  /\ IF Len(emitting) > 1 THEN UNCHANGED <<handlers, deferred>>
     ELSE /\ handlers' = after.handlers
          /\ deferred' = IF after.failed THEN deferred ELSE <<>>
  /\ UNCHANGED requests

(* All the handlers were called, or the last one called raised.            *)
EmitReturns == emitting # <<>> /\ Last(emitting) = Len(handlers) /\ EmitEnds
HandlerRaises == emitting # <<>> /\ Last(emitting) > 0 /\ EmitEnds

EventsNext == Changes \/ Emit \/ CallHandler \/ EmitReturns \/ HandlerRaises

EventsSpec == EventsInit /\ [][EventsNext]_eventVars

-----------------------------------------------------------------------------
(* Whoever subscribes or unsubscribes finds it done when no emission is in *)
(* progress, as if it had been done at once and in the order of the calls, *)
(* however emissions were nested and whichever handlers raised; unless a   *)
(* handler that is not subscribed was unsubscribed.                        *)
ChangesTakeEffect ==
  LET all == AfterChanges(<<>>, requests) IN
  emitting = <<>> /\ ~all.failed => handlers = all.handlers /\ deferred = <<>>

=============================================================================
