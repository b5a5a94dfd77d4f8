---------------------------- MODULE TwitterFeed ----------------------------
(***************************************************************************)
(* twitter/feed.py in the loop of the Dispatcher: a thread puts the tweets *)
(* of a stream in a queue, and the main thread emits them, a limited       *)
(* number in every turn, until the stream has ended (eof) or it is asked   *)
(* to stop.                                                                *)
(***************************************************************************)
EXTENDS Integers, Sequences

CONSTANTS
  MaxEventsPerDispatch,  (* TwitterFeed.MAX_EVENTS_PER_DISPATCH            *)
  MaxTweets              (* bound: tweets received                         *)

VARIABLES
  phase,       (* where the main thread is                                 *)
  thread,      (* TwitterFeed.__thread                                     *)
  running,     (* TwitterFeed.__running                                    *)
  disconnect,  (* stream.disconnect was called                             *)
  tweets,      (* TwitterFeed.__queue                                      *)
  left,        (* dispatched in dispatch: events left in this turn         *)
  arrived,     (* history: tweets received                                 *)
  emitted      (* history: tweets emitted                                  *)

vars == <<phase, thread, running, disconnect, tweets, left, arrived, emitted>>

Init ==
  /\ phase = "start" /\ thread = "none" /\ running = FALSE /\ disconnect = FALSE
  /\ tweets = <<>> /\ left = 0 /\ arrived = 0 /\ emitted = <<>>

(* Listener.on_data.                                                       *)
OnData ==
  /\ thread = "running" /\ arrived < MaxTweets
  /\ arrived' = arrived + 1 /\ tweets' = Append(tweets, arrived')
  /\ UNCHANGED <<phase, thread, running, disconnect, left, emitted>>

(* __threadMain: filter returns or raises, by itself or once disconnected. *)
FilterEnds ==
  /\ thread = "running"
  /\ thread' = "ended" /\ running' = FALSE
  /\ UNCHANGED <<phase, disconnect, tweets, left, arrived, emitted>>

(* start: the thread first, the flag after it.                             *)
StartThread ==
  /\ phase = "start"
  /\ thread' = "running" /\ phase' = "started"
  /\ UNCHANGED <<running, disconnect, tweets, left, arrived, emitted>>

SetRunning ==
  /\ phase = "started"
  /\ running' = TRUE /\ phase' = "turn"
  /\ UNCHANGED <<thread, disconnect, tweets, left, arrived, emitted>>

(* Dispatcher.__dispatch: eof looks at the flag, not at the queue.         *)
BeginDispatch ==
  /\ phase = "turn"
  /\ IF running
     THEN phase' = "dispatch" /\ left' = MaxEventsPerDispatch
     ELSE phase' = "stop" /\ UNCHANGED left
  /\ UNCHANGED <<thread, running, disconnect, tweets, arrived, emitted>>

(* Mutant: the tweet taken after the limit is not emitted.                 *)
DropsAtLimit ==
  /\ phase = "dispatch" /\ tweets # <<>>
  /\ tweets' = Tail(tweets)
  /\ IF left > 0
     THEN left' = left - 1 /\ emitted' = Append(emitted, Head(tweets)) /\ UNCHANGED phase
     ELSE phase' \in {"turn", "stop"} /\ UNCHANGED <<left, emitted>>
  /\ UNCHANGED <<thread, running, disconnect, arrived>>

(* __dispatchImpl comes before the limit is looked at.  The handlers of    *)
(* the tweet may ask the Dispatcher to stop, which it does after the turn. *)
EmitTweet ==
  /\ phase = "dispatch" /\ tweets # <<>>
  /\ emitted' = Append(emitted, Head(tweets)) /\ tweets' = Tail(tweets)
  /\ IF left > 0
     THEN left' = left - 1 /\ UNCHANGED phase
     ELSE phase' \in {"turn", "stop"} /\ UNCHANGED left
  /\ UNCHANGED <<thread, running, disconnect, arrived>>

(* queue.Empty.                                                            *)
NoTweet ==
  /\ phase = "dispatch" /\ tweets = <<>>
  /\ phase' \in {"turn", "stop"}
  /\ UNCHANGED <<thread, running, disconnect, tweets, left, arrived, emitted>>

(* stop: the stream of a thread that is alive is disconnected.             *)
Stop ==
  /\ phase = "stop"
  /\ disconnect' = (disconnect \/ thread = "running") /\ phase' = "join"
  /\ UNCHANGED <<thread, running, tweets, left, arrived, emitted>>

(* join; then it asserts that the feed is not running.                     *)
Join ==
  /\ phase = "join" /\ thread # "running"
  /\ phase' = "over"
  /\ UNCHANGED <<thread, running, disconnect, tweets, left, arrived, emitted>>

Main == \/ StartThread \/ SetRunning \/ BeginDispatch \/ EmitTweet \/ NoTweet
        \/ Stop \/ Join

Next == Main \/ OnData \/ FilterEnds

(* tweepy leaves filter after a call of disconnect.                        *)
Disconnected == disconnect /\ FilterEnds

Spec == Init /\ [][Next]_vars /\ WF_vars(Main) /\ WF_vars(Disconnected)

-----------------------------------------------------------------------------
(* Properties *)

(* Tweets are emitted in the order they arrive, each of them once, and a   *)
(* turn that reached its limit leaves the rest for the next one.           *)
TweetsInOrder == emitted \o tweets = [i \in 1 .. arrived |-> i]

=============================================================================
