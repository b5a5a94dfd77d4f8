----------------------------- MODULE LiveFeeds -----------------------------
(***************************************************************************)
(* The two feeds with a thread of their own, side by side: the trades of   *)
(* Bitstamp (LiveTradeFeed) and the tweets of a stream (TwitterFeed).      *)
(***************************************************************************)
EXTENDS LiveTradeFeed

CONSTANTS MaxEventsPerDispatch, MaxTweets

VARIABLES phase, thread, running, disconnect, tweets, left, arrived, emitted

Twitter == INSTANCE TwitterFeed
twitter == <<phase, thread, running, disconnect, tweets, left, arrived, emitted>>

(* TwitterFeed's TweetsInOrder: what arrives is emitted once, in order.    *)
TweetsInOrder == Twitter!TweetsInOrder
=============================================================================
