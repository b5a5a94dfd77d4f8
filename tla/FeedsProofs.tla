---------------------------- MODULE FeedsProofs ----------------------------
(***************************************************************************)
(* The two feeds with a thread of their own.  The feed of trades of        *)
(* Bitstamp, for any timeouts and any faults of the network: trades become *)
(* bars once and in order, a silent server is found out, and one that is   *)
(* not silent is left alone.  The feed of tweets, for any limit of a turn: *)
(* tweets are emitted once and in order.                                   *)
(*                                                                         *)
(* Then the feeds over stored data, for any files, timezones, filters and  *)
(* any number of loads: what was loaded is dispatched once, in the order   *)
(* of time.                                                                *)
(***************************************************************************)
EXTENDS LiveFeeds, StoredFeeds, DataTheorems

TradesOf == [type : {"TRADE"}, id : Nat, dateTime : Nat]
EventsOf == TradesOf \cup {Connected, Disconnected}

(* Every variable holds a value of its kind.                               *)
TypeOK ==
  /\ stage \in Stages
  /\ connected \in BOOLEAN /\ stopped \in BOOLEAN /\ asked \in BOOLEAN
  /\ barDicts \in Seq(TradesOf) /\ queue \in Seq(EventsOf)
  /\ prevTrade \in Nat /\ current \in Nat /\ clock \in Nat /\ faults \in Nat
  /\ link \in {"none", "connecting", "open", "closing", "dead"}
  /\ cut \in BOOLEAN /\ subscribed \in BOOLEAN /\ unanswered \in BOOLEAN
  /\ idle \in Ages /\ heard \in Ages /\ kaSent \in Ages \cup {Never}
  /\ received \in Nat /\ dispatched \in Seq(Nat)

(* While a connection is open a keep-alive was sent as soon as nothing had *)
(* come for too long, and nothing has come since.                          *)
KeepAlive ==
  link = "open" =>
    /\ heard = idle
    /\ kaSent = Never => idle <= MaxInactivity
    /\ kaSent # Never => kaSent <= ResponseTimeout /\ idle = MaxInactivity + 1 + kaSent

(* A client says once that it is connected, and the main thread that       *)
(* dispatches has heard it.                                                *)
NoneConnected(events) == \A j \in DOMAIN events : events[j] # Connected
OnceConnected(events) ==
  \A j, k \in DOMAIN events : events[j] = Connected /\ events[k] = Connected => j = k

Hears ==
  /\ stage = "start" => ~connected /\ link = "none" /\ queue = <<>>
  /\ link = "none" => stage = "start"
  /\ stage = "sleeping" => ~connected /\ link = "dead"
  /\ stage \in {"dispatch", "bars", "handler"} /\ ~stopped => connected
  /\ stopped => stage \notin Waiting \cup {"start", "sleeping"}
  /\ connected \/ stage \in {"dispatch", "bars", "handler"} => subscribed /\ NoneConnected(queue)
  /\ ~subscribed => NoneConnected(queue)
  /\ OnceConnected(queue)

(* The trades dispatched, those waiting as bars and those that are to be   *)
(* taken from the queue are the ones of a sequence.                        *)
TradesAre(r) ==
  /\ stage \notin {"sleeping", "stop", "join", "over"} =>
       dispatched \o Ids(barDicts) \o Ids(Deliverable(queue)) = r
  /\ stage = "sleeping" => dispatched \o Ids(barDicts) = r

(* And these are all that came and were not missed, in order.              *)
Trades ==
  /\ missed \subseteq 1 .. received
  /\ \E r \in Seq(Nat) : Enumerates(r, (1 .. received) \ missed) /\ TradesAre(r)

IInv == TypeOK /\ KeepAlive /\ Hears /\ Trades

-----------------------------------------------------------------------------
(* The queue *)

(* What the main thread takes of a queue.                                  *)
Taken(events, heardOf) ==
  LET start == IF heardOf THEN 0 ELSE Min({i \in DOMAIN events : events[i] = Connected} \cup {Len(events)})
      ends  == {i \in start + 1 .. Len(events) : events[i] = Disconnected}
  IN SubSeq(events, start + 1, Min(ends \cup {Len(events) + 1}) - 1)

(* It is what lies between the CONNECTED and the next DISCONNECTED.        *)
Between(events, heardOf, a, b) ==
  /\ a \in 0 .. Len(events) /\ b \in a + 1 .. Len(events) + 1
  /\ heardOf => a = 0
  /\ ~heardOf => /\ a = Len(events) \/ (a \in 1 .. Len(events) /\ events[a] = Connected)
                 /\ \A j \in 1 .. a - 1 : events[j] # Connected
  /\ \A j \in a + 1 .. b - 1 : events[j] # Disconnected
  /\ b = Len(events) + 1 \/ events[b] = Disconnected

(* The smallest of some numbers, if it is known.                           *)
LEMMA MinKnown ==
  ASSUME NEW S \in SUBSET Nat, NEW m \in S, \A k \in S : m <= k
  PROVE  Min(S) = m
<1>1. Min(S) \in S /\ Min(S) <= m
  BY MinIs
<1>2. Min(S) \in Nat /\ m \in Nat /\ m <= Min(S)
  BY <1>1
<1> QED BY <1>1, <1>2

(* Where what is taken lies determines it.                                 *)
LEMMA TakenIs ==
  ASSUME NEW q \in Seq(EventsOf), NEW h \in BOOLEAN, NEW a, NEW b, Between(q, h, a, b)
  PROVE  Taken(q, h) = SubSeq(q, a + 1, b - 1)
<1>1. PICK n \in Nat : n = Len(q) /\ DOMAIN q = 1 .. n
  BY LenProperties
<1>2. a \in 0 .. n /\ b \in a + 1 .. n + 1 /\ a \in Nat /\ b \in Nat
  BY <1>1 DEF Between
<1>3. (IF h THEN 0 ELSE Min({i \in DOMAIN q : q[i] = Connected} \cup {Len(q)})) = a
  <2>1. CASE h
    BY <2>1 DEF Between
  <2>2. CASE ~h
    <3>1. PICK S \in SUBSET Nat : S = {i \in 1 .. n : q[i] = Connected} \cup {n}
      <4>1. ({i \in 1 .. n : q[i] = Connected} \cup {n}) \in SUBSET Nat
        BY <1>1
      <4> QED BY <4>1
    <3>2. a \in S
      BY <1>1, <2>2, <3>1 DEF Between
    <3>3. \A k \in S : a <= k
      <4>1. \A j \in 1 .. a - 1 : q[j] # Connected
        BY <2>2 DEF Between
      <4>2. SUFFICES ASSUME NEW k \in S, k < a PROVE FALSE
        BY <1>2
      <4>3. k \in 1 .. n /\ q[k] = Connected
        BY <1>2, <3>1, <4>2
      <4> QED BY <1>2, <4>1, <4>2, <4>3
    <3>4. Min(S) = a
      BY <3>2, <3>3, MinKnown
    <3> QED BY <1>1, <2>2, <3>1, <3>4
  <2> QED BY <2>1, <2>2
<1>4. Min({i \in a + 1 .. Len(q) : q[i] = Disconnected} \cup {Len(q) + 1}) = b
  <2>1. PICK S \in SUBSET Nat : S = {i \in a + 1 .. n : q[i] = Disconnected} \cup {n + 1}
    <3>1. ({i \in a + 1 .. n : q[i] = Disconnected} \cup {n + 1}) \in SUBSET Nat
      BY <1>1, <1>2
    <3> QED BY <3>1
  <2>2. b \in S
    BY <1>1, <1>2, <2>1 DEF Between
  <2>3. \A k \in S : b <= k
    <3>1. \A j \in a + 1 .. b - 1 : q[j] # Disconnected
      BY DEF Between
    <3>2. SUFFICES ASSUME NEW k \in S, k < b PROVE FALSE
      BY <1>2
    <3>3. k \in a + 1 .. n /\ q[k] = Disconnected
      BY <1>2, <2>1, <3>2
    <3> QED BY <1>2, <3>1, <3>2, <3>3
  <2>4. Min(S) = b
    BY <2>2, <2>3, MinKnown
  <2> QED BY <1>1, <2>1, <2>4
<1> QED BY <1>3, <1>4 DEF Taken

(* There is always such a place, even if it is empty.                      *)
LEMMA BetweenExists ==
  ASSUME NEW q \in Seq(EventsOf), NEW h \in BOOLEAN
  PROVE  \E a, b : Between(q, h, a, b)
<1>1. PICK n \in Nat : n = Len(q) /\ DOMAIN q = 1 .. n
  BY LenProperties
<1>2. PICK a \in 0 .. n :
        /\ h => a = 0
        /\ ~h => /\ a = n \/ (a \in 1 .. n /\ q[a] = Connected)
                 /\ \A j \in 1 .. a - 1 : q[j] # Connected
  <2>1. CASE h
    BY <2>1
  <2>2. CASE ~h
    <3>1. PICK S \in SUBSET Nat : S = {i \in 1 .. n : q[i] = Connected} \cup {n}
      <4>1. ({i \in 1 .. n : q[i] = Connected} \cup {n}) \in SUBSET Nat
        OBVIOUS
      <4> QED BY <4>1
    <3>2. PICK m \in S : \A k \in S : m <= k
      BY <3>1, LeastNatural
    <3>3. m \in 0 .. n /\ (m = n \/ (m \in 1 .. n /\ q[m] = Connected))
      BY <3>1
    <3>4. ASSUME NEW j \in 1 .. m - 1 PROVE q[j] # Connected
      <4>1. j \in 1 .. n /\ j < m
        BY <3>3
      <4> QED BY <3>1, <3>2, <4>1
    <3> QED BY <2>2, <3>3, <3>4
  <2> QED BY <2>1, <2>2
<1>3. PICK S \in SUBSET Nat : S = {i \in a + 1 .. n : q[i] = Disconnected} \cup {n + 1}
  <2>1. ({i \in a + 1 .. n : q[i] = Disconnected} \cup {n + 1}) \in SUBSET Nat
    OBVIOUS
  <2> QED BY <2>1
<1>4. PICK b \in S : \A k \in S : b <= k
  BY <1>3, LeastNatural
<1>5. b \in a + 1 .. n + 1 /\ (b = n + 1 \/ q[b] = Disconnected)
  BY <1>3
<1>6. ASSUME NEW j \in a + 1 .. b - 1 PROVE q[j] # Disconnected
  <2>1. j \in a + 1 .. n /\ j < b
    BY <1>5
  <2> QED BY <1>3, <1>4, <2>1
<1>7. Between(q, h, a, b)
  BY <1>1, <1>2, <1>5, <1>6 DEF Between
<1> QED BY <1>7

(* What is taken once CONNECTED was heard.                                 *)
LEMMA TakenHearing ==
  ASSUME NEW q \in Seq(EventsOf), NEW a, NEW b, Between(q, TRUE, a, b)
  PROVE  Taken(q, TRUE) = SubSeq(q, a + 1, b - 1)
<1>1. PICK h \in BOOLEAN : h = TRUE
  OBVIOUS
<1>2. Between(q, h, a, b)
  BY <1>1
<1>3. Taken(q, h) = SubSeq(q, a + 1, b - 1)
  BY <1>2, TakenIs
<1> QED BY <1>1, <1>3

(* What is taken before CONNECTED was heard.                               *)
LEMMA TakenWaiting ==
  ASSUME NEW q \in Seq(EventsOf), NEW a, NEW b, Between(q, FALSE, a, b)
  PROVE  Taken(q, FALSE) = SubSeq(q, a + 1, b - 1)
<1>1. PICK h \in BOOLEAN : h = FALSE
  OBVIOUS
<1>2. Between(q, h, a, b)
  BY <1>1
<1>3. Taken(q, h) = SubSeq(q, a + 1, b - 1)
  BY <1>2, TakenIs
<1> QED BY <1>1, <1>3

(* A part of a sequence is found in another one, some places before it.    *)
LEMMA SamePart ==
  ASSUME NEW S, NEW s \in Seq(S), NEW t \in Seq(S), NEW d \in Nat, NEW m \in Nat, NEW n \in Nat,
         m - d >= 1, n <= Len(s), n - d <= Len(t), \A i \in m .. n : s[i] = t[i - d]
  PROVE  SubSeq(s, m, n) = SubSeq(t, m - d, n - d)
<1>1. PICK ls \in Nat, lt \in Nat : ls = Len(s) /\ lt = Len(t)
  BY LenProperties
<1>2. \A i \in m .. n : s[i] \in S
  BY <1>1, ElementOfSeq
<1>3. \A i \in m - d .. n - d : t[i] \in S
  <2>1. \A i \in m - d .. n - d : i \in 1 .. lt
    BY <1>1
  <2> QED BY <1>1, <2>1, ElementOfSeq
<1>4. PICK x \in Seq(S) : /\ x = SubSeq(s, m, n) /\ Len(x) = (IF m <= n THEN n - m + 1 ELSE 0)
                          /\ \A i \in 1 .. n - m + 1 : x[i] = s[m + i - 1]
  <2>1. /\ SubSeq(s, m, n) \in Seq(S) /\ Len(SubSeq(s, m, n)) = (IF m <= n THEN n - m + 1 ELSE 0)
        /\ \A i \in 1 .. n - m + 1 : SubSeq(s, m, n)[i] = s[m + i - 1]
    BY <1>2, SubSeqProperties
  <2> QED BY <2>1
<1>5. PICK p \in Int, r \in Int : p = m - d /\ r = n - d
  OBVIOUS
<1>6. PICK y \in Seq(S) : /\ y = SubSeq(t, p, r) /\ Len(y) = (IF p <= r THEN r - p + 1 ELSE 0)
                          /\ \A i \in 1 .. r - p + 1 : y[i] = t[p + i - 1]
  <2>1. /\ SubSeq(t, p, r) \in Seq(S) /\ Len(SubSeq(t, p, r)) = (IF p <= r THEN r - p + 1 ELSE 0)
        /\ \A i \in 1 .. r - p + 1 : SubSeq(t, p, r)[i] = t[p + i - 1]
    BY <1>3, <1>5, SubSeqProperties
  <2> QED BY <2>1
<1>7. Len(x) = Len(y)
  BY <1>4, <1>5, <1>6
<1>8. ASSUME NEW i \in 1 .. Len(x) PROVE x[i] = y[i]
  <2>2. Len(x) = (IF m <= n THEN n - m + 1 ELSE 0)
    BY <1>4
  <2>3. m <= n /\ i \in 1 .. n - m + 1
    BY <2>2
  <2>4. r - p + 1 = n - m + 1 /\ m + i - 1 \in m .. n /\ (m + i - 1) - d = p + i - 1
    BY <1>5, <2>3
  <2>1. i \in 1 .. n - m + 1 /\ i \in 1 .. r - p + 1 /\ m + i - 1 \in m .. n /\ (m + i - 1) - d = p + i - 1
    BY <2>3, <2>4
  <2> QED BY <1>4, <1>6, <2>1
<1>9. x = y
  BY <1>7, <1>8, SeqEqual
<1> QED BY <1>4, <1>5, <1>6, <1>9

(* Another event in the queue.                                             *)
LEMMA Appended ==
  ASSUME NEW q \in Seq(EventsOf), NEW e \in EventsOf
  PROVE  \E r \in Seq(EventsOf), n \in Nat :
           /\ r = Append(q, e) /\ n = Len(q) /\ Len(r) = n + 1 /\ r[n + 1] = e
           /\ DOMAIN q = 1 .. n /\ DOMAIN r = 1 .. n + 1 /\ \A i \in 1 .. n : r[i] = q[i]
<1>1. /\ Append(q, e) \in Seq(EventsOf) /\ Len(Append(q, e)) = Len(q) + 1 /\ Append(q, e)[Len(q) + 1] = e
      /\ \A i \in 1 .. Len(q) : Append(q, e)[i] = q[i]
  BY AppendProperties
<1> QED BY <1>1, LenProperties

(* Before it hears CONNECTED the main thread takes nothing.                *)
LEMMA NothingTaken ==
  ASSUME NEW q \in Seq(EventsOf), NoneConnected(q)
  PROVE  Taken(q, FALSE) = <<>>
<1>1. PICK a, b : Between(q, FALSE, a, b)
  BY BetweenExists
<1>2. PICK n \in Nat : n = Len(q) /\ DOMAIN q = 1 .. n
  BY LenProperties
<1>3. a = n /\ b = n + 1
  BY <1>1, <1>2 DEF Between, NoneConnected
<1>4. Taken(q, FALSE) = SubSeq(q, n + 1, n)
  <2>1. (n + 1) - 1 = n
    OBVIOUS
  <2> QED BY <1>1, <1>3, <2>1, TakenWaiting
<1>5. n + 1 \in Int /\ n \in Int /\ n < n + 1
  OBVIOUS
<1>6. SubSeq(q, n + 1, n) = <<>>
  BY <1>5, SubSeqEmpty
<1> QED BY <1>4, <1>6

(* A DISCONNECTED at the end of the queue takes nothing away from what     *)
(* comes before it.                                                        *)
LEMMA AppendDisconnected ==
  ASSUME NEW q \in Seq(EventsOf), NEW h \in BOOLEAN
  PROVE  Taken(Append(q, Disconnected), h) = Taken(q, h)
<1>1. PICK r \in Seq(EventsOf), n \in Nat :
        /\ r = Append(q, Disconnected) /\ n = Len(q) /\ Len(r) = n + 1 /\ r[n + 1] = Disconnected
        /\ DOMAIN q = 1 .. n /\ DOMAIN r = 1 .. n + 1 /\ \A i \in 1 .. n : r[i] = q[i]
  <2>1. Disconnected \in EventsOf
    BY DEF EventsOf
  <2> QED BY <2>1, Appended
<1>2. PICK a, b : Between(q, h, a, b)
  BY BetweenExists
<1>3. a \in 0 .. n /\ b \in a + 1 .. n + 1 /\ a \in Nat /\ b \in Nat
  BY <1>1, <1>2 DEF Between
<1>4. CASE ~h /\ \A j \in 1 .. n : q[j] # Connected
  <2>1. Disconnected # Connected
    BY DEF Disconnected, Connected
  <2>2. \A j \in 1 .. n + 1 : r[j] # Connected
    <3>1. \A j \in 1 .. n + 1 : j \in 1 .. n \/ j = n + 1
      OBVIOUS
    <3> QED BY <1>1, <1>4, <2>1, <3>1
  <2>3. Taken(q, FALSE) = <<>> /\ Taken(r, FALSE) = <<>>
    BY <1>1, <1>4, <2>2, NothingTaken DEF NoneConnected
  <2> QED BY <1>1, <1>4, <2>3
<1>5. CASE h \/ \E j \in 1 .. n : q[j] = Connected
  <2>1. ~h => a \in 1 .. n /\ q[a] = Connected
    BY <1>1, <1>2, <1>3, <1>5 DEF Between
  <2>2. b = n + 1 \/ (b \in 1 .. n /\ q[b] = Disconnected)
    BY <1>1, <1>2, <1>3 DEF Between
  <2>3. /\ a \in 0 .. n + 1 /\ b \in a + 1 .. (n + 1) + 1
        /\ b = (n + 1) + 1 \/ r[b] = Disconnected
    BY <1>1, <1>3, <2>2
  <2>4. ~h => a \in 1 .. n + 1 /\ r[a] = Connected /\ \A j \in 1 .. a - 1 : r[j] # Connected
    <3>1. ~h => \A j \in 1 .. a - 1 : j \in 1 .. n /\ q[j] # Connected
      BY <1>2, <1>3 DEF Between
    <3> QED BY <1>1, <1>3, <2>1, <3>1
  <2>5. \A j \in a + 1 .. b - 1 : r[j] # Disconnected
    <3>1. \A j \in a + 1 .. b - 1 : j \in 1 .. n /\ q[j] # Disconnected
      BY <1>2, <1>3 DEF Between
    <3> QED BY <1>1, <3>1
  <2>6. Between(r, h, a, b)
    BY <1>1, <1>2, <2>3, <2>4, <2>5 DEF Between
  <2>7. Taken(r, h) = SubSeq(r, a + 1, b - 1) /\ Taken(q, h) = SubSeq(q, a + 1, b - 1)
    BY <1>2, <2>6, TakenIs
  <2>8. SubSeq(r, a + 1, b - 1) = SubSeq(q, (a + 1) - 0, (b - 1) - 0)
    <3>1. /\ a + 1 \in Nat /\ b - 1 \in Nat /\ (a + 1) - 0 >= 1 /\ b - 1 <= Len(r) /\ (b - 1) - 0 <= Len(q)
          /\ \A i \in a + 1 .. b - 1 : i - 0 = i /\ i \in 1 .. n
      BY <1>1, <1>3
    <3>2. \A i \in a + 1 .. b - 1 : r[i] = q[i - 0]
      BY <1>1, <3>1
    <3> QED BY <3>1, <3>2, SamePart
  <2>9. (a + 1) - 0 = a + 1 /\ (b - 1) - 0 = b - 1
    BY <1>3
  <2> QED BY <1>1, <2>7, <2>8, <2>9
<1> QED BY <1>4, <1>5

(* A trade is taken if what precedes it is heard and no DISCONNECTED is in *)
(* between.                                                                *)
LEMMA AppendTrade ==
  ASSUME NEW q \in Seq(EventsOf), NEW h \in BOOLEAN, NEW t \in TradesOf
  PROVE  Taken(Append(q, t), h) = Taken(q, h) \/ Taken(Append(q, t), h) = Append(Taken(q, h), t)
<1>1. PICK r \in Seq(EventsOf), n \in Nat :
        /\ r = Append(q, t) /\ n = Len(q) /\ Len(r) = n + 1 /\ r[n + 1] = t
        /\ DOMAIN q = 1 .. n /\ DOMAIN r = 1 .. n + 1 /\ \A i \in 1 .. n : r[i] = q[i]
  <2>1. t \in EventsOf
    BY DEF EventsOf
  <2> QED BY <2>1, Appended
<1>2. PICK a, b : Between(q, h, a, b)
  BY BetweenExists
<1>3. a \in 0 .. n /\ b \in a + 1 .. n + 1 /\ a \in Nat /\ b \in Nat
  BY <1>1, <1>2 DEF Between
<1>4. t # Connected /\ t # Disconnected
  BY DEF TradesOf, Connected, Disconnected
<1>5. CASE ~h /\ \A j \in 1 .. n : q[j] # Connected
  <2>1. \A j \in 1 .. n + 1 : r[j] # Connected
    <3>1. \A j \in 1 .. n + 1 : j \in 1 .. n \/ j = n + 1
      OBVIOUS
    <3> QED BY <1>1, <1>4, <1>5, <3>1
  <2>2. Taken(q, FALSE) = <<>> /\ Taken(r, FALSE) = <<>>
    BY <1>1, <1>5, <2>1, NothingTaken DEF NoneConnected
  <2> QED BY <1>1, <1>5, <2>2
<1>6. CASE h \/ \E j \in 1 .. n : q[j] = Connected
  <2>1. ~h => a \in 1 .. n /\ q[a] = Connected
    BY <1>1, <1>2, <1>3, <1>6 DEF Between
  <2>2. b = n + 1 \/ (b \in 1 .. n /\ q[b] = Disconnected)
    BY <1>1, <1>2, <1>3 DEF Between
  <2>3. ~h => a \in 1 .. n + 1 /\ r[a] = Connected /\ \A j \in 1 .. a - 1 : r[j] # Connected
    <3>1. ~h => \A j \in 1 .. a - 1 : j \in 1 .. n /\ q[j] # Connected
      BY <1>2, <1>3 DEF Between
    <3> QED BY <1>1, <1>3, <2>1, <3>1
  <2>4. \A j \in a + 1 .. b - 1 : j \in 1 .. n /\ r[j] # Disconnected
    <3>1. \A j \in a + 1 .. b - 1 : j \in 1 .. n /\ q[j] # Disconnected
      BY <1>2, <1>3 DEF Between
    <3> QED BY <1>1, <3>1
  <2>5. SubSeq(r, a + 1, b - 1) = SubSeq(q, a + 1, b - 1)
    <3>1. /\ a + 1 \in Nat /\ b - 1 \in Nat /\ (a + 1) - 0 >= 1 /\ b - 1 <= Len(r) /\ (b - 1) - 0 <= Len(q)
          /\ \A i \in a + 1 .. b - 1 : i - 0 = i /\ i \in 1 .. n
      BY <1>1, <1>3
    <3>2. \A i \in a + 1 .. b - 1 : r[i] = q[i - 0]
      BY <1>1, <3>1
    <3>3. SubSeq(r, a + 1, b - 1) = SubSeq(q, (a + 1) - 0, (b - 1) - 0)
      BY SMTT(20), <3>1, <3>2, SamePart
    <3>4. (a + 1) - 0 = a + 1 /\ (b - 1) - 0 = b - 1
      BY <1>3
    <3> QED BY <3>3, <3>4
  <2>6. Taken(q, h) = SubSeq(q, a + 1, b - 1)
    BY <1>2, TakenIs
  <2>7. CASE b \in 1 .. n /\ q[b] = Disconnected
    <3>1. a \in 0 .. n + 1 /\ b \in a + 1 .. (n + 1) + 1 /\ r[b] = Disconnected
      BY <1>1, <1>3, <2>7
    <3>2. Between(r, h, a, b)
      BY <1>1, <1>2, <2>3, <2>4, <3>1 DEF Between
    <3>3. Taken(r, h) = SubSeq(r, a + 1, b - 1)
      BY <3>2, TakenIs
    <3> QED BY <1>1, <2>5, <2>6, <3>3
  <2>8. CASE b = n + 1
    <3>1. a \in 0 .. n + 1 /\ n + 2 \in a + 1 .. (n + 1) + 1 /\ n + 2 = (n + 1) + 1
      BY <1>3
    <3>2. \A j \in a + 1 .. n + 2 - 1 : r[j] # Disconnected
      <4>1. \A j \in a + 1 .. n + 2 - 1 : j \in a + 1 .. b - 1 \/ j = n + 1
        BY <1>3, <2>8
      <4> QED BY <1>1, <1>4, <2>4, <4>1
    <3>3. Between(r, h, a, n + 2)
      BY <1>1, <1>2, <2>3, <3>1, <3>2 DEF Between
    <3>4. Taken(r, h) = SubSeq(r, a + 1, n + 1)
      <4>1. (n + 2) - 1 = n + 1
        OBVIOUS
      <4> QED BY <3>3, <4>1, TakenIs
    <3>5. SubSeq(r, a + 1, n + 1) = SubSeq(r, a + 1, n) \o <<t>>
      <4>1. a + 1 \in 1 .. Len(r) /\ n + 1 \in a + 1 .. Len(r) /\ (n + 1) - 1 = n
        BY <1>1, <1>3
      <4> QED BY <1>1, <4>1, SubSeqRecursiveSecond
    <3>6. SubSeq(r, a + 1, n) = Taken(q, h)
      <4>1. b - 1 = n
        BY <2>8
      <4> QED BY <2>5, <2>6, <4>1
    <3>7. Taken(q, h) \in Seq(EventsOf) /\ t \in EventsOf
      <4>1. \A i \in a + 1 .. n : i \in 1 .. Len(q)
        BY <1>1, <1>3
      <4>2. \A i \in a + 1 .. n : q[i] \in EventsOf
        BY <4>1, ElementOfSeq
      <4>3. SubSeq(q, a + 1, n) \in Seq(EventsOf)
        BY <1>3, <4>2, SubSeqProperties
      <4>4. b - 1 = n
        BY <2>8
      <4> QED BY <2>6, <4>3, <4>4 DEF EventsOf
    <3>8. Append(Taken(q, h), t) = Taken(q, h) \o <<t>>
      BY <3>7, AppendIsConcat
    <3> QED BY <1>1, <3>4, <3>5, <3>6, <3>8
  <2> QED BY <2>2, <2>7, <2>8
<1> QED BY <1>5, <1>6

(* What is taken are trades: CONNECTED comes once.                         *)
LEMMA TakenTrades ==
  ASSUME NEW q \in Seq(EventsOf), NEW h \in BOOLEAN,
         h => NoneConnected(q), OnceConnected(q)
  PROVE  Taken(q, h) \in Seq(TradesOf)
<1>1. PICK a, b : Between(q, h, a, b)
  BY BetweenExists
<1>2. PICK n \in Nat : n = Len(q) /\ DOMAIN q = 1 .. n
  BY LenProperties
<1>3. a \in 0 .. n /\ b \in a + 1 .. n + 1 /\ a \in Nat /\ b \in Nat
  BY <1>1, <1>2 DEF Between
<1>4. ASSUME NEW j \in a + 1 .. b - 1 PROVE q[j] \in TradesOf
  <2>1. j \in 1 .. n /\ j # a /\ a < n
    BY <1>3
  <2>2. q[j] \in EventsOf /\ q[j] # Disconnected
    BY <1>1, <1>2, <2>1, ElementOfSeq DEF Between
  <2>3. q[j] # Connected
    <3>1. CASE h
      BY <1>2, <2>1, <3>1 DEF NoneConnected
    <3>2. CASE ~h
      <4>1. a \in 1 .. n /\ q[a] = Connected
        BY <1>1, <1>2, <1>3, <2>1, <3>2 DEF Between
      <4> QED BY <1>2, <2>1, <4>1 DEF OnceConnected
    <3> QED BY <3>1, <3>2
  <2> QED BY <2>2, <2>3 DEF EventsOf
<1>5. SubSeq(q, a + 1, b - 1) \in Seq(TradesOf)
  <2>1. a + 1 \in Int /\ b - 1 \in Int
    BY <1>3
  <2> QED BY <1>4, <2>1, SubSeqProperties
<1>6. Taken(q, h) = SubSeq(q, a + 1, b - 1)
  BY <1>1, TakenIs
<1> QED BY <1>5, <1>6

(* The rest of a queue.                                                    *)
LEMMA Rest ==
  ASSUME NEW q \in Seq(EventsOf), q # <<>>
  PROVE  \E r \in Seq(EventsOf), n \in Nat \ {0} :
           /\ r = Tail(q) /\ n = Len(q) /\ Len(r) = n - 1 /\ Head(q) = q[1] /\ Head(q) \in EventsOf
           /\ DOMAIN q = 1 .. n /\ DOMAIN r = 1 .. n - 1 /\ \A i \in 1 .. n - 1 : r[i] = q[i + 1]
<1>1. /\ Head(q) \in EventsOf /\ Tail(q) \in Seq(EventsOf) /\ Len(Tail(q)) = Len(q) - 1
      /\ \A i \in 1 .. Len(Tail(q)) : Tail(q)[i] = q[i + 1]
  BY HeadTailProperties
<1>2. Len(q) \in Nat \ {0}
  BY EmptySeq
<1>3. Head(q) = q[1]
  OBVIOUS
<1>4. PICK r \in Seq(EventsOf), n \in Nat \ {0} :
        /\ r = Tail(q) /\ n = Len(q) /\ Len(r) = n - 1 /\ \A i \in 1 .. n - 1 : r[i] = q[i + 1]
  BY <1>1, <1>2
<1>5. DOMAIN q = 1 .. n /\ DOMAIN r = 1 .. n - 1
  BY <1>4, LenProperties
<1> QED BY <1>1, <1>3, <1>4, <1>5

(* Nothing is taken after a DISCONNECTED.                                  *)
LEMMA HeadDisconnected ==
  ASSUME NEW q \in Seq(EventsOf), q # <<>>, Head(q) = Disconnected
  PROVE  Taken(q, TRUE) = <<>>
<1>1. PICK a, b : Between(q, TRUE, a, b)
  BY BetweenExists
<1>2. PICK n \in Nat \ {0} : n = Len(q) /\ q[1] = Disconnected
  BY Rest
<1>3. a = 0 /\ b \in 1 .. n + 1
  BY <1>1, <1>2 DEF Between
<1>4. b = 1
  <2>1. ~(1 \in a + 1 .. b - 1)
    BY <1>1, <1>2 DEF Between
  <2> QED BY <1>2, <1>3, <2>1
<1>5. Taken(q, TRUE) = SubSeq(q, 1, 0)
  <2>1. a + 1 = 1 /\ b - 1 = 0
    BY <1>3, <1>4
  <2>2. Taken(q, TRUE) = SubSeq(q, a + 1, b - 1)
    BY <1>1, TakenHearing
  <2> QED BY <2>1, <2>2
<1>6. SubSeq(q, 1, 0) = <<>>
  <2>1. 1 \in Int /\ 0 \in Int /\ 0 < 1
    OBVIOUS
  <2> QED BY <2>1, SubSeqEmpty
<1> QED BY <1>5, <1>6

(* The first event, if it is not a DISCONNECTED, is the first one taken.   *)
LEMMA HeadTaken ==
  ASSUME NEW q \in Seq(EventsOf), q # <<>>, Head(q) # Disconnected
  PROVE  /\ Taken(q, TRUE) # <<>> /\ Head(Taken(q, TRUE)) = Head(q)
         /\ Tail(Taken(q, TRUE)) = Taken(Tail(q), TRUE)
<1>1. PICK a, b : Between(q, TRUE, a, b)
  BY BetweenExists
<1>2. PICK r \in Seq(EventsOf), n \in Nat \ {0} :
        /\ r = Tail(q) /\ n = Len(q) /\ Len(r) = n - 1 /\ Head(q) = q[1]
        /\ DOMAIN q = 1 .. n /\ DOMAIN r = 1 .. n - 1 /\ \A i \in 1 .. n - 1 : r[i] = q[i + 1]
  BY Rest
<1>3. a = 0 /\ b \in 2 .. n + 1
  <2>1. a = 0 /\ b \in 1 .. n + 1 /\ (b = n + 1 \/ q[b] = Disconnected)
    BY <1>1, <1>2 DEF Between
  <2> QED BY <1>2, <2>1
<1>4. Taken(q, TRUE) = SubSeq(q, 1, b - 1)
  <2>1. a + 1 = 1
    BY <1>3
  <2>2. Taken(q, TRUE) = SubSeq(q, a + 1, b - 1)
    BY <1>1, TakenHearing
  <2> QED BY <2>1, <2>2
<1>5. Head(SubSeq(q, 1, b - 1)) = q[1] /\ Tail(SubSeq(q, 1, b - 1)) = SubSeq(q, 2, b - 1)
  <2>1. 1 \in 1 .. Len(q) /\ b - 1 \in 1 .. Len(q) /\ 1 + 1 = 2
    BY <1>2, <1>3
  <2> QED BY <2>1, HeadTailOfSubSeq
<1>6. SubSeq(q, 1, b - 1) # <<>>
  <2>1. \A i \in 1 .. b - 1 : q[i] \in EventsOf
    <3>1. \A i \in 1 .. b - 1 : i \in 1 .. Len(q)
      BY <1>2, <1>3
    <3> QED BY <3>1, ElementOfSeq
  <2>2. Len(SubSeq(q, 1, b - 1)) = (b - 1) - 1 + 1
    <3>1. 1 <= b - 1 /\ b - 1 \in Int
      BY <1>3
    <3> QED BY <2>1, <3>1, SubSeqProperties
  <2>3. (b - 1) - 1 + 1 # 0
    BY <1>3
  <2> QED BY <2>2, <2>3, EmptySeq
<1>7. Between(r, TRUE, 0, b - 1)
  <2>1. 0 \in 0 .. n - 1 /\ b - 1 \in 0 + 1 .. (n - 1) + 1
    BY <1>2, <1>3
  <2>2. b - 1 = (n - 1) + 1 \/ r[b - 1] = Disconnected
    <3>1. b = n + 1 \/ q[b] = Disconnected
      BY <1>1, <1>2 DEF Between
    <3>2. b # n + 1 => b - 1 \in 1 .. n - 1 /\ (b - 1) + 1 = b
      BY <1>3
    <3> QED BY <1>2, <1>3, <3>1, <3>2
  <2>3. \A j \in 0 + 1 .. (b - 1) - 1 : r[j] # Disconnected
    <3>1. \A j \in 0 + 1 .. (b - 1) - 1 : j \in 1 .. n - 1 /\ j + 1 \in a + 1 .. b - 1
      BY <1>3
    <3> QED BY <1>1, <1>2, <3>1 DEF Between
  <2> QED BY <1>2, <2>1, <2>2, <2>3 DEF Between
<1>8. Taken(r, TRUE) = SubSeq(r, 1, b - 2)
  <2>1. 0 + 1 = 1 /\ (b - 1) - 1 = b - 2
    BY <1>3
  <2>2. Taken(r, TRUE) = SubSeq(r, 0 + 1, (b - 1) - 1)
    BY <1>7, TakenHearing
  <2> QED BY <2>1, <2>2
<1>9. SubSeq(q, 2, b - 1) = SubSeq(r, 2 - 1, (b - 1) - 1)
  <2>1. /\ 2 \in Nat /\ b - 1 \in Nat /\ 1 \in Nat /\ 2 - 1 >= 1 /\ b - 1 <= Len(q) /\ (b - 1) - 1 <= Len(r)
        /\ \A i \in 2 .. b - 1 : i - 1 \in 1 .. n - 1 /\ (i - 1) + 1 = i
    BY <1>2, <1>3
  <2>2. \A i \in 2 .. b - 1 : q[i] = r[i - 1]
    BY <1>2, <2>1
  <2> QED BY <2>1, <2>2, SamePart
<1>10. 2 - 1 = 1 /\ (b - 1) - 1 = b - 2
  BY <1>3
<1> QED BY <1>2, <1>4, <1>5, <1>6, <1>8, <1>9, <1>10

(* Until CONNECTED is heard the first event is dropped, ...                *)
LEMMA HeadDropped ==
  ASSUME NEW q \in Seq(EventsOf), q # <<>>, Head(q) # Connected
  PROVE  Taken(Tail(q), FALSE) = Taken(q, FALSE)
<1>1. PICK a, b : Between(q, FALSE, a, b)
  BY BetweenExists
<1>2. PICK r \in Seq(EventsOf), n \in Nat \ {0} :
        /\ r = Tail(q) /\ n = Len(q) /\ Len(r) = n - 1 /\ Head(q) = q[1]
        /\ DOMAIN q = 1 .. n /\ DOMAIN r = 1 .. n - 1 /\ \A i \in 1 .. n - 1 : r[i] = q[i + 1]
  BY Rest
<1>3. a \in 0 .. n /\ b \in a + 1 .. n + 1 /\ a \in Nat /\ b \in Nat /\ a >= 1
  BY <1>1, <1>2 DEF Between
<1>4. CASE \A j \in DOMAIN q : q[j] # Connected
  <2>1. \A j \in DOMAIN r : r[j] # Connected
    <3>1. \A j \in 1 .. n - 1 : j + 1 \in 1 .. n
      BY <1>2
    <3> QED BY <1>2, <1>4, <3>1
  <2> QED BY <1>2, <1>4, <2>1, NothingTaken DEF NoneConnected
<1>5. CASE \E j \in DOMAIN q : q[j] = Connected
  <2>1. a \in 2 .. n /\ q[a] = Connected
    <3>1. a \in 1 .. n /\ q[a] = Connected
      BY <1>1, <1>2, <1>3, <1>5 DEF Between
    <3> QED BY <1>2, <1>3, <3>1
  <2>2. a - 1 \in 1 .. n - 1 /\ (a - 1) + 1 = a /\ r[a - 1] = Connected
    BY <1>2, <2>1
  <2>3. \A j \in 1 .. (a - 1) - 1 : r[j] # Connected
    <3>1. \A j \in 1 .. (a - 1) - 1 : j \in 1 .. n - 1 /\ j + 1 \in 1 .. a - 1
      BY <2>1
    <3> QED BY <1>1, <1>2, <3>1 DEF Between
  <2>4. \A j \in (a - 1) + 1 .. (b - 1) - 1 : r[j] # Disconnected
    <3>1. \A j \in (a - 1) + 1 .. (b - 1) - 1 : j \in 1 .. n - 1 /\ j + 1 \in a + 1 .. b - 1
      BY <1>3, <2>1
    <3> QED BY <1>1, <1>2, <3>1 DEF Between
  <2>5. b - 1 = (n - 1) + 1 \/ r[b - 1] = Disconnected
    <3>1. b = n + 1 \/ q[b] = Disconnected
      BY <1>1, <1>2 DEF Between
    <3>2. b # n + 1 => b - 1 \in 1 .. n - 1 /\ (b - 1) + 1 = b
      BY <1>3, <2>1
    <3> QED BY <1>2, <1>3, <3>1, <3>2
  <2>6. a - 1 \in 0 .. n - 1 /\ b - 1 \in (a - 1) + 1 .. (n - 1) + 1
    BY <1>3, <2>1
  <2>7. Between(r, FALSE, a - 1, b - 1)
    BY <1>2, <2>2, <2>3, <2>4, <2>5, <2>6 DEF Between
  <2>8. Taken(r, FALSE) = SubSeq(r, (a - 1) + 1, (b - 1) - 1) /\ Taken(q, FALSE) = SubSeq(q, a + 1, b - 1)
    <3>1. Taken(r, FALSE) = SubSeq(r, (a - 1) + 1, (b - 1) - 1)
      BY <2>7, TakenIs
    <3>2. Taken(q, FALSE) = SubSeq(q, a + 1, b - 1)
      BY ZenonT(60), <1>1, TakenIs
    <3> QED BY <3>1, <3>2
  <2>9. SubSeq(q, a + 1, b - 1) = SubSeq(r, (a + 1) - 1, (b - 1) - 1)
    <3>1. /\ a + 1 \in Nat /\ b - 1 \in Nat /\ 1 \in Nat /\ (a + 1) - 1 >= 1 /\ b - 1 <= Len(q)
          /\ (b - 1) - 1 <= Len(r) /\ \A i \in a + 1 .. b - 1 : i - 1 \in 1 .. n - 1 /\ (i - 1) + 1 = i
      BY <1>2, <1>3
    <3>2. \A i \in a + 1 .. b - 1 : q[i] = r[i - 1]
      BY <1>2, <3>1
    <3>3. PICK m \in Nat, k \in Nat : m = a + 1 /\ k = b - 1
      BY <3>1
    <3>4. m - 1 >= 1 /\ k <= Len(q) /\ k - 1 <= Len(r) /\ \A i \in m .. k : q[i] = r[i - 1]
      BY <3>1, <3>2, <3>3
    <3>5. SubSeq(q, m, k) = SubSeq(r, m - 1, k - 1)
      BY SMTT(20), <3>4, SamePart
    <3> QED BY <3>3, <3>5
  <2>10. (a + 1) - 1 = (a - 1) + 1
    BY <1>3
  <2> QED BY <1>2, <2>8, <2>9, <2>10
<1> QED BY <1>4, <1>5

(* ... and when it is, what follows is taken.                              *)
LEMMA HeadConnected ==
  ASSUME NEW q \in Seq(EventsOf), q # <<>>, Head(q) = Connected
  PROVE  Taken(Tail(q), TRUE) = Taken(q, FALSE)
<1>1. PICK a, b : Between(q, FALSE, a, b)
  BY BetweenExists
<1>2. PICK r \in Seq(EventsOf), n \in Nat \ {0} :
        /\ r = Tail(q) /\ n = Len(q) /\ Len(r) = n - 1 /\ q[1] = Connected
        /\ DOMAIN q = 1 .. n /\ DOMAIN r = 1 .. n - 1 /\ \A i \in 1 .. n - 1 : r[i] = q[i + 1]
  BY Rest
<1>3. a = 1 /\ b \in 2 .. n + 1
  <2>1. a \in 1 .. n /\ b \in a + 1 .. n + 1
    BY <1>1, <1>2 DEF Between
  <2>2. ~(1 \in 1 .. a - 1)
    BY <1>1, <1>2 DEF Between
  <2> QED BY <1>2, <2>1, <2>2
<1>4. Between(r, TRUE, 0, b - 1)
  <2>1. 0 \in 0 .. n - 1 /\ b - 1 \in 0 + 1 .. (n - 1) + 1
    BY <1>2, <1>3
  <2>2. b - 1 = (n - 1) + 1 \/ r[b - 1] = Disconnected
    <3>1. b = n + 1 \/ q[b] = Disconnected
      BY <1>1, <1>2 DEF Between
    <3>2. b # n + 1 => b - 1 \in 1 .. n - 1 /\ (b - 1) + 1 = b
      BY <1>3
    <3> QED BY <1>2, <1>3, <3>1, <3>2
  <2>3. \A j \in 0 + 1 .. (b - 1) - 1 : r[j] # Disconnected
    <3>1. \A j \in 0 + 1 .. (b - 1) - 1 : j \in 1 .. n - 1 /\ j + 1 \in a + 1 .. b - 1
      BY <1>3
    <3> QED BY <1>1, <1>2, <3>1 DEF Between
  <2> QED BY <1>2, <2>1, <2>2, <2>3 DEF Between
<1>5. Taken(r, TRUE) = SubSeq(r, 0 + 1, (b - 1) - 1) /\ Taken(q, FALSE) = SubSeq(q, a + 1, b - 1)
  <2>1. Taken(q, FALSE) = SubSeq(q, a + 1, b - 1)
    BY ZenonT(60), <1>1, TakenIs
  <2> QED BY <1>4, <2>1, TakenHearing
<1>6. SubSeq(q, 2, b - 1) = SubSeq(r, 2 - 1, (b - 1) - 1)
  <2>1. /\ 2 \in Nat /\ b - 1 \in Nat /\ 1 \in Nat /\ 2 - 1 >= 1 /\ b - 1 <= Len(q) /\ (b - 1) - 1 <= Len(r)
        /\ \A i \in 2 .. b - 1 : i - 1 \in 1 .. n - 1 /\ (i - 1) + 1 = i
    BY <1>2, <1>3
  <2>2. \A i \in 2 .. b - 1 : q[i] = r[i - 1]
    BY <1>2, <2>1
  <2> QED BY <2>1, <2>2, SamePart
<1>7. a + 1 = 2 /\ 2 - 1 = 0 + 1
  BY <1>3
<1> QED BY <1>2, <1>5, <1>6, <1>7

-----------------------------------------------------------------------------
(* The ids of trades *)

(* Ids is the sequence of the identities.                                  *)
LEMMA IdsAre ==
  ASSUME NEW s \in Seq(TradesOf)
  PROVE  /\ Ids(s) \in Seq(Nat) /\ Len(Ids(s)) = Len(s)
         /\ \A i \in 1 .. Len(s) : Ids(s)[i] = s[i].id
<1>1. PICK n \in Nat : n = Len(s) /\ DOMAIN s = 1 .. n
  BY LenProperties
<1>2. \A i \in 1 .. n : s[i] \in TradesOf
  BY <1>1, ElementOfSeq
<1>3. Ids(s) \in [1 .. n -> Nat]
  BY <1>1, <1>2 DEF Ids, TradesOf
<1>4. Ids(s) \in Seq(Nat) /\ Len(Ids(s)) = n
  BY <1>1, <1>3
<1> QED BY <1>1, <1>4 DEF Ids

(* Nothing has no identities.                                              *)
LEMMA IdsEmpty == Ids(<<>>) = <<>>
<1>1. <<>> \in Seq(TradesOf) /\ Len(<<>>) = 0
  BY EmptySeq
<1>2. Ids(<<>>) \in Seq(Nat) /\ Len(Ids(<<>>)) = 0
  BY <1>1, IdsAre
<1> QED BY <1>2, EmptySeq

(* Another trade adds its id, ...                                          *)
LEMMA IdsAppend ==
  ASSUME NEW s \in Seq(TradesOf), NEW t \in TradesOf
  PROVE  Ids(Append(s, t)) = Append(Ids(s), t.id)
<1>1. PICK r \in Seq(TradesOf), n \in Nat :
        /\ r = Append(s, t) /\ n = Len(s) /\ Len(r) = n + 1 /\ r[n + 1] = t
        /\ \A i \in 1 .. n : r[i] = s[i]
  <2>1. /\ Append(s, t) \in Seq(TradesOf) /\ Len(Append(s, t)) = Len(s) + 1 /\ Append(s, t)[Len(s) + 1] = t
        /\ \A i \in 1 .. Len(s) : Append(s, t)[i] = s[i]
    BY AppendProperties
  <2> QED BY <2>1, LenProperties
<1>2. PICK x \in Seq(Nat) : x = Ids(s) /\ Len(x) = n /\ \A i \in 1 .. n : x[i] = s[i].id
  BY <1>1, IdsAre
<1>3. t.id \in Nat
  BY DEF TradesOf
<1>4. PICK y \in Seq(Nat) : /\ y = Append(x, t.id) /\ Len(y) = n + 1 /\ y[n + 1] = t.id
                            /\ \A i \in 1 .. n : y[i] = x[i]
  <2>1. /\ Append(x, t.id) \in Seq(Nat) /\ Len(Append(x, t.id)) = Len(x) + 1
        /\ Append(x, t.id)[Len(x) + 1] = t.id /\ \A i \in 1 .. Len(x) : Append(x, t.id)[i] = x[i]
    BY <1>3, AppendProperties
  <2> QED BY <1>2, <2>1
<1>5. PICK z \in Seq(Nat) : z = Ids(r) /\ Len(z) = n + 1 /\ \A i \in 1 .. n + 1 : z[i] = r[i].id
  BY ZenonT(60), <1>1, IdsAre
<1>6. ASSUME NEW i \in 1 .. n + 1 PROVE z[i] = y[i]
  <2>1. i \in 1 .. n \/ i = n + 1
    OBVIOUS
  <2> QED BY ZenonT(60), <1>1, <1>2, <1>4, <1>5, <2>1
<1>7. z = y
  BY <1>4, <1>5, <1>6, SeqEqual
<1> QED BY <1>1, <1>2, <1>4, <1>5, <1>7

(* ... and the first one has the first id.                                 *)
LEMMA IdsTail ==
  ASSUME NEW s \in Seq(TradesOf), s # <<>>
  PROVE  Ids(s) # <<>> /\ Head(Ids(s)) = Head(s).id /\ Tail(Ids(s)) = Ids(Tail(s))
<1>1. PICK r \in Seq(TradesOf), n \in Nat \ {0} :
        /\ r = Tail(s) /\ n = Len(s) /\ Len(r) = n - 1 /\ \A i \in 1 .. n - 1 : r[i] = s[i + 1]
  <2>1. /\ Tail(s) \in Seq(TradesOf) /\ Len(Tail(s)) = Len(s) - 1
        /\ \A i \in 1 .. Len(Tail(s)) : Tail(s)[i] = s[i + 1]
    BY HeadTailProperties
  <2>2. Len(s) \in Nat \ {0}
    BY EmptySeq
  <2> QED BY <2>1, <2>2
<1>2. PICK x \in Seq(Nat) : x = Ids(s) /\ Len(x) = n /\ \A i \in 1 .. n : x[i] = s[i].id
  BY <1>1, IdsAre
<1>3. PICK y \in Seq(Nat) : y = Ids(r) /\ Len(y) = n - 1 /\ \A i \in 1 .. n - 1 : y[i] = r[i].id
  BY ZenonT(60), <1>1, IdsAre
<1>4. x # <<>>
  BY <1>1, <1>2, EmptySeq
<1>5. PICK z \in Seq(Nat) : z = Tail(x) /\ Len(z) = n - 1 /\ \A i \in 1 .. n - 1 : z[i] = x[i + 1]
  <2>1. /\ Tail(x) \in Seq(Nat) /\ Len(Tail(x)) = Len(x) - 1
        /\ \A i \in 1 .. Len(Tail(x)) : Tail(x)[i] = x[i + 1]
    BY <1>4, HeadTailProperties
  <2> QED BY <1>2, <2>1
<1>6. ASSUME NEW i \in 1 .. n - 1 PROVE z[i] = y[i]
  <2>1. i + 1 \in 1 .. n
    BY <1>1
  <2> QED BY <1>1, <1>2, <1>3, <1>5, <2>1
<1>7. z = y
  BY <1>3, <1>5, <1>6, SeqEqual
<1>8. Head(x) = x[1] /\ Head(s) = s[1]
  BY <1>4
<1>9. x[1] = s[1].id
  BY <1>1, <1>2
<1> QED BY <1>1, <1>2, <1>3, <1>4, <1>5, <1>7, <1>8, <1>9

-----------------------------------------------------------------------------
(* Ages *)

(* Older counts seconds up to the largest age.                             *)
LEMMA OlderIs ==
  ASSUME NEW a \in Ages
  PROVE  /\ Older(a) \in Ages /\ a <= Older(a) /\ Never \notin Ages /\ Older(Never) = Never
         /\ a < MaxInactivity + ResponseTimeout + 3 => Older(a) = a + 1
<1>1. PICK m \in Nat : m = MaxInactivity + ResponseTimeout + 3 /\ Ages = 0 .. m
  BY LiveTradeFeedAssumption DEF Ages
<1>2. Max(Ages) = m
  <2>1. m \in Ages /\ \A b \in Ages : b <= m
    BY <1>1
  <2>2. \A x \in Ages : (\A y \in Ages : x >= y) => x = m
    BY <1>1, <2>1
  <2> QED BY <1>1, <2>1, <2>2 DEF Max
<1>3. Never = -1 /\ a # Never /\ Never \notin Ages
  BY <1>1 DEF Never
<1>4. PICK o \in Nat : o = Min({a + 1, m})
  <2>1. {a + 1, m} \in SUBSET Nat /\ {a + 1, m} # {}
    BY <1>1
  <2>2. Min({a + 1, m}) \in {a + 1, m}
    BY <2>1, MinIs
  <2> QED BY <2>1, <2>2
<1>5. o \in {a + 1, m} /\ o <= a + 1 /\ o <= m
  <2>1. {a + 1, m} \in SUBSET Nat /\ {a + 1, m} # {}
    BY <1>1
  <2>2. Min({a + 1, m}) \in {a + 1, m} /\ \A t \in {a + 1, m} : Min({a + 1, m}) <= t
    BY <2>1, MinIs
  <2> QED BY <1>4, <2>2
<1>6. Older(a) = o /\ Older(Never) = Never
  BY <1>2, <1>3, <1>4 DEF Older
<1> QED BY <1>1, <1>3, <1>5, <1>6

-----------------------------------------------------------------------------
(* Types *)

(* Events that may be put in the queue or taken from it.                   *)
LEMMA Puts ==
  ASSUME TypeOK, NEW e \in EventsOf, Put(e)
  PROVE  queue' \in Seq(EventsOf)
<1>1. Append(queue, e) \in Seq(EventsOf)
  BY AppendProperties DEF TypeOK
<1> QED BY <1>1 DEF Put

(* The first event of the queue and the rest have their kinds.             *)
LEMMA Takes ==
  ASSUME TypeOK, queue # <<>>
  PROVE  Head(queue) \in EventsOf /\ Tail(queue) \in Seq(EventsOf)
BY HeadTailProperties DEF TypeOK

(* The state of the keep-alives after a message, a second or a new client. *)
LEMMA AgesStart == 0 \in Ages /\ \A a \in Ages : a \in Nat
BY LiveTradeFeedAssumption DEF Ages

(* What any message from the server does to the variables.                 *)
LEMMA ReceiveTypes ==
  ASSUME TypeOK, Receive
  PROVE  /\ idle' \in Ages /\ heard' \in Ages /\ kaSent' \in Ages \cup {Never}
         /\ link' = link /\ cut' = cut /\ faults' = faults /\ dispatched' = dispatched /\ main' = main
         /\ heard' = 0 /\ idle' = 0 /\ kaSent' = Never /\ link \in {"open", "closing"}
BY AgesStart DEF Receive, SetAlive

(* What starting a client does to the variables.                           *)
LEMMA StartTypes ==
  ASSUME TypeOK, StartClient
  PROVE  /\ idle' \in Ages /\ kaSent' \in Ages \cup {Never} /\ queue' \in Seq(EventsOf)
         /\ link' = "connecting" /\ cut' = FALSE /\ subscribed' = FALSE /\ unanswered' = FALSE
BY AgesStart, EmptySeq DEF StartClient

(* What a second leaves alone.                                             *)
LEMMA TickTypes ==
  ASSUME TypeOK, Tick
  PROVE  /\ idle' = Older(idle) /\ heard' = Older(heard) /\ idle' \in Ages /\ heard' \in Ages
         /\ kaSent' \in Ages \cup {Never} /\ faults' \in Nat /\ unanswered' \in BOOLEAN
         /\ (queue' = queue /\ link' = link) \/ (queue' = Append(queue, Disconnected) /\ link' = "closing")
         /\ queue' \in Seq(EventsOf) /\ link' \in {"none", "connecting", "open", "closing", "dead"}
         /\ subscribed' = subscribed /\ main' = main /\ cut' = cut /\ clock' = clock
         /\ received' = received /\ missed' = missed /\ dispatched' = dispatched
<1>1. /\ idle' = Older(idle) /\ heard' = Older(heard)
      /\ subscribed' = subscribed /\ main' = main /\ cut' = cut /\ clock' = clock
      /\ received' = received /\ missed' = missed /\ dispatched' = dispatched
  BY DEF Tick
<1>2. Older(idle) \in Ages /\ Older(heard) \in Ages
  BY OlderIs DEF TypeOK
<1>3. Older(kaSent) \in Ages \cup {Never} /\ 0 \in Ages
  <2>1. CASE kaSent = Never
    <3>1. Older(kaSent) = Never
      BY <2>1 DEF Older
    <3> QED BY <3>1, AgesStart
  <2>2. CASE kaSent \in Ages
    BY <2>2, OlderIs, AgesStart
  <2> QED BY <2>1, <2>2 DEF TypeOK
<1>4. kaSent' \in Ages \cup {Never}
  BY <1>3 DEF Tick, TypeOK
<1>5. faults' \in Nat
  BY DEF Tick, TypeOK, Fault
<1>6. unanswered' \in BOOLEAN
  BY DEF Tick, TypeOK
<1>7. (queue' = queue /\ link' = link) \/ (queue' = Append(queue, Disconnected) /\ link' = "closing")
  BY DEF Tick, OnDisconnectionDetected, Put
<1>8. Append(queue, Disconnected) \in Seq(EventsOf)
  <2>1. Disconnected \in EventsOf
    BY DEF EventsOf
  <2> QED BY <2>1, AppendProperties DEF TypeOK
<1> QED BY <1>1, <1>2, <1>4, <1>5, <1>6, <1>7, <1>8 DEF TypeOK

(* Every step keeps the types.                                             *)
LEMMA StepTypes ==
  ASSUME TypeOK, [Next]_vars
  PROVE  TypeOK'
<1> USE DEF vars, main, client, world, history
<1>1. CASE Tick
  BY <1>1, TickTypes DEF TypeOK
<1>2. CASE Opens
  BY <1>2, AgesStart DEF Opens, SetAlive, TypeOK
<1>3. CASE ConnectionFails
  BY <1>3 DEF ConnectionFails, Fault, TypeOK
<1>4. CASE OnConnectionEstablished
  <2>1. queue' \in Seq(EventsOf)
    BY <1>4, Puts DEF OnConnectionEstablished, EventsOf
  <2> QED BY <1>4, <2>1, ReceiveTypes DEF OnConnectionEstablished, TypeOK
<1>5. CASE OnPong
  BY <1>5, ReceiveTypes DEF OnPong, TypeOK
<1>6. CASE OnOtherMessage
  BY <1>6, ReceiveTypes DEF OnOtherMessage, TypeOK
<1>7. CASE OnTrade
  <2>1. PICK dt \in {clock, Min({clock + 1, MaxTrades})} :
          /\ clock' = dt /\ Put(Trade(received + 1, dt)) /\ received' = received + 1
    BY <1>7 DEF OnTrade
  <2>2. clock \in Nat /\ received \in Nat /\ received + 1 \in Nat
    BY DEF TypeOK
  <2>3. dt \in Nat
    <3>1. {clock + 1, MaxTrades} \in SUBSET Nat /\ {clock + 1, MaxTrades} # {}
      BY <2>2, LiveTradeFeedAssumption
    <3>2. Min({clock + 1, MaxTrades}) \in {clock + 1, MaxTrades}
      BY <3>1, MinIs
    <3> QED BY <2>1, <2>2, <3>1, <3>2
  <2>4. Trade(received + 1, dt) \in EventsOf
    BY <2>2, <2>3 DEF Trade, EventsOf, TradesOf
  <2>5. queue' \in Seq(EventsOf)
    BY <2>1, <2>4, Puts
  <2>6. received' \in Nat
    BY <2>1, <2>2
  <2>7. Receive /\ subscribed' = subscribed /\ unanswered' = unanswered
    BY <1>7 DEF OnTrade
  <2> QED BY <2>1, <2>3, <2>5, <2>6, <2>7, ReceiveTypes DEF TypeOK
<1>8. CASE OnClosed
  <2>1. queue' \in Seq(EventsOf)
    BY <1>8, Puts DEF OnClosed, EventsOf
  <2> QED BY <1>8, <2>1 DEF OnClosed, Fault, TypeOK
<1>9. CASE Cut
  BY <1>9 DEF Cut, Fault, TypeOK
<1>10. CASE Start
  BY <1>10, StartTypes DEF Start, TypeOK, Stages
<1>11. CASE AwaitConnected
  BY <1>11, Takes DEF AwaitConnected, TypeOK
<1>12. CASE Initialized
  BY <1>12 DEF Initialized, TypeOK, Stages
<1>13. CASE InitializationFailed
  <2>1. /\ stage' \in {"stop", "sleeping"} /\ stopped' \in {TRUE, stopped}
        /\ UNCHANGED <<connected, asked, barDicts, prevTrade, current>>
        /\ UNCHANGED <<link, cut, subscribed, idle, kaSent, unanswered, queue, clock, faults>>
        /\ UNCHANGED <<heard, received, dispatched>>
    BY <1>13 DEF InitializationFailed, client, world
  <2>2. stage' \in Stages
    BY <2>1 DEF Stages
  <2> QED BY <2>1, <2>2 DEF TypeOK
<1>14. CASE TryAgain
  BY <1>14, StartTypes DEF TryAgain, TypeOK, Stages
<1>15. CASE DispatchTrade
  <2>1. Head(queue) \in EventsOf /\ Tail(queue) \in Seq(EventsOf) /\ Head(queue).type = "TRADE"
    BY <1>15, Takes DEF DispatchTrade
  <2>2. Head(queue) \in TradesOf
    BY <2>1 DEF EventsOf, Connected, Disconnected
  <2>3. Head(queue).id \in Nat /\ Head(queue).dateTime \in Nat
    BY <2>2 DEF TradesOf
  <2>4. TradeDateTime(Head(queue).dateTime) \in Nat
    BY <2>3 DEF TradeDateTime
  <2>5. Trade(Head(queue).id, TradeDateTime(Head(queue).dateTime)) \in TradesOf
    BY <2>3, <2>4 DEF Trade, TradesOf
  <2>6. Append(barDicts, Trade(Head(queue).id, TradeDateTime(Head(queue).dateTime))) \in Seq(TradesOf)
    BY <2>5, AppendProperties DEF TypeOK
  <2> QED BY <1>15, <2>1, <2>4, <2>6 DEF DispatchTrade, TypeOK, Stages
<1>16. CASE DispatchDisconnected
  <2>1. CASE Reconnect
    BY <1>16, <2>1, StartTypes DEF DispatchDisconnected, TypeOK, Stages
  <2>2. CASE ~Reconnect
    BY <1>16, <2>2, Takes DEF DispatchDisconnected, TypeOK, Stages
  <2> QED BY <2>1, <2>2
<1>18. CASE DispatchBars
  <2>1. CASE barDicts = <<>>
    BY <1>18, <2>1 DEF DispatchBars, TypeOK, Stages
  <2>2. CASE barDicts # <<>>
    <3>1. Head(barDicts) \in TradesOf /\ Tail(barDicts) \in Seq(TradesOf)
      BY <2>2, HeadTailProperties DEF TypeOK
    <3>2. Head(barDicts).id \in Nat /\ Head(barDicts).dateTime \in Nat
      BY <3>1 DEF TradesOf
    <3>3. Append(dispatched, Head(barDicts).id) \in Seq(Nat)
      BY <3>2, AppendProperties DEF TypeOK
    <3> QED BY <1>18, <2>2, <3>1, <3>2, <3>3 DEF DispatchBars, TypeOK, Stages
  <2> QED BY <2>1, <2>2
<1>19. CASE HandlersReturn
  BY <1>19 DEF HandlersReturn, TypeOK, Stages
<1>20. CASE EndRun
  BY <1>20 DEF EndRun, TypeOK, Stages
<1>21. CASE Stop
  BY <1>21 DEF Stop, TypeOK, Stages
<1>22. CASE Join
  BY <1>22 DEF Join, TypeOK, Stages
<1>23. CASE UNCHANGED vars
  BY <1>23 DEF TypeOK
<1> QED BY <1>1, <1>2, <1>3, <1>4, <1>5, <1>6, <1>7, <1>8, <1>9, <1>10, <1>11, <1>12, <1>13, <1>14, <1>15,
           <1>16, <1>18, <1>19, <1>20, <1>21, <1>22, <1>23 DEF Next, Main

-----------------------------------------------------------------------------
(* Silence *)

(* A second goes by on an open connection.                                 *)
LEMMA TickOpen ==
  ASSUME TypeOK, KeepAlive, link = "open", Tick
  PROVE  /\ heard' = idle + 1 /\ idle' = idle + 1
         /\ \/ /\ link' = "open" /\ kaSent = Never /\ kaSent' = Never /\ idle + 1 <= MaxInactivity
            \/ /\ link' = "open" /\ kaSent = Never /\ kaSent' = 0 /\ idle + 1 = MaxInactivity + 1
            \/ /\ link' = "open" /\ kaSent # Never /\ kaSent' = kaSent + 1 /\ kaSent + 1 <= ResponseTimeout
               /\ idle = MaxInactivity + 1 + kaSent
            \/ /\ link' = "closing" /\ idle + 1 > MaxInactivity /\ faults' = faults + 1
            \/ /\ link' = "closing" /\ idle + 1 > MaxInactivity + ResponseTimeout
<1>1. PICK m \in Nat, r \in Nat : m = MaxInactivity /\ r = ResponseTimeout
  BY LiveTradeFeedAssumption
<1>2. Ages = 0 .. m + r + 3 /\ idle \in Ages /\ heard = idle
  BY <1>1 DEF Ages, TypeOK, KeepAlive
<1>3. /\ kaSent = Never => idle <= m
      /\ kaSent # Never => kaSent \in Ages /\ kaSent <= r /\ idle = m + 1 + kaSent
  BY <1>1 DEF KeepAlive, TypeOK
<1>4. Older(idle) = idle + 1 /\ Never \notin Ages /\ Older(Never) = Never
  <2>1. idle < m + r + 3
    BY <1>2, <1>3
  <2> QED BY <1>1, <1>2, <2>1, OlderIs
<1>5. kaSent # Never => Older(kaSent) = kaSent + 1
  <2>1. kaSent # Never => kaSent < m + r + 3
    BY <1>2, <1>3
  <2> QED BY <1>1, <1>3, <2>1, OlderIs
<1>6. idle' = idle + 1 /\ heard' = idle + 1
  BY <1>2, <1>4 DEF Tick
<1>7. CASE ~Inactive
  <2>1. link' = "open" /\ kaSent' = Older(kaSent)
    BY <1>7 DEF Tick
  <2>2. idle + 1 <= m
    BY <1>1, <1>2, <1>4, <1>7 DEF Inactive
  <2>3. kaSent = Never
    BY <1>2, <1>3, <2>2
  <2> QED BY <1>1, <1>4, <1>6, <2>1, <2>2, <2>3
<1>8. CASE Inactive
  <2>1. idle + 1 > m /\ m \in Nat /\ idle \in Nat
    BY <1>1, <1>2, <1>4, <1>8 DEF Inactive
  <2>2. CASE kaSent = Never /\ kaSent' = 0 /\ link' = link
    BY <1>1, <1>3, <1>6, <2>1, <2>2
  <2>3. CASE kaSent = Never /\ Fault /\ OnDisconnectionDetected
    BY <1>1, <1>6, <2>1, <2>3 DEF Fault, OnDisconnectionDetected
  <2>4. CASE kaSent # Never /\ ~NotAnswered /\ kaSent' = Older(kaSent) /\ link' = link
    <3>1. kaSent + 1 <= r
      BY <1>1, <1>2, <1>3, <1>5, <2>4 DEF NotAnswered
    <3> QED BY <1>1, <1>3, <1>5, <1>6, <2>4, <3>1
  <2>5. CASE NotAnswered /\ OnDisconnectionDetected
    <3>1. kaSent # Never /\ kaSent + 1 > r
      BY <1>1, <1>5, <2>5 DEF NotAnswered
    <3>2. idle + 1 > m + r
      BY <1>2, <1>3, <3>1
    <3> QED BY <1>1, <1>6, <2>5, <3>2 DEF OnDisconnectionDetected
  <2> QED BY <1>8, <2>2, <2>3, <2>4, <2>5 DEF Tick
<1> QED BY <1>7, <1>8

(* Every step keeps what is known of the keep-alives: those of the         *)
(* callback by TickOpen, a message because it resets both ages.            *)
LEMMA StepKeepAlive ==
  ASSUME TypeOK, KeepAlive, [Next]_vars
  PROVE  KeepAlive'
<1> USE DEF vars, main, client, world, history
<1>1. CASE Tick
  <2>1. CASE link = "open"
    <3>1. MaxInactivity \in Nat /\ ResponseTimeout \in Nat \ {0} /\ idle \in Nat /\ Never = -1
          /\ kaSent \in Int
      BY LiveTradeFeedAssumption DEF TypeOK, Ages, Never
    <3>2. /\ heard' = idle + 1 /\ idle' = idle + 1
          /\ link' = "open" =>
               \/ kaSent' = -1 /\ idle + 1 <= MaxInactivity
               \/ kaSent' = 0 /\ idle + 1 = MaxInactivity + 1
               \/ /\ kaSent' = kaSent + 1 /\ kaSent + 1 <= ResponseTimeout
                  /\ idle = MaxInactivity + 1 + kaSent
      BY <1>1, <2>1, <3>1, TickOpen
    <3> QED BY <3>1, <3>2 DEF KeepAlive
  <2>2. CASE link # "open"
    BY <1>1, <2>2, TickTypes DEF KeepAlive
  <2> QED BY <2>1, <2>2
<1>2. CASE Opens
  BY <1>2, LiveTradeFeedAssumption DEF Opens, SetAlive, KeepAlive
<1>3. CASE Receive
  BY <1>3, ReceiveTypes, LiveTradeFeedAssumption DEF KeepAlive
<1>4. CASE UNCHANGED <<link, idle, kaSent, heard>>
  BY <1>4 DEF KeepAlive
<1>5. CASE link' # "open"
  BY <1>5 DEF KeepAlive
<1>6. CASE Start \/ TryAgain \/ DispatchDisconnected
  <2>1. StartClient \/ UNCHANGED <<link, idle, kaSent, heard>>
    BY <1>6 DEF Start, TryAgain, DispatchDisconnected
  <2>2. CASE StartClient
    <3>1. link' # "open"
      BY <2>2 DEF StartClient
    <3> QED BY <1>5, <3>1
  <2> QED BY <1>4, <2>1, <2>2
<1>7. CASE Stop
  BY <1>4, <1>5, <1>7 DEF Stop
<1>8. CASE OnConnectionEstablished \/ OnPong \/ OnOtherMessage \/ OnTrade
  BY <1>3, <1>8 DEF OnConnectionEstablished, OnPong, OnOtherMessage, OnTrade
<1>9. CASE ConnectionFails \/ OnClosed
  BY <1>5, <1>9 DEF ConnectionFails, OnClosed
<1> QED BY <1>1, <1>2, <1>4, <1>6, <1>7, <1>8, <1>9 DEF Next, Main, Cut, AwaitConnected, Initialized,
           InitializationFailed, DispatchTrade, DispatchBars, HandlersReturn, EndRun, Join

-----------------------------------------------------------------------------
(* What the main thread hears of the client *)

(* CONNECTED comes once more only if something else puts it in the queue.  *)
LEMMA AppendOther ==
  ASSUME NEW q \in Seq(EventsOf), NEW e \in EventsOf, e # Connected
  PROVE  /\ NoneConnected(q) => NoneConnected(Append(q, e))
         /\ OnceConnected(q) => OnceConnected(Append(q, e))
<1>1. PICK r \in Seq(EventsOf), n \in Nat :
        /\ r = Append(q, e) /\ n = Len(q) /\ Len(r) = n + 1 /\ r[n + 1] = e
        /\ DOMAIN q = 1 .. n /\ DOMAIN r = 1 .. n + 1 /\ \A i \in 1 .. n : r[i] = q[i]
  BY Appended
<1>2. \A j \in 1 .. n + 1 : r[j] = Connected => j \in 1 .. n /\ q[j] = Connected
  <2>1. \A j \in 1 .. n + 1 : j \in 1 .. n \/ j = n + 1
    OBVIOUS
  <2> QED BY <1>1, <2>1
<1>3. NoneConnected(q) => NoneConnected(r)
  BY <1>1, <1>2 DEF NoneConnected
<1>4. OnceConnected(q) => OnceConnected(r)
  BY <1>1, <1>2 DEF OnceConnected
<1> QED BY <1>1, <1>3, <1>4

(* The first CONNECTED of a queue is the only one, and nothing follows it  *)
(* yet.                                                                    *)
LEMMA AppendConnected ==
  ASSUME NEW q \in Seq(EventsOf), NoneConnected(q)
  PROVE  OnceConnected(Append(q, Connected)) /\ Taken(Append(q, Connected), FALSE) = <<>>
<1>1. PICK r \in Seq(EventsOf), n \in Nat :
        /\ r = Append(q, Connected) /\ n = Len(q) /\ Len(r) = n + 1 /\ r[n + 1] = Connected
        /\ DOMAIN q = 1 .. n /\ DOMAIN r = 1 .. n + 1 /\ \A i \in 1 .. n : r[i] = q[i]
  <2>1. Connected \in EventsOf
    BY DEF EventsOf
  <2> QED BY <2>1, Appended
<1>2. \A j \in 1 .. n : r[j] # Connected
  BY <1>1 DEF NoneConnected
<1>3. \A j \in 1 .. n + 1 : r[j] = Connected => j = n + 1
  <2>1. \A j \in 1 .. n + 1 : j \in 1 .. n \/ j = n + 1
    OBVIOUS
  <2> QED BY <1>2, <2>1
<1>4. OnceConnected(r)
  BY <1>1, <1>3 DEF OnceConnected
<1>5. Between(r, FALSE, n + 1, n + 2)
  <2>1. /\ n + 1 \in 0 .. n + 1 /\ n + 2 \in (n + 1) + 1 .. (n + 1) + 1 /\ n + 1 \in 1 .. n + 1
        /\ (n + 1) - 1 = n /\ n + 2 = (n + 1) + 1
    OBVIOUS
  <2>2. \A j \in (n + 1) + 1 .. (n + 2) - 1 : FALSE
    OBVIOUS
  <2> QED BY <1>1, <1>2, <2>1, <2>2 DEF Between
<1>6. Taken(r, FALSE) = SubSeq(r, (n + 1) + 1, (n + 2) - 1)
  BY <1>5, TakenWaiting
<1>7. SubSeq(r, (n + 1) + 1, (n + 2) - 1) = <<>>
  <2>1. (n + 1) + 1 \in Int /\ (n + 2) - 1 \in Int /\ (n + 2) - 1 < (n + 1) + 1
    OBVIOUS
  <2> QED BY <2>1, SubSeqEmpty
<1> QED BY <1>1, <1>4, <1>6, <1>7

(* Taking the first event leaves CONNECTED at most once, and not at all if *)
(* it was the one taken.                                                   *)
LEMMA TailConnected ==
  ASSUME NEW q \in Seq(EventsOf), q # <<>>
  PROVE  /\ NoneConnected(q) => NoneConnected(Tail(q))
         /\ OnceConnected(q) => OnceConnected(Tail(q))
         /\ OnceConnected(q) /\ Head(q) = Connected => NoneConnected(Tail(q))
<1>1. PICK r \in Seq(EventsOf), n \in Nat \ {0} :
        /\ r = Tail(q) /\ n = Len(q) /\ Len(r) = n - 1 /\ Head(q) = q[1]
        /\ DOMAIN q = 1 .. n /\ DOMAIN r = 1 .. n - 1 /\ \A i \in 1 .. n - 1 : r[i] = q[i + 1]
  BY Rest
<1>2. 1 \in 1 .. n /\ \A j \in 1 .. n - 1 : j + 1 \in 1 .. n /\ j + 1 # 1 /\ r[j] = q[j + 1]
  BY <1>1
<1>3. NoneConnected(q) => NoneConnected(r)
  BY <1>1, <1>2 DEF NoneConnected
<1>4. OnceConnected(q) => OnceConnected(r)
  <2>1. \A j, k \in 1 .. n - 1 : j + 1 = k + 1 => j = k
    OBVIOUS
  <2> QED BY <1>1, <1>2, <2>1 DEF OnceConnected
<1>5. OnceConnected(q) /\ q[1] = Connected => NoneConnected(r)
  BY <1>1, <1>2 DEF OnceConnected, NoneConnected
<1> QED BY <1>1, <1>3, <1>4, <1>5

(* A new queue has no CONNECTED.                                           *)
LEMMA EmptyConnected == NoneConnected(<<>>) /\ OnceConnected(<<>>)
<1>1. DOMAIN <<>> = {}
  OBVIOUS
<1> QED BY <1>1 DEF NoneConnected, OnceConnected

(* What it hears depends on the queue and on where it is.                  *)
LEMMA HearsStays ==
  ASSUME TypeOK, Hears, main' = main, subscribed' = subscribed,
         link' = link \/ (link \in {"connecting", "open", "closing"} /\ link' # "none"),
         queue' = queue \/ \E e \in EventsOf : e # Connected /\ link # "none" /\ queue' = Append(queue, e)
  PROVE  Hears'
<1>1. /\ OnceConnected(queue') /\ (NoneConnected(queue) => NoneConnected(queue'))
      /\ stage = "start" => queue' = queue
  <2>1. CASE queue' = queue
    BY <2>1 DEF Hears
  <2>2. CASE queue' # queue
    <3>1. PICK q \in Seq(EventsOf), e \in EventsOf :
            q = queue /\ e # Connected /\ link # "none" /\ queue' = Append(q, e)
      BY <2>2 DEF TypeOK
    <3>2. OnceConnected(Append(q, e)) /\ (NoneConnected(q) => NoneConnected(Append(q, e)))
      BY <3>1, AppendOther DEF Hears
    <3> QED BY <3>1, <3>2 DEF Hears
  <2> QED BY <2>1, <2>2
<1> QED BY <1>1 DEF Hears, main

(* A client that has just been started has said nothing.                   *)
LEMMA HearsStart ==
  ASSUME TypeOK, Hears, StartClient, ~connected', ~stopped, stopped' = stopped,
         stage' \in Waiting
  PROVE  Hears'
BY EmptyConnected DEF StartClient, Hears, Waiting

(* Every step keeps what the main thread has heard.                        *)
LEMMA StepHears ==
  ASSUME TypeOK, Hears, [Next]_vars
  PROVE  Hears'
<1> USE DEF vars, main, client, world, history
<1>1. CASE Tick
  <2>1. Disconnected \in EventsOf /\ Disconnected # Connected
    BY DEF EventsOf, Connected, Disconnected
  <2>2. link' = link \/ (link \in {"connecting", "open", "closing"} /\ link' # "none")
    BY <1>1, TickTypes DEF Tick
  <2>3. queue' = queue \/ (link # "none" /\ queue' = Append(queue, Disconnected))
    BY <1>1, TickTypes DEF Tick
  <2> QED BY <1>1, <2>1, <2>2, <2>3, TickTypes, HearsStays
<1>2. CASE Opens \/ ConnectionFails
  BY <1>2, HearsStays DEF Opens, ConnectionFails
<1>3. CASE OnConnectionEstablished
  <2>1. link' = link /\ link \in {"open", "closing"} /\ main' = main /\ ~subscribed /\ subscribed' = TRUE
        /\ queue' = Append(queue, Connected)
    BY <1>3, ReceiveTypes DEF OnConnectionEstablished, Put
  <2>2. PICK q \in Seq(EventsOf) : q = queue /\ NoneConnected(q)
    BY <2>1 DEF Hears, TypeOK
  <2>3. OnceConnected(Append(q, Connected))
    BY <2>2, AppendConnected
  <2>4. stage # "start" /\ stage # "sleeping" /\ ~connected /\ stage \notin {"dispatch", "bars", "handler"}
    BY <2>1 DEF Hears
  <2>5. OnceConnected(queue')
    BY <2>1, <2>2, <2>3
  <2> QED BY <2>1, <2>4, <2>5 DEF Hears
<1>4. CASE OnPong \/ OnOtherMessage
  BY <1>4, ReceiveTypes, HearsStays DEF OnPong, OnOtherMessage
<1>5. CASE OnTrade
  <2>1. PICK dt : Put(Trade(received + 1, dt)) /\ Receive /\ subscribed' = subscribed
    BY <1>5 DEF OnTrade
  <2>2. queue' \in Seq(EventsOf)
    BY <1>5, StepTypes DEF TypeOK, Next
  <2>3. Trade(received + 1, dt) # Connected
    BY DEF Trade, Connected
  <2>4. Trade(received + 1, dt) \in EventsOf
    <3>1. PICK q \in Seq(EventsOf), n \in Nat : q = queue /\ n = Len(q)
      BY LenProperties DEF TypeOK
    <3>2. queue'[n + 1] = Trade(received + 1, dt) /\ Len(queue') = n + 1
      BY <2>1, <3>1 DEF Put
    <3>3. n + 1 \in 1 .. Len(queue')
      BY <3>2
    <3> QED BY <2>2, <3>2, <3>3, ElementOfSeq
  <2> QED BY <2>1, <2>3, <2>4, ReceiveTypes, HearsStays DEF Put
<1>6. CASE OnClosed
  <2>1. Disconnected \in EventsOf /\ Disconnected # Connected
    BY DEF EventsOf, Connected, Disconnected
  <2> QED BY <1>6, <2>1, HearsStays DEF OnClosed, Put
<1>7. CASE Cut
  BY <1>7, HearsStays DEF Cut
<1>8. CASE Start
  <2>1. StartClient /\ ~connected' /\ ~stopped /\ stopped' = stopped /\ stage' \in Waiting
    BY <1>8 DEF Start, Hears, Waiting
  <2> QED BY <2>1, HearsStart
<1>9. CASE TryAgain
  <2>1. StartClient /\ ~connected' /\ ~stopped /\ stopped' = stopped /\ stage' \in Waiting
    BY <1>9 DEF TryAgain, Hears, Waiting
  <2> QED BY <2>1, HearsStart
<1>10. CASE DispatchDisconnected
  <2>1. CASE Reconnect
    <3>1. StartClient /\ ~connected' /\ ~stopped /\ stopped' = stopped /\ stage' \in Waiting
      BY <1>10, <2>1 DEF DispatchDisconnected, Waiting
    <3> QED BY <3>1, HearsStart
  <2>2. CASE ~Reconnect
    <3>1. PICK q \in Seq(EventsOf) : q = queue /\ q # <<>>
      BY <1>10 DEF DispatchDisconnected, TypeOK
    <3>2. subscribed /\ NoneConnected(q) /\ OnceConnected(q)
      BY <1>10, <3>1 DEF DispatchDisconnected, Hears
    <3>3. NoneConnected(Tail(q)) /\ OnceConnected(Tail(q))
      BY <3>1, <3>2, TailConnected
    <3>4. /\ stage' = "bars" /\ stopped' /\ ~connected' /\ queue' = Tail(q) /\ subscribed' = subscribed
      BY <1>10, <2>2, <3>1 DEF DispatchDisconnected
    <3>5. NoneConnected(queue') /\ OnceConnected(queue')
      BY <3>3, <3>4
    <3>6. link' # "none"
      BY <1>10, <2>2 DEF DispatchDisconnected, Hears
    <3> QED BY <3>2, <3>4, <3>5, <3>6 DEF Hears, Waiting
  <2> QED BY <2>1, <2>2
<1>11. CASE AwaitConnected
  <2>1. PICK q \in Seq(EventsOf) : q = queue /\ q # <<>>
    BY <1>11 DEF AwaitConnected, TypeOK
  <2>2. /\ queue' = Tail(q) /\ connected' = (Head(q) = Connected) /\ ~connected /\ stage \in Waiting
        /\ UNCHANGED <<stage, stopped, link, subscribed>>
    BY <1>11, <2>1 DEF AwaitConnected
  <2>3. OnceConnected(Tail(q)) /\ (Head(q) = Connected => NoneConnected(Tail(q)))
        /\ (NoneConnected(q) => NoneConnected(Tail(q)))
    BY <2>1, TailConnected DEF Hears
  <2>4. Head(q) = Connected => subscribed
    <3>1. SUFFICES ASSUME Head(q) = Connected, ~subscribed PROVE FALSE
      BY DEF TypeOK
    <3>2. NoneConnected(q) /\ 1 \in DOMAIN q /\ q[1] = Connected
      BY <2>1, <3>1, Rest DEF Hears
    <3> QED BY <3>2 DEF NoneConnected
  <2>5. /\ OnceConnected(queue') /\ (connected' => NoneConnected(queue') /\ subscribed)
        /\ (NoneConnected(queue) => NoneConnected(queue'))
    BY <2>1, <2>2, <2>3, <2>4
  <2>6. connected' => subscribed' /\ NoneConnected(queue')
    BY <2>2, <2>5
  <2>7. ~subscribed' => NoneConnected(queue')
    BY <2>2, <2>5 DEF Hears
  <2>8. stage' \notin {"start", "sleeping", "dispatch", "bars", "handler"} /\ ~stopped'
    BY <2>2 DEF Hears, Waiting
  <2>9. link' # "none"
    BY <2>2 DEF Hears, Waiting
  <2> QED BY <2>5, <2>6, <2>7, <2>8, <2>9 DEF Hears
<1>12. CASE Initialized
  BY <1>12 DEF Initialized, Hears, Waiting
<1>13. CASE InitializationFailed
  BY <1>13 DEF InitializationFailed, Hears, Waiting, IsAlive, TypeOK
<1>14. CASE DispatchTrade
  <2>1. PICK q \in Seq(EventsOf) : q = queue /\ q # <<>>
    BY <1>14 DEF DispatchTrade, TypeOK
  <2>2. NoneConnected(Tail(q)) /\ OnceConnected(Tail(q))
    BY <1>14, <2>1, TailConnected DEF DispatchTrade, Hears
  <2>3. queue' = Tail(q) /\ stage' = "bars" /\ ~stopped /\ UNCHANGED <<connected, stopped, link, subscribed>>
        /\ stage = "dispatch"
    BY <1>14, <2>1 DEF DispatchTrade
  <2>4. NoneConnected(queue') /\ OnceConnected(queue')
    BY <2>2, <2>3
  <2> QED BY <2>3, <2>4 DEF Hears, Waiting
<1>15. CASE DispatchBars \/ HandlersReturn
  BY <1>15 DEF DispatchBars, HandlersReturn, Hears, Waiting
<1>16. CASE EndRun
  BY <1>16 DEF EndRun, Hears, Waiting
<1>17. CASE Stop
  BY <1>17 DEF Stop, Hears, Waiting
<1>18. CASE Join
  BY <1>18 DEF Join, Hears, Waiting
<1>19. CASE UNCHANGED vars
  BY <1>19 DEF Hears
<1> QED BY <1>1, <1>2, <1>3, <1>4, <1>5, <1>6, <1>7, <1>8, <1>9, <1>10, <1>11, <1>12, <1>13, <1>14, <1>15,
           <1>16, <1>17, <1>18, <1>19 DEF Next, Main

-----------------------------------------------------------------------------
(* The trades *)

(* What the property calls deliverable is what is taken.                   *)
LEMMA DeliverableIs == Deliverable(queue) = Taken(queue, connected)
BY DEF Deliverable, Taken

(* The three parts of what was received.                                   *)
LEMMA PartsAre ==
  ASSUME TypeOK, Hears
  PROVE  /\ Taken(queue, connected) \in Seq(TradesOf) /\ Ids(Taken(queue, connected)) \in Seq(Nat)
         /\ dispatched \in Seq(Nat) /\ Ids(barDicts) \in Seq(Nat) /\ barDicts \in Seq(TradesOf)
<1>1. Taken(queue, connected) \in Seq(TradesOf)
  <2>1. PICK q \in Seq(EventsOf), h \in BOOLEAN : q = queue /\ h = connected
    BY DEF TypeOK
  <2>2. (h => NoneConnected(q)) /\ OnceConnected(q)
    BY <2>1 DEF Hears
  <2> QED BY <2>1, <2>2, TakenTrades
<1> QED BY <1>1, IdsAre DEF TypeOK

(* The trades stay what they are if neither those dispatched nor those to  *)
(* come change.                                                            *)
LEMMA TradesStay ==
  ASSUME NEW r, TradesAre(r), UNCHANGED <<barDicts, dispatched>>,
         Taken(queue, connected)' = Taken(queue, connected),
         stage' = stage \/ (stage \notin {"sleeping", "stop", "join", "over"} /\ stage' # "sleeping")
           \/ stage' \in {"stop", "join", "over"}
  PROVE  TradesAre(r)'
BY DeliverableIs DEF TradesAre, Deliverable, Taken

(* Three sequences that make one.                                          *)
AddedUp(d, b, i, r) == d \o b \o i = r

(* The first of the third sequence becomes the last of the second.         *)
Moved(b, i, a, k) == a = Append(b, Head(i)) /\ k = Tail(i)

(* What is moved from the third sequence to the second leaves the three    *)
(* together as they were.                                                  *)
LEMMA MoveBetween ==
  ASSUME NEW S, NEW d \in Seq(S), NEW b \in Seq(S), NEW i \in Seq(S), i # <<>>,
         NEW a \in Seq(S), NEW k \in Seq(S), Moved(b, i, a, k), NEW r, AddedUp(d, b, i, r)
  PROVE  AddedUp(d, a, k, r)
<1>1. a \o k = b \o i
  BY MoveHead DEF Moved
<1>2. (d \o a) \o k = d \o (a \o k)
  BY ONLY SMTT(20), ConcatAssociative, d \in Seq(S), a \in Seq(S), k \in Seq(S)
<1>3. (d \o b) \o i = d \o (b \o i)
  BY ONLY SMTT(20), ConcatAssociative, d \in Seq(S), b \in Seq(S), i \in Seq(S)
<1> QED BY <1>1, <1>2, <1>3 DEF AddedUp

(* Nothing more to come.                                                   *)
LEMMA TradesNone ==
  ASSUME TypeOK, Hears, NEW r \in Seq(Nat), TradesAre(r), stage \notin {"stop", "join", "over"},
         stage = "sleeping" \/ Taken(queue, connected) = <<>>, UNCHANGED <<barDicts, dispatched>>,
         Taken(queue, connected)' = <<>>
  PROVE  TradesAre(r)'
<1>1. PICK d \in Seq(Nat), b \in Seq(Nat) :
        d = dispatched /\ b = Ids(barDicts) /\ d = dispatched' /\ b = Ids(barDicts)'
  BY PartsAre
<1>2. Ids(<<>>) = <<>> /\ d \o b \in Seq(Nat) /\ (d \o b) \o <<>> = d \o b
  BY IdsEmpty, ConcatProperties, ConcatEmptySeq
<1>3. d \o b = r
  BY <1>1, <1>2, DeliverableIs DEF TradesAre
<1>4. Ids(Deliverable(queue))' = <<>>
  BY <1>2 DEF Deliverable, Taken
<1>5. d \o b = r /\ (d \o b) \o Ids(Deliverable(queue))' = r
  BY <1>2, <1>3, <1>4
<1> QED BY <1>1, <1>5 DEF TradesAre

(* The numbers that came are listed by what was listed and a new one.      *)
LEMMA OneMoreTrade ==
  ASSUME NEW s \in Seq(Nat), NEW n \in Nat, NEW m \in SUBSET (1 .. n), Enumerates(s, (1 .. n) \ m)
  PROVE  Enumerates(Append(s, n + 1), (1 .. n + 1) \ m)
<1>1. PICK k \in Nat : k = Len(s) /\ DOMAIN s = 1 .. k
  BY LenProperties
<1>2. PICK t \in Seq(Nat) : /\ t = Append(s, n + 1) /\ DOMAIN t = 1 .. k + 1 /\ t[k + 1] = n + 1
                            /\ \A i \in 1 .. k : t[i] = s[i]
  <2>1. /\ Append(s, n + 1) \in Seq(Nat) /\ Len(Append(s, n + 1)) = k + 1
        /\ Append(s, n + 1)[k + 1] = n + 1 /\ \A i \in 1 .. k : Append(s, n + 1)[i] = s[i]
    BY <1>1, AppendProperties
  <2> QED BY <2>1, LenProperties
<1>3. \A i \in 1 .. k : s[i] \in (1 .. n) \ m /\ s[i] \in Nat
  BY <1>1 DEF Enumerates, Range
<1>4. ASSUME NEW x \in (1 .. n) \ m PROVE \E i \in 1 .. k : s[i] = x
  BY <1>1 DEF Enumerates, Range
<1>5. Range(t) = (1 .. n + 1) \ m
  <2>1. ASSUME NEW i \in 1 .. k + 1 PROVE t[i] \in (1 .. n + 1) \ m
    <3>1. CASE i \in 1 .. k
      <4>1. t[i] = s[i] /\ s[i] \in (1 .. n) \ m
        BY <1>2, <1>3, <3>1
      <4> QED BY <4>1
    <3>2. CASE i = k + 1
      <4>1. t[i] = n + 1 /\ n + 1 \notin m
        BY <1>2, <3>2
      <4> QED BY <4>1
    <3> QED BY <3>1, <3>2
  <2>2. ASSUME NEW x \in (1 .. n + 1) \ m PROVE \E i \in 1 .. k + 1 : t[i] = x
    <3>1. CASE x = n + 1
      BY <1>2, <3>1
    <3>2. CASE x # n + 1
      <4>1. PICK i \in 1 .. k : s[i] = x
        BY <1>4, <3>2
      <4>2. i \in 1 .. k + 1 /\ t[i] = x
        BY <1>2, <4>1
      <4> QED BY <4>2
    <3> QED BY <3>1, <3>2
  <2>3. Range(t) = {t[i] : i \in 1 .. k + 1}
    BY <1>2 DEF Range
  <2>4. PICK S : S = (1 .. n + 1) \ m
    OBVIOUS
  <2>5. (\A i \in 1 .. k + 1 : t[i] \in S) /\ \A x \in S : \E i \in 1 .. k + 1 : t[i] = x
    BY <2>1, <2>2, <2>4
  <2>6. {t[i] : i \in 1 .. k + 1} = S
    BY ONLY <2>5, Zenon
  <2> QED BY <2>3, <2>4, <2>6
<1>6. ASSUME NEW i \in 1 .. k + 1, NEW j \in 1 .. k + 1, i < j PROVE t[i] < t[j]
  <2>1. i \in 1 .. k
    BY <1>6
  <2>2. t[i] = s[i] /\ s[i] \in 1 .. n
    BY <1>2, <1>3, <2>1
  <2>3. CASE j \in 1 .. k
    BY <1>1, <1>2, <1>6, <2>1, <2>2, <2>3 DEF Enumerates
  <2>4. CASE j = k + 1
    BY <1>2, <2>2, <2>4
  <2> QED BY <2>3, <2>4
<1> QED BY <1>2, <1>5, <1>6 DEF Enumerates

(* And those of the first part of a list are those of the list without     *)
(* those of the second.                                                    *)
LEMMA FirstPart ==
  ASSUME NEW s \in Seq(Nat), NEW i \in Seq(Nat), NEW S, Enumerates(s \o i, S)
  PROVE  Enumerates(s, S \ Range(i)) /\ Range(i) \subseteq S
<1>1. PICK k \in Nat, l \in Nat : k = Len(s) /\ DOMAIN s = 1 .. k /\ l = Len(i) /\ DOMAIN i = 1 .. l
  BY LenProperties
<1>2. PICK t \in Seq(Nat) : /\ t = s \o i /\ DOMAIN t = 1 .. k + l
                            /\ \A a \in 1 .. k : t[a] = s[a]
                            /\ \A a \in 1 .. l : t[k + a] = i[a]
  <2>1. s \o i \in Seq(Nat) /\ Len(s \o i) = k + l
    BY <1>1, ConcatProperties
  <2>2. \A a \in 1 .. k + l : (s \o i)[a] = IF a <= k THEN s[a] ELSE i[a - k]
    BY <1>1, ConcatProperties
  <2>3. \A a \in 1 .. k : a \in 1 .. k + l /\ a <= k
    OBVIOUS
  <2>4. \A a \in 1 .. l : k + a \in 1 .. k + l /\ ~(k + a <= k) /\ (k + a) - k = a
    OBVIOUS
  <2>5. \A a \in 1 .. k : (s \o i)[a] = s[a]
    BY <2>2, <2>3
  <2>6. \A a \in 1 .. l : (s \o i)[k + a] = i[a]
    BY <2>2, <2>4
  <2>7. PICK t \in Seq(Nat) : t = s \o i
    BY <2>1
  <2>8. DOMAIN t = 1 .. k + l
    BY <2>1, <2>7, LenProperties
  <2>9. (\A a \in 1 .. k : t[a] = s[a]) /\ \A a \in 1 .. l : t[k + a] = i[a]
    BY <2>5, <2>6, <2>7
  <2> QED BY <2>7, <2>8, <2>9
<1>3. \A a \in 1 .. k + l : t[a] \in S /\ t[a] \in Nat
  <2>1. \A a \in 1 .. k + l : t[a] \in Nat
    BY <1>2, LenProperties, ElementOfSeq
  <2> QED BY <1>2, <2>1 DEF Enumerates, Range
<1>4. ASSUME NEW a \in 1 .. k, NEW b \in 1 .. l PROVE s[a] < i[b]
  <2>1. a \in 1 .. k + l /\ k + b \in 1 .. k + l /\ a < k + b
    OBVIOUS
  <2>2. t[a] < t[k + b]
    BY <1>2, <2>1 DEF Enumerates
  <2> QED BY <1>2, <2>2
<1>5. Range(i) \subseteq S
  <2>1. ASSUME NEW b \in 1 .. l PROVE i[b] \in S
    <3>1. k + b \in 1 .. k + l
      OBVIOUS
    <3> QED BY <1>2, <1>3, <3>1
  <2> QED BY <1>1, <2>1 DEF Range
<1>6. Range(s) = S \ Range(i)
  <2>1. ASSUME NEW a \in 1 .. k PROVE s[a] \in S /\ s[a] \notin Range(i)
    <3>1. a \in 1 .. k + l
      OBVIOUS
    <3>2. s[a] \in S /\ s[a] \in Nat
      BY <1>2, <1>3, <3>1
    <3>3. \A b \in 1 .. l : i[b] # s[a]
      BY <1>4, <3>2
    <3> QED BY <1>1, <3>2, <3>3 DEF Range
  <2>2. ASSUME NEW x \in S \ Range(i) PROVE \E a \in 1 .. k : s[a] = x
    <3>1. PICK c \in 1 .. k + l : t[c] = x
      BY <1>2, <2>2 DEF Enumerates, Range
    <3>2. CASE c \in 1 .. k
      BY <1>2, <3>1, <3>2
    <3>3. CASE c \notin 1 .. k
      <4>1. PICK b \in 1 .. l : c = k + b
        <5>1. c - k \in 1 .. l /\ c = k + (c - k)
          BY <3>3
        <5> QED BY <5>1
      <4>2. i[b] = x
        BY <1>2, <3>1, <4>1
      <4> QED BY <1>1, <2>2, <4>2 DEF Range
    <3> QED BY <3>2, <3>3
  <2>3. Range(s) = {s[a] : a \in 1 .. k}
    BY <1>1 DEF Range
  <2>4. PICK R : R = S \ Range(i)
    OBVIOUS
  <2>5. (\A a \in 1 .. k : s[a] \in R) /\ \A x \in R : \E a \in 1 .. k : s[a] = x
    BY <2>1, <2>2, <2>4
  <2>6. {s[a] : a \in 1 .. k} = R
    BY ONLY <2>5, Zenon
  <2> QED BY <2>3, <2>4, <2>6
<1>7. ASSUME NEW a \in 1 .. k, NEW b \in 1 .. k, a < b PROVE s[a] < s[b]
  <2>1. a \in 1 .. k + l /\ b \in 1 .. k + l
    OBVIOUS
  <2>2. t[a] < t[b]
    BY <1>2, <1>7, <2>1 DEF Enumerates
  <2> QED BY <1>2, <2>2
<1> QED BY <1>1, <1>5, <1>6, <1>7 DEF Enumerates

(* A trade that comes is the last to be taken, or missed.                  *)
LEMMA TradeComes ==
  ASSUME TypeOK, Hears, NEW r \in Seq(Nat), TradesAre(r), OnTrade,
         NEW n \in Nat, n = received + 1
  PROVE  \/ TradesAre(Append(r, n))' /\ missed' = missed
         \/ TradesAre(r)' /\ missed' = missed \cup {n}
<1> USE DEF vars, main, client, world, history
<1>0. PICK q \in Seq(EventsOf), h \in BOOLEAN :
        q = queue /\ h = connected /\ Taken(queue, connected) = Taken(q, h)
  BY DEF TypeOK
<1>1. PICK dt : /\ queue' = Append(queue, Trade(received + 1, dt))
                /\ missed' = IF Len(Deliverable(queue')) > Len(Deliverable(queue))
                             THEN missed ELSE missed \cup {received + 1}
  BY DEF OnTrade, Put
<1>2. n = received + 1
  OBVIOUS
<1>3. PICK t \in TradesOf : t = Trade(n, dt) /\ t.id = n
  <2>1. TypeOK'
    BY StepTypes DEF Next
  <2>2. PICK e : e = Trade(n, dt)
    OBVIOUS
  <2>3. PICK m \in Nat : m = Len(q) /\ queue' = Append(q, e) /\ Append(q, e) \in Seq(EventsOf)
    BY <1>0, <1>1, <1>2, <2>1, <2>2, LenProperties DEF TypeOK
  <2>4. Len(Append(q, e)) = m + 1 /\ Append(q, e)[m + 1] = e
    BY <2>3
  <2>5. m + 1 \in 1 .. Len(Append(q, e))
    BY <2>4
  <2>6. e \in EventsOf
    BY <2>3, <2>4, <2>5, ElementOfSeq
  <2>7. e \in TradesOf
    BY <2>2, <2>6 DEF EventsOf, Connected, Disconnected, Trade
  <2> QED BY <2>2, <2>7 DEF Trade
<1>4. main' = main /\ dispatched' = dispatched
  BY ReceiveTypes DEF OnTrade
<1>5. PICK s \in Seq(TradesOf) : s = Taken(q, h)
  BY <1>0, PartsAre
<1>6. PICK u : u = Taken(Append(q, t), h)
  OBVIOUS
<1>7. Deliverable(queue) = s /\ Deliverable(queue') = u /\ Taken(queue, connected)' = u
  <2>1. queue' = Append(q, t) /\ connected' = h
    BY <1>0, <1>1, <1>2, <1>3, <1>4
  <2> QED BY <1>0, <1>5, <1>6, <2>1, DeliverableIs DEF Deliverable, Taken
<1>8. u = s \/ u = Append(s, t)
  BY <1>5, <1>6, AppendTrade
<1>9. PICK k \in Nat : k = Len(s) /\ Len(Append(s, t)) = k + 1
  BY AppendProperties, LenProperties
<1>10. CASE u = s
  <2>1. missed' = missed \cup {n}
    BY <1>1, <1>2, <1>7, <1>9, <1>10
  <2>2. TradesAre(r)'
    BY <1>0, <1>4, <1>5, <1>7, <1>10, TradesStay
  <2> QED BY <2>1, <2>2
<1>11. CASE u = Append(s, t)
  <2>1. missed' = missed
    BY <1>1, <1>7, <1>9, <1>11
  <2>2. PICK d \in Seq(Nat), b \in Seq(Nat), i \in Seq(Nat) :
          /\ d = dispatched /\ b = Ids(barDicts) /\ i = Ids(s)
          /\ d = dispatched' /\ b = Ids(barDicts')
    BY <1>4, PartsAre, IdsAre DEF TypeOK
  <2>3. Ids(u) = Append(i, n)
    BY <1>3, <1>11, <2>2, IdsAppend
  <2>4. PICK x \in Seq(Nat) : x = d \o b
    <3>1. d \o b \in Seq(Nat)
      BY ConcatProperties
    <3> QED BY <3>1
  <2>5. x \o Append(i, n) = Append(x \o i, n)
    BY ONLY SMTT(20), AppendToBoth, x \in Seq(Nat), i \in Seq(Nat), n \in Nat
  <2>6. (d \o b) \o Append(i, n) = Append((d \o b) \o i, n)
    BY <2>4, <2>5
  <2>7. stage \notin {"sleeping", "stop", "join", "over"} => (d \o b) \o i = r
    BY <1>7, <2>2 DEF TradesAre
  <2>8. stage' = stage /\ stage # "sleeping"
    <3>1. link \in {"open", "closing"}
      BY ReceiveTypes DEF OnTrade
    <3> QED BY <1>4, <3>1 DEF Hears
  <2>9. stage \notin {"sleeping", "stop", "join", "over"} => (d \o b) \o Ids(u) = Append(r, n)
    BY <2>3, <2>6, <2>7
  <2>10. Ids(Deliverable(queue))' = Ids(u)
    BY <1>7 DEF Deliverable, Taken
  <2>11. TradesAre(Append(r, n))'
    BY <2>2, <2>8, <2>9, <2>10 DEF TradesAre
  <2> QED BY <2>1, <2>11
<1> QED BY <1>8, <1>10, <1>11

(* When a client ends before it was heard, what was to be taken of its     *)
(* queue is missed.                                                        *)
LEMMA ClientEnds ==
  ASSUME TypeOK, Hears, NEW r \in Seq(Nat), TradesAre(r), InitializationFailed
  PROVE  \E x \in Seq(Nat), i \in Seq(Nat) : r = x \o i /\ TradesAre(x)' /\ missed' = missed \cup Range(i)
<1>1. /\ stage \in Waiting /\ stage' \in {"stop", "sleeping"}
      /\ dispatched' = dispatched /\ Ids(barDicts)' = Ids(barDicts)
      /\ missed' = missed \cup Range(Ids(Deliverable(queue)))
  BY DEF InitializationFailed
<1>2. PICK d \in Seq(Nat), b \in Seq(Nat), i \in Seq(Nat) :
        d = dispatched /\ b = Ids(barDicts) /\ i = Ids(Deliverable(queue))
  BY PartsAre, DeliverableIs
<1>3. PICK x \in Seq(Nat) : x = d \o b
  <2>1. d \o b \in Seq(Nat)
    BY ConcatProperties
  <2> QED BY <2>1
<1>4. r = x \o i
  BY <1>1, <1>2, <1>3 DEF TradesAre, Waiting
<1>5. TradesAre(x)'
  BY <1>1, <1>2, <1>3 DEF TradesAre
<1> QED BY <1>1, <1>2, <1>4, <1>5

(* Every other step keeps them: one that is dispatched moves to the bars,  *)
(* and one whose bar is emitted moves to those dispatched.                 *)
LEMMA TradesKept ==
  ASSUME TypeOK, Hears, NEW r \in Seq(Nat), TradesAre(r), [Next]_vars, ~OnTrade, ~InitializationFailed
  PROVE  TradesAre(r)'
<1> USE DEF vars, main, client, world, history
<1>0. PICK q \in Seq(EventsOf), h \in BOOLEAN :
        q = queue /\ h = connected /\ Taken(queue, connected) = Taken(q, h)
  BY DEF TypeOK
<1>1. ASSUME UNCHANGED <<barDicts, dispatched, connected>>,
             stage' = stage \/ (stage \notin {"sleeping", "stop", "join", "over"} /\ stage' # "sleeping")
               \/ stage' \in {"stop", "join", "over"},
             queue' = queue \/ queue' = Append(queue, Disconnected)
      PROVE  TradesAre(r)'
  <2>1. Taken(Append(q, Disconnected), h) = Taken(q, h)
    BY AppendDisconnected
  <2>2. Taken(queue, connected)' = Taken(queue, connected)
    <3>1. queue' = q \/ queue' = Append(q, Disconnected)
      BY <1>0, <1>1
    <3> QED BY <1>0, <1>1, <2>1, <3>1
  <2> QED BY <1>1, <2>2, TradesStay
<1>2. CASE Tick
  BY <1>1, <1>2, TickTypes
<1>3. CASE Opens \/ ConnectionFails \/ OnClosed \/ Cut
  BY <1>1, <1>3 DEF Opens, ConnectionFails, OnClosed, Cut, Put
<1>4. CASE OnPong \/ OnOtherMessage
  BY <1>1, <1>4, ReceiveTypes DEF OnPong, OnOtherMessage
<1>5. CASE OnConnectionEstablished
  <2>1. ~subscribed /\ queue' = Append(q, Connected) /\ main' = main /\ dispatched' = dispatched
    BY <1>0, <1>5, ReceiveTypes DEF OnConnectionEstablished, Put
  <2>2. ~connected /\ NoneConnected(q)
    BY <1>0, <2>1 DEF Hears
  <2>3. Taken(q, FALSE) = <<>> /\ Taken(Append(q, Connected), FALSE) = <<>>
    BY <2>2, NothingTaken, AppendConnected
  <2>4. connected = FALSE /\ connected' = FALSE
    BY <2>1, <2>2 DEF TypeOK
  <2>5. Taken(queue, connected)' = Taken(queue, connected)
    BY <1>0, <2>1, <2>3, <2>4
  <2> QED BY <2>1, <2>5, TradesStay
<1>7. CASE Start \/ TryAgain
  <2>1. /\ queue' = <<>> /\ stage \in {"start", "sleeping"} /\ stage' \in Waiting /\ ~connected
        /\ UNCHANGED <<connected, barDicts, dispatched>>
    BY <1>7 DEF Start, TryAgain, StartClient, Waiting, Hears
  <2>2. <<>> \in Seq(EventsOf) /\ Taken(<<>>, FALSE) = <<>>
    BY EmptySeq, EmptyConnected, NothingTaken
  <2>3. connected = FALSE /\ connected' = FALSE
    BY <2>1 DEF TypeOK
  <2>4. Taken(queue, connected)' = <<>>
    BY <2>1, <2>2, <2>3
  <2>5. stage = "sleeping" \/ Taken(queue, connected) = <<>>
    BY <2>1, <2>2, <2>3 DEF Hears
  <2>6. stage \notin {"stop", "join", "over"}
    BY <2>1
  <2> QED BY <2>1, <2>4, <2>5, <2>6, TradesNone
<1>8. CASE AwaitConnected
  <2>1. /\ q # <<>> /\ queue' = Tail(q) /\ connected' = (Head(q) = Connected) /\ connected = FALSE
        /\ UNCHANGED <<stage, barDicts, dispatched>>
    BY <1>0, <1>8 DEF AwaitConnected, TypeOK
  <2>2. Taken(queue, connected)' = Taken(queue, connected)
    <3>1. CASE Head(q) = Connected
      <4>1. Taken(Tail(q), TRUE) = Taken(q, FALSE)
        BY <2>1, <3>1, HeadConnected
      <4>2. connected' = TRUE
        BY <2>1, <3>1
      <4> QED BY <1>0, <2>1, <4>1, <4>2
    <3>2. CASE Head(q) # Connected
      <4>1. Taken(Tail(q), FALSE) = Taken(q, FALSE)
        BY <2>1, <3>2, HeadDropped
      <4>2. connected' = FALSE
        BY <2>1, <3>2
      <4> QED BY <1>0, <2>1, <4>1, <4>2
    <3> QED BY <3>1, <3>2
  <2> QED BY <2>1, <2>2, TradesStay
<1>9. CASE Initialized
  BY <1>1, <1>9 DEF Initialized, Waiting
<1>11. CASE DispatchTrade
  <2>1. /\ q # <<>> /\ queue' = Tail(q) /\ Head(q).type = "TRADE" /\ connected = TRUE /\ connected' = TRUE
        /\ dispatched' = dispatched /\ stage = "dispatch" /\ stage' = "bars"
        /\ barDicts' = Append(barDicts, Trade(Head(q).id, TradeDateTime(Head(q).dateTime)))
    BY <1>0, <1>11 DEF DispatchTrade, Hears, TypeOK
  <2>2. PICK e \in TradesOf : e = Head(q)
    <3>1. Head(q) \in EventsOf
      BY <2>1, HeadTailProperties
    <3> QED BY <2>1, <3>1 DEF EventsOf, Connected, Disconnected
  <2>3. PICK t \in TradesOf : t = Trade(e.id, TradeDateTime(e.dateTime)) /\ t.id = e.id
    <3>1. e.id \in Nat /\ e.dateTime \in Nat /\ prevTrade \in Nat
      BY DEF TradesOf, TypeOK
    <3>2. TradeDateTime(e.dateTime) \in Nat
      BY <3>1 DEF TradeDateTime
    <3>3. PICK x \in Nat : x = TradeDateTime(e.dateTime)
      BY <3>2
    <3>4. Trade(e.id, x) \in TradesOf /\ Trade(e.id, x).id = e.id
      BY <3>1 DEF Trade, TradesOf
    <3> QED BY <3>3, <3>4
  <2>4. PICK s \in Seq(TradesOf) : s = Taken(q, TRUE) /\ Deliverable(queue) = s
    BY <1>0, <2>1, PartsAre, DeliverableIs
  <2>5. s # <<>> /\ Head(s) = e /\ Tail(s) = Taken(Tail(q), TRUE)
    <3>1. Head(q) # Disconnected
      BY <2>1 DEF Disconnected
    <3> QED BY <2>1, <2>2, <2>4, <3>1, HeadTaken
  <2>6. PICK d \in Seq(Nat), b \in Seq(Nat), i \in Seq(Nat) : d = dispatched /\ b = Ids(barDicts) /\ i = Ids(s)
    BY <2>4, PartsAre, IdsAre
  <2>7. PICK n : i # <<>> /\ Head(i) = n /\ n = e.id /\ Tail(i) = Ids(Tail(s))
    BY <2>5, <2>6, IdsTail
  <2>8. Ids(barDicts') = Append(b, n)
    BY <2>1, <2>2, <2>3, <2>6, <2>7, IdsAppend DEF TypeOK
  <2>9. Ids(Deliverable(queue))' = Tail(i)
    <3>1. Deliverable(queue)' = Taken(Tail(q), TRUE)
      BY <2>1 DEF Deliverable, Taken
    <3> QED BY <2>5, <2>7, <3>1
  <2>10. PICK a \in Seq(Nat), k \in Seq(Nat) : Moved(b, i, a, k)
    <3>1. Head(i) \in Nat /\ Tail(i) \in Seq(Nat)
      BY <2>7, HeadTailProperties
    <3> QED BY <3>1, AppendProperties DEF Moved
  <2>11. AddedUp(d, b, i, r)
    BY <2>1, <2>4, <2>6 DEF TradesAre, AddedUp
  <2>12. AddedUp(d, a, k, r)
    BY <2>7, <2>10, <2>11, MoveBetween, Zenon
  <2>13. AddedUp(dispatched', Ids(barDicts'), Ids(Deliverable(queue))', r)
    BY <2>1, <2>6, <2>7, <2>8, <2>9, <2>10, <2>12 DEF Moved
  <2> QED BY <2>1, <2>13 DEF TradesAre, AddedUp
<1>12. CASE DispatchDisconnected
  <2>1. /\ q # <<>> /\ Head(q) = Disconnected /\ connected = TRUE /\ connected' = FALSE
        /\ UNCHANGED <<barDicts, dispatched>> /\ stage = "dispatch"
    BY <1>0, <1>12 DEF DispatchDisconnected, Hears, TypeOK
  <2>2. Taken(queue, connected) = <<>>
    BY <1>0, <2>1, HeadDisconnected
  <2>3. NoneConnected(q)
    BY <1>0, <2>1 DEF Hears
  <2>4. queue' = <<>> \/ queue' = Tail(q)
    BY <1>0, <1>12 DEF DispatchDisconnected, StartClient
  <2>5. Taken(<<>>, FALSE) = <<>> /\ Taken(Tail(q), FALSE) = <<>>
    <3>1. <<>> \in Seq(EventsOf) /\ Tail(q) \in Seq(EventsOf) /\ NoneConnected(Tail(q))
      BY <2>1, <2>3, HeadTailProperties, TailConnected, EmptySeq
    <3> QED BY <3>1, EmptyConnected, NothingTaken
  <2>6. Taken(queue, connected)' = <<>>
    BY <2>1, <2>4, <2>5
  <2> QED BY <2>1, <2>2, <2>6, TradesNone
<1>14. CASE DispatchBars
  <2>1. CASE barDicts = <<>>
    BY <1>1, <1>14, <2>1 DEF DispatchBars
  <2>2. CASE barDicts # <<>> /\ Head(barDicts).dateTime > current
    <3>1. /\ dispatched' = Append(dispatched, Head(barDicts).id) /\ barDicts' = Tail(barDicts)
          /\ queue' = queue /\ connected' = connected
          /\ stage = "bars" /\ stage' = "handler"
      BY <1>14, <2>2 DEF DispatchBars
    <3>2. PICK d \in Seq(Nat), b \in Seq(Nat), i \in Seq(Nat) :
            d = dispatched /\ b = Ids(barDicts) /\ i = Ids(Taken(queue, connected))
      BY PartsAre
    <3>3. b # <<>> /\ Head(b) = Head(barDicts).id /\ Tail(b) = Ids(Tail(barDicts))
      BY <2>2, <3>2, IdsTail DEF TypeOK
    <3>4. Append(d, Head(b)) \o Tail(b) = d \o b
      BY <3>3, MoveHead
    <3>5. (d \o b) \o i = r
      BY <3>1, <3>2, DeliverableIs DEF TradesAre
    <3>6. Ids(Deliverable(queue))' = i
      BY <3>1, <3>2 DEF Deliverable, Taken
    <3>7. dispatched' = Append(d, Head(b)) /\ Ids(barDicts') = Tail(b)
      BY <3>1, <3>2, <3>3
    <3> QED BY <3>1, <3>4, <3>5, <3>6, <3>7 DEF TradesAre
  <2>3. CASE barDicts # <<>> /\ ~(Head(barDicts).dateTime > current)
    BY <1>14, <2>3 DEF DispatchBars, TradesAre
  <2> QED BY <2>1, <2>2, <2>3
<1>15. CASE HandlersReturn
  BY <1>1, <1>15 DEF HandlersReturn
<1>16. CASE EndRun \/ Stop \/ Join
  BY <1>1, <1>16 DEF EndRun, Stop, Join
<1>17. CASE UNCHANGED vars
  BY <1>1, <1>17
<1> QED BY <1>2, <1>3, <1>4, <1>5, <1>7, <1>8, <1>9, <1>11, <1>12, <1>14, <1>15,
           <1>16, <1>17 DEF Next, Main

(* Every step keeps the trades accounted for.                              *)
LEMMA StepTrades ==
  ASSUME TypeOK, Hears, Trades, [Next]_vars
  PROVE  Trades'
<1>0. PICK n \in Nat : n = received
  BY DEF TypeOK
<1>1. PICK m \in SUBSET (1 .. n), r \in Seq(Nat) :
        n = received /\ m = missed /\ Enumerates(r, (1 .. n) \ m) /\ TradesAre(r)
  <2>1. missed \in SUBSET (1 .. n)
    BY <1>0 DEF Trades
  <2>2. PICK r \in Seq(Nat) : Enumerates(r, (1 .. n) \ missed) /\ TradesAre(r)
    BY <1>0 DEF Trades
  <2> QED BY <1>0, <2>1, <2>2
<1>2. CASE OnTrade
  <2>1. received' = n + 1
    BY <1>1, <1>2 DEF OnTrade
  <2>2. CASE TradesAre(Append(r, n + 1))' /\ missed' = m
    <3>1. Enumerates(Append(r, n + 1), (1 .. n + 1) \ m)
      BY <1>1, OneMoreTrade
    <3>3. n + 1 \in Nat /\ Append(r, n + 1) \in Seq(Nat)
      BY AppendProperties
    <3>2. m \subseteq 1 .. n + 1
      OBVIOUS
    <3> QED BY <2>1, <2>2, <3>1, <3>2, <3>3 DEF Trades
  <2>3. CASE TradesAre(r)' /\ missed' = m \cup {n + 1}
    <3>1. (1 .. n + 1) \ (m \cup {n + 1}) = (1 .. n) \ m /\ m \cup {n + 1} \subseteq 1 .. n + 1
      OBVIOUS
    <3> QED BY <1>1, <2>1, <2>3, <3>1 DEF Trades
  <2>4. PICK o \in Nat : o = n + 1
    OBVIOUS
  <2>5. \/ TradesAre(Append(r, o))' /\ missed' = missed
        \/ TradesAre(r)' /\ missed' = missed \cup {o}
    BY <1>1, <1>2, <2>4, TradeComes
  <2> QED BY <1>1, <2>2, <2>3, <2>4, <2>5
<1>3. CASE InitializationFailed
  <2>1. received' = n
    BY <1>1, <1>3 DEF InitializationFailed
  <2>2. PICK x \in Seq(Nat), i \in Seq(Nat) : r = x \o i /\ TradesAre(x)' /\ missed' = m \cup Range(i)
    BY <1>1, <1>3, ClientEnds
  <2>3. Enumerates(x, ((1 .. n) \ m) \ Range(i)) /\ Range(i) \subseteq (1 .. n) \ m
    <3>1. PICK S : S = (1 .. n) \ m
      OBVIOUS
    <3>2. Enumerates(x \o i, S)
      BY <1>1, <2>2, <3>1
    <3>3. Enumerates(x, S \ Range(i)) /\ Range(i) \subseteq S
      BY <3>2, FirstPart
    <3> QED BY <3>1, <3>3
  <2>4. ((1 .. n) \ m) \ Range(i) = (1 .. n) \ (m \cup Range(i)) /\ m \cup Range(i) \subseteq 1 .. n
    BY <2>3
  <2> QED BY <2>1, <2>2, <2>3, <2>4 DEF Trades
<1>4. CASE ~OnTrade /\ ~InitializationFailed
  <2>1. TradesAre(r)'
    BY <1>1, <1>4, TradesKept
  <2>2. received' = received /\ missed' = missed
    BY <1>4, TickTypes DEF Next, Main, Start, AwaitConnected, Initialized, TryAgain, DispatchTrade,
       DispatchDisconnected, DispatchBars, HandlersReturn, EndRun, Stop, Join, Opens,
       ConnectionFails, OnConnectionEstablished, OnPong, OnOtherMessage, OnClosed, Cut, vars, history
  <2> QED BY <1>1, <2>1, <2>2 DEF Trades
<1> QED BY <1>2, <1>3, <1>4

-----------------------------------------------------------------------------
(* What is proved *)

(* The invariant holds initially.                                          *)
LEMMA InitIInv == Init => IInv
<1> SUFFICES ASSUME Init PROVE IInv
  OBVIOUS
<1>1. TypeOK
  BY AgesStart, EmptySeq DEF Init, TypeOK, Stages
<1>2. KeepAlive
  BY DEF Init, KeepAlive
<1>3. Hears
  BY EmptyConnected DEF Init, Hears, Waiting
<1>4. Trades
  <2>1. connected = FALSE /\ queue = <<>> /\ barDicts = <<>> /\ dispatched = <<>>
        /\ received = 0 /\ missed = {} /\ stage = "start"
    BY DEF Init
  <2>2. Taken(<<>>, FALSE) = <<>> /\ <<>> \in Seq(EventsOf) /\ <<>> \in Seq(Nat)
    BY EmptySeq, EmptyConnected, NothingTaken
  <2>3. Ids(Deliverable(queue)) = <<>> /\ Ids(barDicts) = <<>>
    BY <2>1, <2>2, DeliverableIs, IdsEmpty
  <2>4. <<>> \o <<>> = <<>>
    BY <2>2, ConcatEmptySeq
  <2>5. Enumerates(<<>>, (1 .. 0) \ {}) /\ {} \subseteq 1 .. 0
    BY DEF Enumerates, Range
  <2>6. TradesAre(<<>>)
    BY <2>1, <2>3, <2>4 DEF TradesAre
  <2> QED BY <2>1, <2>2, <2>5, <2>6 DEF Trades
<1> QED BY <1>1, <1>2, <1>3, <1>4 DEF IInv

(* The invariant holds in every state.                                     *)
THEOREM Invariance == Spec => []IInv
<1>1. Init => IInv
  BY InitIInv
<1>2. IInv /\ [Next]_vars => IInv'
  BY StepTypes, StepKeepAlive, StepHears, StepTrades DEF IInv
<1> QED BY <1>1, <1>2, PTL DEF Spec

(* Trades become bars once and in the order they arrive, also across       *)
(* reconnections; none is lost but those that come after a DISCONNECTED,   *)
(* and those whose client ended before its CONNECTED was taken.            *)
THEOREM TradesInOrderCorrect == Spec => []TradesInOrder
<1>1. IInv => TradesInOrder
  BY DEF IInv, Trades, TradesAre, TradesInOrder
<1> QED BY <1>1, Invariance, PTL

(* A connection to a silent server does not stay open.                     *)
THEOREM SilenceBoundedCorrect == Spec => []SilenceBounded
<1>1. IInv => SilenceBounded
  <2> SUFFICES ASSUME IInv, link = "open" PROVE heard <= MaxInactivity + ResponseTimeout + 1
    BY DEF SilenceBounded
  <2>1. /\ MaxInactivity \in Nat /\ ResponseTimeout \in Nat /\ heard = idle
        /\ kaSent = Never => idle <= MaxInactivity
        /\ kaSent # Never => kaSent \in Int /\ kaSent <= ResponseTimeout /\ idle = MaxInactivity + 1 + kaSent
        /\ idle \in Int
    BY LiveTradeFeedAssumption DEF IInv, TypeOK, KeepAlive, Ages
  <2>2. CASE kaSent = Never
    BY <2>1, <2>2
  <2>3. CASE kaSent # Never
    BY <2>1, <2>3
  <2> QED BY <2>2, <2>3
<1> QED BY <1>1, Invariance, PTL

(* A connection is given up only if the server was silent, or if the       *)
(* keep-alive could not be sent to one that seemed to be.                  *)
THEOREM NoFalseAlarmCorrect == Spec => NoFalseAlarm
<1> DEFINE Alarm == link = "open" /\ link' = "closing" /\ stage' = stage
                      => heard' > MaxInactivity + ResponseTimeout \/ (heard' > MaxInactivity /\ faults' > faults)
<1>1. IInv /\ [Next]_vars => [Alarm]_vars
  <2> SUFFICES ASSUME IInv, Next, link = "open", link' = "closing", stage' = stage
               PROVE  heard' > MaxInactivity + ResponseTimeout \/ (heard' > MaxInactivity /\ faults' > faults)
    OBVIOUS
  <2>1. Tick
    BY DEF Next, Main, Start, AwaitConnected, Initialized, InitializationFailed, TryAgain, DispatchTrade,
           DispatchDisconnected, DispatchBars, HandlersReturn, EndRun, Stop, Join, Opens,
           ConnectionFails, OnConnectionEstablished, OnPong, OnOtherMessage, OnTrade, OnClosed, Cut, Receive,
           StartClient, client, main, world, history
  <2>2. faults \in Nat
    BY DEF IInv, TypeOK
  <2> QED BY <2>1, <2>2, TickOpen DEF IInv
<1>2. Spec => [][Alarm]_vars
  BY <1>1, Invariance, PTL DEF Spec
<1> QED BY <1>2 DEF NoFalseAlarm

-----------------------------------------------------------------------------
(* The feed of tweets *)

(* What came and what was emitted are sequences of tweets.                 *)
TweetsOK ==
  /\ tweets \in Seq(Nat) /\ emitted \in Seq(Nat) /\ arrived \in Nat
  /\ Twitter!TweetsInOrder

(* One more tweet is the last of those that came.                          *)
LEMMA OneMoreTweet ==
  ASSUME NEW n \in Nat, NEW s \in Seq(Nat), s = [i \in 1 .. n |-> i]
  PROVE  Append(s, n + 1) = [i \in 1 .. n + 1 |-> i]
<1>1. Len(s) = n /\ n + 1 \in Nat
  BY LenProperties
<1>2. PICK t \in Seq(Nat) : /\ t = Append(s, n + 1) /\ Len(t) = n + 1 /\ t[n + 1] = n + 1
                            /\ \A i \in 1 .. n : t[i] = s[i]
  <2>1. /\ Append(s, n + 1) \in Seq(Nat) /\ Len(Append(s, n + 1)) = Len(s) + 1
        /\ Append(s, n + 1)[Len(s) + 1] = n + 1 /\ \A i \in 1 .. Len(s) : Append(s, n + 1)[i] = s[i]
    BY <1>1, AppendProperties
  <2> QED BY <1>1, <2>1
<1>3. DOMAIN t = 1 .. n + 1 /\ t = [i \in DOMAIN t |-> t[i]]
  BY <1>2, LenProperties
<1>4. \A i \in 1 .. n + 1 : t[i] = i
  <2>1. \A i \in 1 .. n + 1 : i \in 1 .. n \/ i = n + 1
    OBVIOUS
  <2> QED BY <1>2, <2>1
<1> QED BY <1>2, <1>3, <1>4

(* Every step keeps the tweets in order: one that arrives comes last, one  *)
(* that is emitted moves from the front of the queue to the end of those   *)
(* emitted.                                                                *)
LEMMA StepTweets ==
  ASSUME TweetsOK, [Twitter!Next]_(Twitter!vars)
  PROVE  TweetsOK'
<1>1. PICK q \in Seq(Nat), e \in Seq(Nat), n \in Nat, s \in Seq(Nat) :
        q = tweets /\ e = emitted /\ n = arrived /\ s = e \o q /\ s = [i \in 1 .. n |-> i]
  <2>1. emitted \o tweets \in Seq(Nat)
    BY ConcatProperties DEF TweetsOK
  <2> QED BY <2>1 DEF TweetsOK, Twitter!TweetsInOrder
<1>2. CASE Twitter!OnData
  <2>1. arrived' = n + 1 /\ tweets' = Append(q, n + 1) /\ emitted' = e /\ n + 1 \in Nat
    BY <1>1, <1>2 DEF Twitter!OnData
  <2>2. Append(q, n + 1) \in Seq(Nat)
    BY <2>1, AppendProperties
  <2>3. e \o Append(q, n + 1) = Append(s, n + 1)
    <3>1. PICK m \in Nat : m = n + 1
      BY <2>1
    <3>2. e \o Append(q, m) = Append(e \o q, m)
      BY ONLY AppendToBoth, e \in Seq(Nat), q \in Seq(Nat), m \in Nat
    <3> QED BY <1>1, <3>1, <3>2
  <2>4. Append(s, n + 1) = [i \in 1 .. n + 1 |-> i]
    BY <1>1, OneMoreTweet
  <2>5. Twitter!TweetsInOrder'
    BY <2>1, <2>3, <2>4 DEF Twitter!TweetsInOrder
  <2> QED BY <2>1, <2>2, <2>5 DEF TweetsOK
<1>3. CASE Twitter!EmitTweet
  <2>1. q # <<>> /\ emitted' = Append(e, Head(q)) /\ tweets' = Tail(q) /\ arrived' = n
    BY <1>1, <1>3 DEF Twitter!EmitTweet
  <2>2. Append(e, Head(q)) \in Seq(Nat) /\ Tail(q) \in Seq(Nat)
    BY <2>1, AppendProperties, HeadTailProperties
  <2>3. Append(e, Head(q)) \o Tail(q) = s
    <3>1. q # <<>>
      BY <2>1
    <3>2. Append(e, Head(q)) \o Tail(q) = e \o q
      BY ONLY MoveHead, <3>1, e \in Seq(Nat), q \in Seq(Nat)
    <3> QED BY <1>1, <3>2
  <2>4. Twitter!TweetsInOrder'
    BY <1>1, <2>1, <2>3 DEF Twitter!TweetsInOrder
  <2> QED BY <2>1, <2>2, <2>4 DEF TweetsOK
<1>4. CASE UNCHANGED <<tweets, arrived, emitted>>
  BY <1>4 DEF TweetsOK, Twitter!TweetsInOrder
<1> QED BY <1>2, <1>3, <1>4 DEF Twitter!Next, Twitter!Main, Twitter!FilterEnds, Twitter!StartThread, Twitter!SetRunning,
      Twitter!BeginDispatch, Twitter!NoTweet, Twitter!Stop, Twitter!Join, Twitter!vars

(* Tweets are emitted once, in the order they arrive.                      *)
THEOREM TweetsInOrderCorrect == Twitter!Spec => []TweetsInOrder
<1>1. Twitter!Init => TweetsOK
  <2> SUFFICES ASSUME Twitter!Init PROVE TweetsOK
    OBVIOUS
  <2>1. tweets = <<>> /\ emitted = <<>> /\ arrived = 0 /\ <<>> \in Seq(Nat)
    BY EmptySeq DEF Twitter!Init
  <2>2. <<>> \o <<>> = <<>>
    BY <2>1, ConcatEmptySeq
  <2>3. [i \in 1 .. 0 |-> i] = <<>>
    OBVIOUS
  <2> QED BY <2>1, <2>2, <2>3 DEF TweetsOK, Twitter!TweetsInOrder
<1>2. TweetsOK /\ [Twitter!Next]_(Twitter!vars) => TweetsOK'
  BY StepTweets
<1>3. TweetsOK => TweetsInOrder
  BY DEF TweetsOK, TweetsInOrder
<1> QED BY <1>1, <1>2, <1>3, PTL DEF Twitter!Spec


-----------------------------------------------------------------------------
(* Feeds of other values: the invariant *)

Value == [at : Int, columns : SUBSET Values!ColumnNames, id : Nat]

ValuesTypeOK ==
  /\ zone \in Zones /\ timeDelta \in Int /\ rowFilter \in Filters \cup {NoFilter}
  /\ values \in Seq(Value) /\ nextIdx \in 1 .. Len(values) + 1
  /\ inProgress \in BOOLEAN /\ series \in [Values!ColumnNames -> Seq(Value)]
  /\ kept \in Nat /\ raised \in {"none", "row", "nothing", "order"}

(* Every value that was kept is in the list once.                          *)
ValueIds(s) == {s[k].id : k \in 1 .. Len(s)}
EachKept == ValueIds(values) = 1 .. kept /\ Len(values) = kept

AscendingAt(s) == \A k \in 2 .. Len(s) : s[k - 1].at < s[k].at
SeriesInOrder == \A c \in Values!ColumnNames : AscendingAt(series[c])

(* The values dispatched, and those that have a column.                    *)
Done == SubSeq(values, 1, nextIdx - 1)
Having(s, c) == {k \in 1 .. Len(s) : c \in s[k].columns}
InSeries ==
  raised = "none" => \A c \in Values!ColumnNames : series[c] = Picked(Done, Having(Done, c))

(* Between runs the feed is at its start.                                  *)
Idle == ~inProgress => nextIdx = 1 /\ raised # "order"

(* Unless more is loaded during the run, the list is in the order of time. *)
InTimeOrder ==
  inProgress /\ late = {} => \A j, k \in 1 .. Len(values) : j < k => values[j].at <= values[k].at

SameTime ==
  raised = "order" /\ late = {} =>
    \E a, b \in 1 .. Len(values) :
      a # b /\ values[a].at = values[b].at /\ values[a].columns \cap values[b].columns # {}

ValuesInv ==
  ValuesTypeOK /\ EachKept /\ SeriesInOrder /\ InSeries /\ Idle /\ InTimeOrder /\ SameTime

-----------------------------------------------------------------------------
(* The operators of ValueFeed on lists are those of Sorting.       *)
LEMMA ValuesCardinality == \A S : Values!Cardinality(S) = Cardinality(S)
BY DEF Values!Cardinality, Cardinality

LEMMA ValuesInOrder ==
  ASSUME NEW S
  PROVE  Values!InOrder(S) = InOrder(S)
<1>1. ASSUME NEW k
      PROVE  (CHOOSE a \in S : Values!Cardinality({b \in S : b < a}) = k - 1)
               = (CHOOSE a \in S : Cardinality({b \in S : b < a}) = k - 1)
  <2>1. \A a \in S : Values!Cardinality({b \in S : b < a}) = Cardinality({b \in S : b < a})
    BY ValuesCardinality
  <2>2. \A a \in S : Values!Cardinality({b \in S : b < a}) = k - 1
                    <=> Cardinality({b \in S : b < a}) = k - 1
    BY <2>1
  <2> QED BY <2>2, Zenon
<1>2. Values!Cardinality(S) = Cardinality(S)
  BY ValuesCardinality
<1>3. Values!InOrder(S) = [k \in 1 .. Cardinality(S) |->
                            CHOOSE a \in S : Values!Cardinality({b \in S : b < a}) = k - 1]
  BY <1>2 DEF Values!InOrder
<1>4. Values!InOrder(S) = [k \in 1 .. Cardinality(S) |->
                            CHOOSE a \in S : Cardinality({b \in S : b < a}) = k - 1]
  BY <1>1, <1>3, Zenon
<1> QED BY <1>4, Zenon DEF InOrder

LEMMA ValuesPicked ==
  ASSUME NEW s, NEW at
  PROVE  Values!Picked(s, at) = Picked(s, at)
BY ValuesCardinality, ValuesInOrder DEF Values!Picked, Picked

LEMMA ValuesSorted ==
  ASSUME NEW s, NEW key
  PROVE  Values!SortedBy(s, key) = SortedBy(s, key)
<1> DEFINE before(a) == {b \in DOMAIN key : key[b] < key[a] \/ (key[b] = key[a] /\ b < a)}
           first(k) == CHOOSE a \in DOMAIN key : Cardinality(before(a)) = k - 1
           theirs(k) == CHOOSE a \in DOMAIN key : Values!Cardinality(before(a)) = k - 1
<1>1. ASSUME NEW k PROVE theirs(k) = first(k)
  <2>1. \A a \in DOMAIN key : Values!Cardinality(before(a)) = Cardinality(before(a))
    BY ValuesCardinality
  <2>2. \A a \in DOMAIN key : Values!Cardinality(before(a)) = k - 1 <=> Cardinality(before(a)) = k - 1
    BY <2>1
  <2> HIDE DEF before
  <2> QED BY <2>2, Zenon
<1>2. Values!OrderBy(key) = [k \in DOMAIN key |-> theirs(k)]
  BY Zenon DEF Values!OrderBy
<1>3. OrderBy(key) = [k \in DOMAIN key |-> first(k)]
  BY Zenon DEF OrderBy
<1> HIDE DEF first, theirs
<1>4. Values!OrderBy(key) = OrderBy(key)
  BY <1>1, <1>2, <1>3, Zenon
<1> QED BY <1>4 DEF Values!SortedBy, SortedBy

(* The invariant implies the property.                                     *)
LEMMA ValuesInvImplies == ValuesInv => Values!ValuesOnceInOrder
<1> SUFFICES ASSUME ValuesInv PROVE Values!ValuesOnceInOrder
  OBVIOUS
<1>1. DOMAIN values = 1 .. Len(values)
  BY LenProperties DEF ValuesInv, ValuesTypeOK
<1>2. {values[k].id : k \in DOMAIN values} = 1 .. Len(values) /\ Len(values) = kept
  BY <1>1 DEF ValuesInv, EachKept, ValueIds
<1>3. \A c \in Values!ColumnNames : \A k \in 2 .. Len(series[c]) : series[c][k - 1].at < series[c][k].at
  BY DEF ValuesInv, SeriesInOrder, AscendingAt
<1>4. ASSUME ~ Values!Fails, NEW c \in Values!ColumnNames
      PROVE  series[c] = Values!Picked(Done, {k \in DOMAIN Done : c \in Done[k].columns})
  <2>1. raised = "none"
    BY <1>4 DEF Values!Fails
  <2>2. series[c] = Picked(Done, Having(Done, c))
    BY <2>1 DEF ValuesInv, InSeries
  <2>3. Done \in Seq(Value) /\ DOMAIN Done = 1 .. Len(Done)
    BY SubSeqProperties, LenProperties DEF ValuesInv, ValuesTypeOK, Done
  <2>4. Having(Done, c) = {k \in DOMAIN Done : c \in Done[k].columns}
    BY <2>3 DEF Having
  <2> QED BY <2>2, <2>4, ValuesPicked
<1>5. raised = "order" /\ late = {} =>
        \E a, b \in DOMAIN values :
          a # b /\ values[a].at = values[b].at /\ values[a].columns \cap values[b].columns # {}
  BY <1>1 DEF ValuesInv, SameTime
<1> QED BY <1>2, <1>3, <1>4, <1>5 DEF Values!ValuesOnceInOrder, Done

(* No value is in the series at first.                                     *)
LEMMA NothingPicked ==
  ASSUME NEW c
  PROVE  Picked(<< >>, Having(<< >>, c)) = << >>
<1>1. << >> \in Seq({}) /\ Len(<< >>) = 0 /\ Having(<< >>, c) = {}
  BY DEF Having
<1>2. PICK none \in Seq({}) : none = << >> /\ Len(none) = 0
  BY <1>1
<1>3. Len(Picked(none, {})) = Cardinality({}) /\ Picked(none, {}) \in Seq({})
  BY <1>2, PickedIs
<1>4. Cardinality({}) = 0
  BY FS_EmptySet
<1>5. Picked(none, {}) = << >>
  BY <1>3, <1>4, EmptySeq
<1> QED BY <1>1, <1>2, <1>5

LEMMA ValuesInitInv == StoredInit => ValuesInv
<1> SUFFICES ASSUME Values!ValuesInit PROVE ValuesInv
  BY DEF StoredInit
<1> USE DEF Values!ValuesInit
<1>1. values = << >> /\ << >> \in Seq(Value) /\ Len(<< >>) = 0
  OBVIOUS
<1>2. ValuesTypeOK
  <2>1. series \in [Values!ColumnNames -> Seq(Value)]
    BY <1>1
  <2>2. nextIdx \in 1 .. Len(values) + 1
    BY <1>1
  <2>3. inProgress = FALSE /\ raised = "none" /\ kept = 0 /\ timeDelta = 0
    OBVIOUS
  <2>4. zone \in Zones /\ rowFilter \in Filters \cup {NoFilter}
    OBVIOUS
  <2>5. inProgress \in BOOLEAN /\ raised \in {"none", "row", "nothing", "order"}
    BY <2>3
  <2>6. kept \in Nat /\ timeDelta \in Int /\ values \in Seq(Value)
    BY <1>1, <2>3
  <2> QED BY ONLY <2>1, <2>2, <2>4, <2>5, <2>6 DEF ValuesTypeOK
<1>3. EachKept
  BY <1>1 DEF EachKept, ValueIds
<1>4. SeriesInOrder
  BY DEF SeriesInOrder, AscendingAt
<1>5. InSeries
  <2>1. Done = << >>
    BY <1>1, SubSeqProperties DEF Done
  <2> QED BY <2>1, NothingPicked DEF InSeries
<1> QED BY <1>2, <1>3, <1>4, <1>5 DEF ValuesInv, Idle, InTimeOrder, SameTime

-----------------------------------------------------------------------------
(* Feeds of other values: every step keeps the invariant *)

(* What a row becomes.                                                     *)
LEMMA ParseRowType ==
  ASSUME ValuesTypeOK, NEW file \in Files, NEW k \in 1 .. Len(file)
  PROVE  Values!ParseRow(file[k]) \in Int
<1>1. file \in Seq([time : Nat, adjClose : BOOLEAN, malformed : BOOLEAN])
  BY StoredAssumption
<1>2. file[k].time \in Int
  <2>1. file[k] \in [time : Nat, adjClose : BOOLEAN, malformed : BOOLEAN]
    BY <1>1, ElementOfSeq
  <2> QED BY <2>1
<1>3. Offset(zone) \in Int /\ timeDelta \in Int
  BY StoredAssumption DEF ValuesTypeOK
<1> QED BY <1>2, <1>3 DEF Values!ParseRow

(* Values that are added to the list leave what was dispatched as it is.   *)
LEMMA DoneStays ==
  ASSUME NEW v \in Seq(Value), NEW w \in Seq(Value), NEW n \in 1 .. Len(v) + 1
  PROVE  SubSeq(v \o w, 1, n - 1) = SubSeq(v, 1, n - 1)
<1>1. PICK m \in Nat : m = n - 1 /\ m <= Len(v)
  <2>1. Len(v) \in Nat
    BY LenProperties
  <2> QED BY <2>1
<1>2. PICK x \in Seq(Value) : x = v \o w /\ Len(x) = Len(v) + Len(w) /\ \A k \in 1 .. Len(v) : x[k] = v[k]
  <2>1. /\ v \o w \in Seq(Value) /\ Len(v \o w) = Len(v) + Len(w)
        /\ \A k \in 1 .. Len(v) : (v \o w)[k] = v[k]
    BY Joined
  <2> QED BY <2>1
<1>3. Len(v) \in Nat /\ Len(w) \in Nat
  BY LenProperties
<1>4. SubSeq(x, 1, m) = [k \in 1 .. m |-> x[k]] /\ SubSeq(v, 1, m) = [k \in 1 .. m |-> v[k]]
  BY <1>1, <1>2, <1>3
<1>5. \A k \in 1 .. m : x[k] = v[k]
  BY <1>1, <1>2, <1>3
<1>6. SubSeq(x, 1, m) = SubSeq(v, 1, m)
  BY <1>4, <1>5
<1> QED BY <1>1, <1>2, <1>6

LEMMA ValuesLoad ==
  ASSUME ValuesInv, Values!AddValuesFromCSV
  PROVE  ValuesInv'
<1> USE DEF ValuesInv
<1>1. PICK file \in Files, columns \in Columns :
        LET at  == [k \in DOMAIN file |-> Values!ParseRow(file[k])]
            new == Values!Picked(at, {k \in DOMAIN at : Values!IncludeRow(at[k])})
        IN
        /\ raised = "none"
        /\ raised' = IF Values!RowRaises(file) THEN "row" ELSE IF new = << >> THEN "nothing" ELSE "none"
        /\ IF raised' # "none" THEN UNCHANGED <<values, kept, late>>
           ELSE /\ values' = values \o [k \in DOMAIN new |->
                                          [at |-> new[k], columns |-> columns, id |-> kept + k]]
                /\ kept' = kept + Len(new)
                /\ late' = IF inProgress THEN late \cup (kept + 1 .. kept') ELSE late
        /\ UNCHANGED <<zone, timeDelta, rowFilter, nextIdx, inProgress, series>>
  BY DEF Values!AddValuesFromCSV, Values!Fails
<1> DEFINE at == [k \in DOMAIN file |-> Values!ParseRow(file[k])]
           those == {k \in DOMAIN at : Values!IncludeRow(at[k])}
<1>2. PICK new \in Seq(Int) : new = Values!Picked(at, those)
  <2>1. file \in Seq([time : Nat, adjClose : BOOLEAN, malformed : BOOLEAN])
    BY StoredAssumption
  <2>2. DOMAIN file = 1 .. Len(file)
    BY <2>1, LenProperties
  <2>3. at \in [1 .. Len(file) -> Int]
    BY <2>2, ParseRowType
  <2>4. Len(file) \in Nat
    BY <2>1, LenProperties
  <2>5. at \in Seq(Int) /\ Len(at) = Len(file)
    BY <2>3, <2>4
  <2>6. those \in SUBSET (1 .. Len(at))
    BY <2>3, <2>5
  <2> HIDE DEF at, those
  <2>7. Picked(at, those) \in Seq(Int)
    BY <2>5, <2>6, PickedIs
  <2> QED BY <2>7, ValuesPicked
<1>3. /\ raised = "none"
      /\ raised' \in {"row", "nothing", "none"}
      /\ raised' = "none" => new # << >>
      /\ IF raised' # "none" THEN UNCHANGED <<values, kept, late>>
         ELSE /\ values' = values \o [k \in DOMAIN new |->
                                        [at |-> new[k], columns |-> columns, id |-> kept + k]]
              /\ kept' = kept + Len(new)
              /\ late' = IF inProgress THEN late \cup (kept + 1 .. kept') ELSE late
      /\ UNCHANGED <<zone, timeDelta, rowFilter, nextIdx, inProgress, series>>
  BY <1>1, <1>2
<1> HIDE DEF at, those
<1>4. CASE raised' # "none"
  <2>1. UNCHANGED <<values, kept, late, zone, timeDelta, rowFilter, nextIdx, inProgress, series>>
    BY <1>3, <1>4
  <2>2. ValuesTypeOK' /\ EachKept' /\ SeriesInOrder'
    BY <1>3, <2>1 DEF ValuesTypeOK, EachKept, SeriesInOrder, ValueIds
  <2>3. InSeries' /\ Idle' /\ InTimeOrder' /\ SameTime'
    BY <1>3, <1>4, <2>1 DEF InSeries, Idle, InTimeOrder, SameTime
  <2> QED BY <2>2, <2>3
<1>5. CASE raised' = "none"
  <2>1. new # << >> /\ Len(new) \in Nat /\ Len(new) # 0 /\ DOMAIN new = 1 .. Len(new)
    BY <1>3, <1>5, LenProperties, EmptySeq
  <2>2. PICK w \in Seq(Value) :
          /\ Len(w) = Len(new) /\ values' = values \o w
          /\ \A k \in 1 .. Len(new) : w[k].id = kept + k
    <3>1. PICK w : w = [k \in 1 .. Len(new) |-> [at |-> new[k], columns |-> columns, id |-> kept + k]]
      OBVIOUS
    <3>2. \A k \in 1 .. Len(new) : [at |-> new[k], columns |-> columns, id |-> kept + k] \in Value
      <4>1. \A k \in 1 .. Len(new) : new[k] \in Int /\ kept + k \in Nat
        BY <2>1, ElementOfSeq DEF ValuesTypeOK
      <4>2. columns \in SUBSET Values!ColumnNames
        BY DEF Values!ColumnNames
      <4> QED BY <4>1, <4>2 DEF Value
    <3>3. w \in [1 .. Len(new) -> Value]
      BY <3>1, <3>2
    <3>4. w \in Seq(Value) /\ Len(w) = Len(new)
      BY <2>1, <3>3
    <3>5. values' = values \o w
      BY <1>3, <1>5, <2>1, <3>1
    <3> QED BY <3>1, <3>4, <3>5
  <2>3. /\ kept' = kept + Len(new)
        /\ late' = IF inProgress THEN late \cup (kept + 1 .. kept') ELSE late
        /\ UNCHANGED <<zone, timeDelta, rowFilter, nextIdx, inProgress, series>>
    BY <1>3, <1>5
  <2>4. /\ values \in Seq(Value) /\ Len(values) \in Nat /\ Len(values) = kept /\ kept \in Nat
        /\ ValueIds(values) = 1 .. kept
    BY LenProperties DEF ValuesTypeOK, EachKept
  <2>5. PICK x \in Seq(Value) :
          /\ x = values \o w /\ Len(x) = Len(values) + Len(new)
          /\ \A k \in 1 .. Len(values) : x[k] = values[k]
          /\ \A k \in 1 .. Len(new) : x[Len(values) + k] = w[k]
    <3>1. /\ values \o w \in Seq(Value) /\ Len(values \o w) = Len(values) + Len(w)
          /\ \A k \in 1 .. Len(values) : (values \o w)[k] = values[k]
          /\ \A k \in 1 .. Len(w) : (values \o w)[Len(values) + k] = w[k]
      <4>1. PICK e \in Seq(Value) : e = values
        BY <2>4
      <4>2. /\ e \o w \in Seq(Value) /\ Len(e \o w) = Len(e) + Len(w)
            /\ \A k \in 1 .. Len(e) : (e \o w)[k] = e[k]
            /\ \A k \in 1 .. Len(w) : (e \o w)[Len(e) + k] = w[k]
        <5>1. e \in Seq(Value) /\ w \in Seq(Value)
          OBVIOUS
        <5> QED BY ONLY <5>1, Joined
      <4> QED BY <4>1, <4>2
    <3> QED BY <2>2, <3>1
  <2>6. ValuesTypeOK'
    <3>1. nextIdx \in 1 .. Len(x) + 1
      BY <2>1, <2>4, <2>5 DEF ValuesTypeOK
    <3>2. kept' \in Nat
      BY <2>1, <2>3, <2>4
    <3> QED BY <1>5, <2>2, <2>3, <2>5, <3>1, <3>2 DEF ValuesTypeOK
  <2>7. EachKept'
    <3>1. ValueIds(x) = 1 .. kept + Len(new)
      <4>1. ASSUME NEW k \in 1 .. Len(x) PROVE x[k].id \in 1 .. kept + Len(new)
        <5>1. CASE k \in 1 .. kept
          <6>1. x[k].id \in 1 .. kept
            BY <2>4, <2>5, <5>1 DEF ValueIds
          <6> QED BY <2>1, <2>4, <6>1
        <5>2. CASE k \notin 1 .. kept
          <6>1. PICK j \in 1 .. Len(new) : k = kept + j
            <7>1. k - kept \in 1 .. Len(new) /\ k = kept + (k - kept)
              BY <2>1, <2>4, <2>5, <5>2
            <7> QED BY <7>1
          <6>2. x[k].id = kept + j
            BY <2>2, <2>4, <2>5, <6>1
          <6> QED BY <2>1, <2>4, <6>2
        <5> QED BY <5>1, <5>2
      <4>2. ASSUME NEW i \in 1 .. kept + Len(new) PROVE \E k \in 1 .. Len(x) : x[k].id = i
        <5>1. CASE i \in 1 .. kept
          <6>1. PICK k \in 1 .. Len(values) : values[k].id = i
            BY <2>4, <5>1 DEF ValueIds
          <6>2. k \in 1 .. Len(x) /\ x[k].id = i
            BY <2>1, <2>4, <2>5, <6>1
          <6> QED BY <6>2
        <5>2. CASE i \notin 1 .. kept
          <6>1. PICK j \in 1 .. Len(new) : i = kept + j
            <7>1. i - kept \in 1 .. Len(new) /\ i = kept + (i - kept)
              BY <2>1, <2>4, <5>2
            <7> QED BY <7>1
          <6>2. i \in 1 .. Len(x) /\ x[i].id = i
            BY <2>1, <2>2, <2>4, <2>5, <6>1
          <6> QED BY <6>2
        <5> QED BY <5>1, <5>2
      <4> QED BY <4>1, <4>2 DEF ValueIds
    <3> QED BY <2>2, <2>3, <2>4, <2>5, <3>1 DEF EachKept
  <2>8. SeriesInOrder' /\ Idle'
    BY <1>5, <2>3 DEF SeriesInOrder, Idle
  <2>9. InSeries'
    <3>1. SubSeq(values \o w, 1, nextIdx - 1) = SubSeq(values, 1, nextIdx - 1)
      BY <2>4, DoneStays DEF ValuesTypeOK
    <3>2. Done' = Done
      BY <2>2, <2>3, <3>1 DEF Done
    <3> QED BY <1>3, <2>3, <3>2 DEF InSeries, Having
  <2>10. inProgress' => late' # {}
    <3>1. kept + 1 \in kept + 1 .. kept'
      BY <2>1, <2>3, <2>4
    <3> QED BY <2>3, <3>1
  <2>11. InTimeOrder' /\ SameTime'
    BY <1>5, <2>10 DEF InTimeOrder, SameTime
  <2> QED BY <2>6, <2>7, <2>8, <2>9, <2>11
<1> QED BY <1>4, <1>5

LEMMA ValuesSettings ==
  ASSUME ValuesInv, Values!SetDateRange \/ Values!SetTimeDelta
  PROVE  ValuesInv'
<1> USE DEF ValuesInv
<1>1. UNCHANGED <<values, kept, late, zone, nextIdx, inProgress, series, raised>>
  BY DEF Values!SetDateRange, Values!SetTimeDelta
<1>2. rowFilter' \in Filters \cup {NoFilter} /\ timeDelta' \in Int
  BY StoredAssumption DEF Values!SetDateRange, Values!SetTimeDelta, ValuesTypeOK
<1>3. ValuesTypeOK' /\ EachKept' /\ SeriesInOrder'
  BY <1>1, <1>2 DEF ValuesTypeOK, EachKept, SeriesInOrder, ValueIds
<1>4. InSeries' /\ Idle' /\ InTimeOrder' /\ SameTime'
  BY <1>1 DEF InSeries, Idle, InTimeOrder, SameTime, Done, Having
<1> QED BY <1>3, <1>4

LEMMA ValuesStart ==
  ASSUME ValuesInv, Values!Start
  PROVE  ValuesInv'
<1> USE DEF ValuesInv
<1>1. /\ raised = "none" /\ inProgress = FALSE /\ inProgress' = TRUE /\ late' = {}
      /\ values' = Values!SortedBy(values, [k \in DOMAIN values |-> values[k].at])
      /\ UNCHANGED <<zone, timeDelta, rowFilter, nextIdx, series, kept, raised>>
  BY DEF Values!Start, Values!Fails, ValuesTypeOK
<1>2. PICK v \in Seq(Value) : v = values
  BY DEF ValuesTypeOK
<1>3. PICK n \in Nat : n = Len(v) /\ DOMAIN v = 1 .. n
  BY LenProperties
<1>4. PICK key \in [1 .. n -> Int] : key = [k \in 1 .. n |-> v[k].at]
  <2>1. \A k \in 1 .. n : v[k].at \in Int
    <3>1. \A k \in 1 .. n : v[k] \in Value
      BY <1>3, ElementOfSeq
    <3> QED BY <3>1 DEF Value
  <2> QED BY <2>1
<1>5. PICK w, p : /\ w \in Seq(Value) /\ w = values' /\ Len(w) = n
                  /\ SortsBy(p, key, n) /\ \A k \in 1 .. n : w[k] = v[p[k]]
  <2>1. values' = SortedBy(v, key)
    BY <1>1, <1>2, <1>3, <1>4, ValuesSorted
  <2>2. /\ SortedBy(v, key) \in Seq(Value) /\ Len(SortedBy(v, key)) = Len(v)
        /\ \E p : /\ SortsBy(p, key, Len(v))
                 /\ \A k \in 1 .. Len(v) : SortedBy(v, key)[k] = v[p[k]]
    BY <1>3, SortedByIs
  <2> QED BY <1>3, <2>1, <2>2
<1>6. /\ p \in [1 .. n -> 1 .. n]
      /\ \A j, k \in 1 .. n : j < k => key[p[j]] < key[p[k]] \/ (key[p[j]] = key[p[k]] /\ p[j] < p[k])
      /\ \A a \in 1 .. n : \E k \in 1 .. n : p[k] = a
  BY <1>5 DEF SortsBy
<1>7. nextIdx = 1
  BY <1>1 DEF Idle
<1>8. ValuesTypeOK'
  <2>1. nextIdx \in 1 .. Len(w) + 1
    BY <1>5, <1>7
  <2> QED BY <1>1, <1>5, <2>1 DEF ValuesTypeOK
<1>9. EachKept'
  <2>1. ValueIds(w) = ValueIds(v)
    <3>1. ASSUME NEW k \in 1 .. n PROVE \E j \in 1 .. n : v[j].id = w[k].id
      <4>1. p[k] \in 1 .. n /\ w[k] = v[p[k]]
        BY <1>5, <1>6
      <4> QED BY <4>1
    <3>2. ASSUME NEW j \in 1 .. n PROVE \E k \in 1 .. n : v[j].id = w[k].id
      <4>1. PICK k \in 1 .. n : p[k] = j
        BY <1>6
      <4>2. w[k] = v[j]
        BY <1>5, <4>1
      <4> QED BY <4>2
    <3>3. ValueIds(w) = {w[k].id : k \in 1 .. n} /\ ValueIds(v) = {v[j].id : j \in 1 .. n}
      BY <1>3, <1>5 DEF ValueIds
    <3>4. \A x : x \in ValueIds(w) <=> x \in ValueIds(v)
      BY <3>1, <3>2, <3>3
    <3> QED BY <3>4
  <2> QED BY <1>1, <1>2, <1>3, <1>5, <2>1 DEF EachKept
<1>10. SeriesInOrder' /\ Idle' /\ SameTime'
  BY <1>1 DEF SeriesInOrder, Idle, SameTime
<1>11. InSeries'
  <2>1. SubSeq(w, 1, 0) = << >> /\ SubSeq(v, 1, 0) = << >>
    BY SubSeqProperties
  <2>2. Done' = Done
    BY <1>1, <1>2, <1>5, <1>7, <2>1 DEF Done
  <2> QED BY <1>1, <2>2 DEF InSeries, Having
<1>12. InTimeOrder'
  <2>1. \A j, k \in 1 .. n : j < k => w[j].at <= w[k].at
    <3>1. \A k \in 1 .. n : w[k].at = key[p[k]] /\ key[p[k]] \in Int
      BY <1>4, <1>5, <1>6
    <3>2. SUFFICES ASSUME NEW j \in 1 .. n, NEW k \in 1 .. n, j < k
                   PROVE  key[p[j]] <= key[p[k]]
      BY <3>1
    <3>3. key[p[j]] < key[p[k]] \/ key[p[j]] = key[p[k]]
      BY <1>6, <3>2
    <3> QED BY <3>1, <3>3
  <2> QED BY <1>5, <2>1 DEF InTimeOrder
<1> QED BY <1>8, <1>9, <1>10, <1>11, <1>12

(* One more value among those dispatched is one more of its columns.       *)
LEMMA HavingNext ==
  ASSUME NEW d \in Seq(Value), NEW e \in Value, NEW c
  PROVE  Picked(Append(d, e), Having(Append(d, e), c)) =
           IF c \in e.columns THEN Append(Picked(d, Having(d, c)), e) ELSE Picked(d, Having(d, c))
<1>1. PICK n \in Nat : n = Len(d)
  BY LenProperties
<1>2. PICK x \in Seq(Value) : /\ x = Append(d, e) /\ Len(x) = n + 1 /\ x[n + 1] = e
                              /\ \A k \in 1 .. n : x[k] = d[k]
  <2>1. /\ Append(d, e) \in Seq(Value) /\ Len(Append(d, e)) = Len(d) + 1
        /\ Append(d, e)[Len(d) + 1] = e /\ \A k \in 1 .. Len(d) : Append(d, e)[k] = d[k]
    BY AppendProperties
  <2> QED BY <1>1, <2>1
<1>3. PICK those : those = Having(d, c) /\ those \in SUBSET (1 .. n)
  BY <1>1 DEF Having
<1>4. CASE c \in e.columns
  <2>1. Having(x, c) = those \cup {n + 1}
    <3>1. \A k \in 1 .. n + 1 : c \in x[k].columns <=> k \in those \/ k = n + 1
      BY <1>1, <1>2, <1>3, <1>4 DEF Having
    <3>2. 1 .. n + 1 = (1 .. n) \cup {n + 1}
      OBVIOUS
    <3> QED BY <1>2, <1>3, <3>1, <3>2 DEF Having
  <2>2. Picked(Append(d, e), those \cup {Len(d) + 1}) = Append(Picked(d, those), e)
    BY <1>1, <1>3, PickedOneMore
  <2> QED BY <1>1, <1>2, <1>3, <1>4, <2>1, <2>2
<1>5. CASE c \notin e.columns
  <2>1. Having(x, c) = those
    <3>1. \A k \in 1 .. n + 1 : c \in x[k].columns <=> k \in those
      <4>1. ~(n + 1 \in 1 .. n)
        OBVIOUS
      <4> QED BY <1>1, <1>2, <1>3, <1>5, <4>1 DEF Having
    <3>2. 1 .. n + 1 = (1 .. n) \cup {n + 1}
      OBVIOUS
    <3> QED BY <1>2, <1>3, <3>1, <3>2 DEF Having
  <2>2. Picked(x, those) = Picked(d, those)
    <3>1. Len(d) <= Len(x) /\ \A k \in 1 .. Len(d) : x[k] = d[k]
      BY <1>1, <1>2
    <3>2. those \in SUBSET (1 .. Len(d))
      BY <1>1, <1>3
    <3> QED BY <3>1, <3>2, PickedSame
  <2> QED BY <1>2, <1>3, <1>5, <2>1, <2>2
<1> QED BY <1>4, <1>5

(* A series that takes a value later than its last stays in order.         *)
LEMMA TakenInOrder ==
  ASSUME NEW s \in Seq(Value), AscendingAt(s), NEW e \in Value,
         s = << >> \/ s[Len(s)].at < e.at
  PROVE  Append(s, e) \in Seq(Value) /\ AscendingAt(Append(s, e))
<1>1. PICK n \in Nat : n = Len(s)
  BY LenProperties
<1>2. PICK x \in Seq(Value) : /\ x = Append(s, e) /\ Len(x) = n + 1 /\ x[n + 1] = e
                              /\ \A k \in 1 .. n : x[k] = s[k]
  <2>1. /\ Append(s, e) \in Seq(Value) /\ Len(Append(s, e)) = Len(s) + 1
        /\ Append(s, e)[Len(s) + 1] = e /\ \A k \in 1 .. Len(s) : Append(s, e)[k] = s[k]
    BY AppendProperties
  <2> QED BY <1>1, <2>1
<1>3. ASSUME NEW k \in 2 .. n + 1 PROVE x[k - 1].at < x[k].at
  <2>1. CASE k = n + 1
    <3>1. n # 0 /\ k - 1 = n
      BY <2>1
    <3>2. s # << >>
      BY <1>1, <3>1
    <3> QED BY <1>1, <1>2, <2>1, <3>1, <3>2
  <2>2. CASE k # n + 1
    <3>1. k \in 2 .. n /\ k \in 1 .. n /\ k - 1 \in 1 .. n
      BY <2>2
    <3> QED BY <1>1, <1>2, <3>1 DEF AscendingAt
  <2> QED BY <2>1, <2>2
<1> QED BY <1>2, <1>3 DEF AscendingAt

LEMMA ValuesDispatch ==
  ASSUME ValuesInv, Values!Dispatch
  PROVE  ValuesInv'
<1> USE DEF ValuesInv
<1>1. /\ raised = "none" /\ inProgress /\ ~Values!Eof
      /\ nextIdx' = nextIdx + 1 /\ Values!UpdateDS(values[nextIdx])
      /\ UNCHANGED <<zone, timeDelta, rowFilter, values, inProgress, kept, late>>
  BY DEF Values!Dispatch, Values!Fails
<1>2. PICK v \in Seq(Value), n \in Nat : v = values /\ n = Len(v)
  BY LenProperties DEF ValuesTypeOK
<1>3. PICK i \in 1 .. n : i = nextIdx
  BY <1>1, <1>2 DEF Values!Eof, ValuesTypeOK
<1>4. PICK e \in Value : e = v[i]
  BY <1>2, ElementOfSeq
<1>5. PICK d \in Seq(Value) : d = Done /\ Len(d) = i - 1 /\ \A k \in 1 .. i - 1 : d[k] = v[k]
  <2>1. PICK m \in Nat : m = i - 1 /\ m \in 0 .. n
    OBVIOUS
  <2>2. SubSeq(v, 1, m) = [k \in 1 .. m |-> v[k]]
    BY <1>2, <2>1
  <2>3. \A k \in 1 .. m : v[k] \in Value
    BY <1>2, <2>1, ElementOfSeq
  <2>4. SubSeq(v, 1, m) \in [1 .. m -> Value]
    BY <2>2, <2>3
  <2>5. SubSeq(v, 1, m) \in Seq(Value) /\ Len(SubSeq(v, 1, m)) = m
    <3>1. PICK x : x = SubSeq(v, 1, m) /\ x \in [1 .. m -> Value]
      BY <2>4
    <3>2. x \in Seq(Value)
      BY <3>1, SeqDef
    <3>3. Len(x) = m
      BY <3>1, <3>2, LenProperties
    <3> QED BY <3>1, <3>2, <3>3
  <2> QED BY <1>2, <1>3, <2>1, <2>2, <2>5 DEF Done
<1>6. Done' = Append(d, e)
  <2>1. PICK x \in Seq(Value) : /\ x = Append(d, e) /\ Len(x) = i /\ x[i] = e
                                /\ \A k \in 1 .. i - 1 : x[k] = d[k]
    <3>1. /\ Append(d, e) \in Seq(Value) /\ Len(Append(d, e)) = Len(d) + 1
          /\ Append(d, e)[Len(d) + 1] = e /\ \A k \in 1 .. Len(d) : Append(d, e)[k] = d[k]
      BY AppendProperties
    <3>2. (i - 1) + 1 = i
      OBVIOUS
    <3> QED BY <1>5, <3>1, <3>2
  <2>2. Done' = SubSeq(v, 1, i)
    <3>1. (i + 1) - 1 = i
      OBVIOUS
    <3> QED BY <1>1, <1>2, <1>3, <3>1 DEF Done
  <2>3. SubSeq(v, 1, i) = [k \in 1 .. i |-> v[k]]
    BY <1>2
  <2>4. \A k \in 1 .. i : x[k] = v[k]
    BY <1>4, <1>5, <2>1
  <2>5. x = [k \in 1 .. i |-> x[k]]
    <3>1. DOMAIN x = 1 .. i
      BY <2>1, LenProperties
    <3> QED BY <3>1
  <2> QED BY <2>1, <2>2, <2>3, <2>4, <2>5
<1>7. PICK good : good = {c \in e.columns : series[c] = << >> \/ series[c][Len(series[c])].at < e.at}
  OBVIOUS
<1>8. PICK cs \in SUBSET good :
        /\ series' = [c \in Values!ColumnNames |-> IF c \in cs THEN Append(series[c], e) ELSE series[c]]
        /\ \/ good = e.columns /\ cs = good /\ raised' = "none"
           \/ good # e.columns /\ raised' = "order"
  <2>1. \A c : Values!Accepts(c, e.at) <=> series[c] = << >> \/ series[c][Len(series[c])].at < e.at
    BY DEF Values!Accepts, Values!Last
  <2>2. good = {c \in e.columns : Values!Accepts(c, e.at)}
    BY <1>7, <2>1
  <2>3. values[nextIdx] = e
    BY <1>2, <1>3, <1>4
  <2>4. Values!UpdateDS(e)
    BY <1>1, <2>3
  <2>5. CASE good = e.columns
    <3>1. /\ series' = [c \in Values!ColumnNames |-> IF c \in good THEN Append(series[c], e) ELSE series[c]]
          /\ raised' = raised
      BY <2>2, <2>4, <2>5 DEF Values!UpdateDS
    <3> QED BY <1>1, <2>5, <3>1
  <2>6. CASE good # e.columns
    <3>1. /\ \E cs \in SUBSET good :
               series' = [c \in Values!ColumnNames |-> IF c \in cs THEN Append(series[c], e) ELSE series[c]]
          /\ raised' = "order"
      BY <2>2, <2>4, <2>6 DEF Values!UpdateDS
    <3> QED BY <2>6, <3>1
  <2> QED BY <2>5, <2>6
<1>9. ASSUME NEW c \in Values!ColumnNames
      PROVE  series'[c] \in Seq(Value) /\ AscendingAt(series'[c])
  <2>1. series[c] \in Seq(Value) /\ AscendingAt(series[c])
    BY DEF ValuesTypeOK, SeriesInOrder
  <2>2. CASE c \in cs
    <3>1. series[c] = << >> \/ series[c][Len(series[c])].at < e.at
      BY <1>7, <2>2
    <3>2. PICK s \in Seq(Value) : s = series[c]
      BY <2>1
    <3>3. Append(s, e) \in Seq(Value) /\ AscendingAt(Append(s, e))
      BY <2>1, <3>1, <3>2, TakenInOrder
    <3> QED BY <1>8, <2>2, <3>2, <3>3
  <2>3. CASE c \notin cs
    BY <1>8, <2>1, <2>3
  <2> QED BY <2>2, <2>3
<1>10. ValuesTypeOK'
  <2>1. series' \in [Values!ColumnNames -> Seq(Value)]
    BY <1>8, <1>9
  <2>2. nextIdx' \in 1 .. Len(values) + 1
    BY <1>1, <1>2, <1>3
  <2> QED BY <1>1, <1>8, <2>1, <2>2 DEF ValuesTypeOK
<1>11. EachKept' /\ Idle' /\ InTimeOrder'
  BY <1>1 DEF EachKept, Idle, InTimeOrder, ValueIds
<1>12. SeriesInOrder'
  <2>1. \A c \in Values!ColumnNames : AscendingAt(series'[c])
    BY <1>9
  <2> QED BY <2>1 DEF SeriesInOrder, AscendingAt
<1>13. InSeries'
  <2>1. SUFFICES ASSUME raised' = "none", NEW c \in Values!ColumnNames
                 PROVE  series'[c] = Picked(Done, Having(Done, c))'
    BY DEF InSeries
  <2>2. cs = e.columns
    BY <1>8, <2>1
  <2>3. series[c] = Picked(d, Having(d, c))
    BY <1>1, <1>5 DEF InSeries
  <2>4. PICK x : x = Append(d, e) /\ Picked(x, Having(x, c)) =
                   IF c \in e.columns THEN Append(Picked(d, Having(d, c)), e) ELSE Picked(d, Having(d, c))
    BY HavingNext
  <2>5. Picked(Done, Having(Done, c))' = Picked(x, Having(x, c))
    BY <1>6, <2>4 DEF Having
  <2> QED BY <1>8, <2>2, <2>3, <2>4, <2>5
<1>14. SameTime'
  <2>1. SUFFICES ASSUME raised' = "order", late = {}
                 PROVE  \E a, b \in 1 .. n : a # b /\ v[a].at = v[b].at /\ v[a].columns \cap v[b].columns # {}
    BY <1>1, <1>2 DEF SameTime
  <2>2. PICK c \in e.columns : series[c] # << >> /\ ~(series[c][Len(series[c])].at < e.at)
    BY <1>7, <1>8, <2>1
  <2>3. c \in Values!ColumnNames
    BY DEF Value
  <2>4. PICK those \in SUBSET (1 .. Len(d)) : those = Having(d, c)
    BY DEF Having
  <2>5. PICK s : s = series[c] /\ s = Picked(d, those)
    BY <1>1, <1>5, <2>3, <2>4 DEF InSeries
  <2>6. PICK m, p : /\ m \in Nat /\ s \in Seq(Value) /\ Len(s) = m /\ Ascending(p, m, those)
                    /\ \A k \in 1 .. m : s[k] = d[p[k]]
    <3>1. /\ Cardinality(those) \in Nat
          /\ Picked(d, those) \in Seq(Value) /\ Len(Picked(d, those)) = Cardinality(those)
          /\ \E p : /\ Ascending(p, Cardinality(those), those)
                   /\ \A k \in 1 .. Cardinality(those) : Picked(d, those)[k] = d[p[k]]
      BY PickedIs
    <3> QED BY <2>5, <3>1
  <2>7. m # 0
    BY <2>2, <2>5, <2>6, EmptySeq
  <2>8. PICK a \in 1 .. i - 1 : a \in those /\ s[m] = d[a]
    <3>1. m \in 1 .. m
      BY <2>6, <2>7
    <3>2. p[m] \in those
      BY <2>6, <3>1 DEF Ascending
    <3> QED BY <1>5, <2>6, <3>1, <3>2
  <2>9. d[a] = v[a] /\ c \in v[a].columns
    BY <1>5, <2>4, <2>8 DEF Having
  <2>10. ~(v[a].at < v[i].at)
    BY <1>4, <2>2, <2>5, <2>6, <2>8, <2>9
  <2>11. a \in 1 .. n /\ a < i
    OBVIOUS
  <2>12. v[a].at <= v[i].at
    BY <1>1, <1>2, <2>1, <2>11 DEF InTimeOrder
  <2>13. v[a].at \in Int /\ v[i].at \in Int
    <3>1. v[a] \in Value /\ v[i] \in Value
      BY <1>2, <2>11, ElementOfSeq
    <3> QED BY <3>1 DEF Value
  <2>14. v[a].at = v[i].at
    BY <2>10, <2>12, <2>13
  <2>15. c \in v[a].columns \cap v[i].columns
    BY <1>4, <2>9
  <2> QED BY <2>11, <2>14, <2>15
<1> QED BY <1>10, <1>11, <1>12, <1>13, <1>14

LEMMA ValuesReset ==
  ASSUME ValuesInv, Values!Reset
  PROVE  ValuesInv'
<1> USE DEF ValuesInv
<1>1. /\ raised = "none" /\ inProgress' = FALSE /\ nextIdx' = 1
      /\ series' = [c \in Values!ColumnNames |-> << >>]
      /\ UNCHANGED <<zone, timeDelta, rowFilter, values, kept, late, raised>>
  BY DEF Values!Reset, Values!Fails
<1>2. values \in Seq(Value) /\ Len(values) \in Nat
  BY LenProperties DEF ValuesTypeOK
<1>3. ValuesTypeOK'
  <2>1. series' \in [Values!ColumnNames -> Seq(Value)]
    BY <1>1
  <2>2. nextIdx' \in 1 .. Len(values) + 1
    BY <1>1, <1>2
  <2> QED BY <1>1, <2>1, <2>2 DEF ValuesTypeOK
<1>4. EachKept' /\ Idle' /\ InTimeOrder' /\ SameTime'
  BY <1>1 DEF EachKept, Idle, InTimeOrder, SameTime, ValueIds
<1>5. SeriesInOrder'
  <2>1. \A c \in Values!ColumnNames : series'[c] = << >>
    BY <1>1
  <2> QED BY <2>1 DEF SeriesInOrder, AscendingAt
<1>6. InSeries'
  <2>1. Done' = << >>
    <3>1. PICK v \in Seq(Value) : v = values
      BY <1>2
    <3>2. SubSeq(v, 1, 0) = << >>
      BY SubSeqProperties
    <3> QED BY <1>1, <3>1, <3>2 DEF Done
  <2>2. \A c \in Values!ColumnNames : series'[c] = << >>
    BY <1>1
  <2> QED BY <2>1, <2>2, NothingPicked DEF InSeries, Having
<1> QED BY <1>3, <1>4, <1>5, <1>6

LEMMA ValuesStep ==
  ASSUME ValuesInv, Values!ValuesNext \/ UNCHANGED otherValues
  PROVE  ValuesInv'
<1>1. CASE UNCHANGED otherValues
  BY <1>1 DEF otherValues, ValuesInv, ValuesTypeOK, EachKept, SeriesInOrder, InSeries, Idle,
              InTimeOrder, SameTime, ValueIds, Done, Having
<1>2. CASE Values!ValuesNext
  BY <1>2, ValuesLoad, ValuesSettings, ValuesStart, ValuesDispatch, ValuesReset
     DEF Values!ValuesNext
<1> QED BY <1>1, <1>2

-----------------------------------------------------------------------------
(* Stored bars: the invariant *)

DateTime == [aware : BOOLEAN, at : Int]
Bar == [dateTime : DateTime, adjClose : BOOLEAN, row : Nat]
Row == [time : Nat, adjClose : BOOLEAN, malformed : BOOLEAN]
Fix == [last : Int, next : Nat, at : Int]

(* The bars of one turn, by instrument.                                    *)
Turn == UNION {[now -> Bar] : now \in SUBSET Names}

BarsTypeOK ==
  /\ bars \in [Names -> Seq(Bar)] /\ nextPos \in [Names -> Nat \ {0}]
  /\ \A i \in Names : nextPos[i] <= Len(bars[i]) + 1
  /\ started \in BOOLEAN /\ barsEmitted \in Seq(Turn)

(* What loading reads and keeps; rows of one time are few enough for the fix. *)
LoadTypeOK ==
  /\ fix \in Fix /\ read \in Seq(Row) /\ loads \in Nat /\ loads <= MaxLoads
  /\ FewAtOneTime(read, loads * Second)
  /\ \A i \in Names :
       /\ IsFiniteSet(DOMAIN db[i]) /\ DOMAIN db[i] \in SUBSET Int
       /\ db[i] \in [DOMAIN db[i] -> [row : Nat, adjClose : BOOLEAN]]

(* The bars of an instrument are in the order of time, and none is naive   *)
(* among others that are aware.                                            *)
InTime(s) == \A j, k \in 1 .. Len(s) : j < k => s[j].dateTime.at <= s[k].dateTime.at
Alike(s) == \A j, k \in 1 .. Len(s) : s[j].dateTime.aware = s[k].dateTime.aware
BarsSorted == \A i \in Names : InTime(bars[i]) /\ Alike(bars[i])

(* Before the start nothing is dispatched.                                 *)
NotStarted ==
  ~started => /\ \A i \in Names : nextPos[i] = 1
              /\ currDateTime = << >> /\ barsEmitted = << >>

(* The bars of a turn have one datetime, later than the one before.        *)
AtTime(e, t) == DOMAIN e # {} /\ \A i \in DOMAIN e : e[i].dateTime.at = t
TurnsInOrder ==
  /\ \A k \in 1 .. Len(barsEmitted) : \E t \in Int : AtTime(barsEmitted[k], t)
  /\ \A k \in 2 .. Len(barsEmitted) : \A t, u \in Int :
       AtTime(barsEmitted[k - 1], t) /\ AtTime(barsEmitted[k], u) => t < u

(* The datetime of the last turn; no bar that is left is earlier, and one  *)
(* at that time is a duplicate of the one before it.                       *)
Current ==
  IF barsEmitted = << >> THEN currDateTime = << >>
  ELSE \E t \in Int : currDateTime = <<t>> /\ AtTime(barsEmitted[Len(barsEmitted)], t)

AfterBar(i, t) ==
  nextPos[i] <= Len(bars[i]) =>
    /\ t <= bars[i][nextPos[i]].dateTime.at
    /\ bars[i][nextPos[i]].dateTime.at = t =>
         nextPos[i] > 1 /\ bars[i][nextPos[i] - 1].dateTime.at = t
Ahead ==
  failure = "none" => \A t \in Int : currDateTime = <<t>> => \A i \in Names : AfterBar(i, t)

(* The bars dispatched of an instrument are the first it has.              *)
With(s, i) == {k \in 1 .. Len(s) : i \in DOMAIN s[k]}
Mine(s, i) == [k \in 1 .. Len(Picked(s, With(s, i))) |-> Picked(s, With(s, i))[k][i]]
Given ==
  failure = "none" => \A i \in Names : Mine(barsEmitted, i) = SubSeq(bars[i], 1, nextPos[i] - 1)

Conflict(s) == \E a, b \in 1 .. Len(s) : a # b /\ s[a].dateTime = s[b].dateTime
Duplicate == failure = "duplicate" => \E i \in Names : Conflict(bars[i])

(* Trades that are read in order: each is later than those before it, and  *)
(* the fix is that of the last, and counts those that have its time.       *)
ReadInOrder(s) == \A k \in 1 .. Len(s) - 1 : s[k].time <= s[k + 1].time
Later(s) ==
  \A j, k \in 1 .. Len(s) : j < k => s[j].dateTime.at < s[k].dateTime.at /\ s[j].row < s[k].row
Before(s, at, row) ==
  \A k \in 1 .. Len(s) : s[k].dateTime.at <= at /\ s[k].dateTime.aware /\ s[k].row <= row
FixOf(f, n, s) ==
  IF n = 0 THEN f = [last |-> -1, next |-> 1, at |-> -1]
  ELSE /\ f.last = s[n].time * Second /\ f.next \in 1 .. n /\ f.at = f.last + f.next - 1
       /\ \A k \in n - f.next + 1 .. n : s[k].time = s[n].time
TradesLater ==
  format = "bitcoincharts" /\ ReadInOrder(read) =>
    /\ \A i \in Names : Later(bars[i])
    /\ failure = "none" => /\ FixOf(fix, Len(read), read)
                           /\ \A i \in Names : Before(bars[i], fix.at, Len(read))

FilesInv ==
  /\ BarsTypeOK /\ LoadTypeOK /\ BarsSorted /\ NotStarted
  /\ TurnsInOrder /\ Current /\ Ahead /\ Given /\ Duplicate /\ TradesLater
-----------------------------------------------------------------------------
(* The operators of BarFiles on lists are those of Sorting.                *)
LEMMA StoredCardinality == \A S : Stored!Cardinality(S) = Cardinality(S)
BY DEF Stored!Cardinality, Cardinality

LEMMA StoredInOrder ==
  ASSUME NEW S
  PROVE  Stored!InOrder(S) = InOrder(S)
<1>1. ASSUME NEW k
      PROVE  (CHOOSE a \in S : Stored!Cardinality({b \in S : b < a}) = k - 1)
               = (CHOOSE a \in S : Cardinality({b \in S : b < a}) = k - 1)
  <2>1. \A a \in S : Stored!Cardinality({b \in S : b < a}) = Cardinality({b \in S : b < a})
    BY StoredCardinality
  <2>2. \A a \in S : Stored!Cardinality({b \in S : b < a}) = k - 1
                    <=> Cardinality({b \in S : b < a}) = k - 1
    BY <2>1
  <2> QED BY <2>2, Zenon
<1>2. Stored!Cardinality(S) = Cardinality(S)
  BY StoredCardinality
<1>3. Stored!InOrder(S) = [k \in 1 .. Cardinality(S) |->
                            CHOOSE a \in S : Stored!Cardinality({b \in S : b < a}) = k - 1]
  BY <1>2 DEF Stored!InOrder
<1>4. Stored!InOrder(S) = [k \in 1 .. Cardinality(S) |->
                            CHOOSE a \in S : Cardinality({b \in S : b < a}) = k - 1]
  BY <1>1, <1>3, Zenon
<1> QED BY <1>4, Zenon DEF InOrder

LEMMA StoredPicked ==
  ASSUME NEW s, NEW at
  PROVE  Stored!Picked(s, at) = Picked(s, at)
BY StoredCardinality, StoredInOrder DEF Stored!Picked, Picked

LEMMA StoredSorted ==
  ASSUME NEW s, NEW key
  PROVE  Stored!SortedBy(s, key) = SortedBy(s, key)
<1> DEFINE before(a) == {b \in DOMAIN key : key[b] < key[a] \/ (key[b] = key[a] /\ b < a)}
           first(k) == CHOOSE a \in DOMAIN key : Cardinality(before(a)) = k - 1
           theirs(k) == CHOOSE a \in DOMAIN key : Stored!Cardinality(before(a)) = k - 1
<1>1. ASSUME NEW k PROVE theirs(k) = first(k)
  <2>1. \A a \in DOMAIN key : Stored!Cardinality(before(a)) = Cardinality(before(a))
    BY StoredCardinality
  <2>2. \A a \in DOMAIN key : Stored!Cardinality(before(a)) = k - 1 <=> Cardinality(before(a)) = k - 1
    BY <2>1
  <2> HIDE DEF before
  <2> QED BY <2>2, Zenon
<1>2. Stored!OrderBy(key) = [k \in DOMAIN key |-> theirs(k)]
  BY Zenon DEF Stored!OrderBy
<1>3. OrderBy(key) = [k \in DOMAIN key |-> first(k)]
  BY Zenon DEF OrderBy
<1> HIDE DEF first, theirs
<1>4. Stored!OrderBy(key) = OrderBy(key)
  BY <1>1, <1>2, <1>3, Zenon
<1> QED BY <1>4 DEF Stored!SortedBy, SortedBy

(* The times of a turn are one time.                                       *)
LEMMA OneTime ==
  ASSUME NEW k, NEW t \in Int, AtTime(barsEmitted[k], t)
  PROVE  Stored!AtOnce(k) = {t}
<1>1. DOMAIN barsEmitted[k] # {} /\ \A i \in DOMAIN barsEmitted[k] : barsEmitted[k][i].dateTime.at = t
  BY DEF AtTime
<1>2. \A x : x \in Stored!AtOnce(k) <=> x = t
  BY <1>1 DEF Stored!AtOnce
<1> QED BY <1>2

LEMMA OfOne ==
  ASSUME NEW t \in Int
  PROVE  Stored!Max({t}) = t /\ Stored!Min({t}) = t
BY DEF Stored!Max, Stored!Min

(* The invariant implies the property.                                     *)
LEMMA FilesInvImplies == FilesInv => Stored!LoadedBarsOnceInOrder
<1> SUFFICES ASSUME FilesInv PROVE Stored!LoadedBarsOnceInOrder
  OBVIOUS
<1>1. \A i \in Names : bars[i] \in Seq(Bar) /\ DOMAIN bars[i] = 1 .. Len(bars[i])
  BY LenProperties DEF FilesInv, BarsTypeOK
<1>2. barsEmitted \in Seq(Turn) /\ DOMAIN barsEmitted = 1 .. Len(barsEmitted) /\ Len(barsEmitted) \in Nat
  BY LenProperties DEF FilesInv, BarsTypeOK
<1>3. ASSUME NEW k \in DOMAIN barsEmitted PROVE Stored!Cardinality(Stored!AtOnce(k)) = 1
  <2>1. PICK t \in Int : AtTime(barsEmitted[k], t)
    BY <1>2 DEF FilesInv, TurnsInOrder
  <2>2. Stored!AtOnce(k) = {t}
    BY <2>1, OneTime
  <2>3. Cardinality({t}) = 1
    BY FS_Singleton
  <2> QED BY <2>2, <2>3, StoredCardinality
<1>4. ASSUME NEW k \in 2 .. Len(barsEmitted)
      PROVE  Stored!Max(Stored!AtOnce(k - 1)) < Stored!Min(Stored!AtOnce(k))
  <2>1. k - 1 \in 1 .. Len(barsEmitted) /\ k \in 1 .. Len(barsEmitted)
    BY <1>2
  <2>2. PICK t \in Int : AtTime(barsEmitted[k - 1], t)
    BY <2>1 DEF FilesInv, TurnsInOrder
  <2>3. PICK u \in Int : AtTime(barsEmitted[k], u)
    BY <2>1 DEF FilesInv, TurnsInOrder
  <2>4. t < u
    BY <2>2, <2>3 DEF FilesInv, TurnsInOrder
  <2>5. Stored!AtOnce(k - 1) = {t} /\ Stored!AtOnce(k) = {u}
    BY <2>2, <2>3, OneTime
  <2> QED BY <2>4, <2>5, OfOne
<1>5. ASSUME NEW i \in Names, Stored!Running
      PROVE  LET mine == Stored!Picked(barsEmitted, {k \in DOMAIN barsEmitted : i \in DOMAIN barsEmitted[k]})
             IN  [k \in DOMAIN mine |-> mine[k][i]] = SubSeq(bars[i], 1, nextPos[i] - 1)
  <2>1. Mine(barsEmitted, i) = SubSeq(bars[i], 1, nextPos[i] - 1)
    BY <1>5 DEF FilesInv, Given, Stored!Running
  <2>2. {k \in DOMAIN barsEmitted : i \in DOMAIN barsEmitted[k]} = With(barsEmitted, i)
    BY <1>2 DEF With
  <2>3. PICK mine : mine = Picked(barsEmitted, With(barsEmitted, i))
    OBVIOUS
  <2>4. DOMAIN mine = 1 .. Len(mine)
    <3>1. With(barsEmitted, i) \in SUBSET (1 .. Len(barsEmitted))
      BY DEF With
    <3>2. mine \in Seq(Turn)
      BY <1>2, <2>3, <3>1, PickedIs
    <3> QED BY <3>2, LenProperties
  <2>5. Mine(barsEmitted, i) = [k \in DOMAIN mine |-> mine[k][i]]
    BY <2>3, <2>4 DEF Mine
  <2>6. mine = Stored!Picked(barsEmitted, {k \in DOMAIN barsEmitted : i \in DOMAIN barsEmitted[k]})
    BY <2>2, <2>3, StoredPicked
  <2> QED BY <2>1, <2>5, <2>6
<1>6. failure = "duplicate" => \E i \in Names : \E a, b \in DOMAIN bars[i] :
        a # b /\ bars[i][a].dateTime = bars[i][b].dateTime
  BY <1>1 DEF FilesInv, Duplicate, Conflict
<1>7. ASSUME format = "bitcoincharts", \A k \in 1 .. Len(read) - 1 : read[k].time <= read[k + 1].time,
             NEW i \in Names
      PROVE  /\ ~ \E a, b \in DOMAIN bars[i] : a # b /\ bars[i][a].dateTime = bars[i][b].dateTime
             /\ \A k \in 2 .. Len(bars[i]) : bars[i][k - 1].row < bars[i][k].row
  <2>1. PICK s \in Seq(Bar), n \in Nat : s = bars[i] /\ n = Len(s) /\ DOMAIN s = 1 .. n
    BY <1>1, LenProperties
  <2>2. \A j, k \in 1 .. n : j < k => s[j].dateTime.at < s[k].dateTime.at /\ s[j].row < s[k].row
    BY <1>7, <2>1 DEF FilesInv, TradesLater, ReadInOrder, Later
  <2>3. \A k \in 1 .. n : s[k].dateTime.at \in Int
    <3>1. \A k \in 1 .. n : s[k] \in Bar
      BY <2>1, ElementOfSeq
    <3> QED BY <3>1 DEF Bar, DateTime
  <2>4. ASSUME NEW a \in 1 .. n, NEW b \in 1 .. n, a # b PROVE s[a].dateTime # s[b].dateTime
    <3>1. a < b \/ b < a
      BY <2>4
    <3>2. s[a].dateTime.at # s[b].dateTime.at
      BY <2>2, <2>3, <3>1
    <3> QED BY <3>2
  <2>5. ASSUME NEW k \in 2 .. n PROVE s[k - 1].row < s[k].row
    <3>1. k - 1 \in 1 .. n /\ k \in 1 .. n /\ k - 1 < k
      OBVIOUS
    <3> QED BY <2>2, <3>1
  <2> QED BY <2>1, <2>4, <2>5
<1>8. Stored!Running => \A i \in Names :
        LET mine == Stored!Picked(barsEmitted, {k \in DOMAIN barsEmitted : i \in DOMAIN barsEmitted[k]})
        IN  [k \in DOMAIN mine |-> mine[k][i]] = SubSeq(bars[i], 1, nextPos[i] - 1)
  BY <1>5
<1> QED BY <1>3, <1>4, <1>6, <1>7, <1>8 DEF Stored!LoadedBarsOnceInOrder

(* The bars dispatched of an instrument.                                   *)
LEMMA MineIs ==
  ASSUME NEW s \in Seq(Turn), NEW i \in Names
  PROVE  /\ With(s, i) \in SUBSET (1 .. Len(s))
         /\ Mine(s, i) \in Seq(Bar) /\ Len(Mine(s, i)) = Cardinality(With(s, i))
<1>1. PICK those \in SUBSET (1 .. Len(s)) : those = With(s, i)
  BY DEF With
<1>2. PICK c, p, m : /\ c \in Nat /\ c = Cardinality(those) /\ m \in Seq(Turn) /\ Len(m) = c
                     /\ m = Picked(s, those) /\ Ascending(p, c, those)
                     /\ \A k \in 1 .. c : m[k] = s[p[k]]
  <2>1. /\ Cardinality(those) \in Nat
        /\ Picked(s, those) \in Seq(Turn) /\ Len(Picked(s, those)) = Cardinality(those)
        /\ \E p : /\ Ascending(p, Cardinality(those), those)
                 /\ \A k \in 1 .. Cardinality(those) : Picked(s, those)[k] = s[p[k]]
    BY PickedIs
  <2> QED BY <2>1
<1>3. ASSUME NEW k \in 1 .. c PROVE m[k][i] \in Bar
  <2>1. p[k] \in those
    BY <1>2 DEF Ascending
  <2>2. i \in DOMAIN m[k]
    BY <1>1, <1>2, <2>1 DEF With
  <2>3. m[k] \in Turn
    BY <1>2, ElementOfSeq
  <2>4. PICK now \in SUBSET Names : m[k] \in [now -> Bar]
    BY <2>3 DEF Turn
  <2> QED BY <2>2, <2>4
<1>4. PICK x : x = [k \in 1 .. c |-> m[k][i]]
  OBVIOUS
<1>5. x \in Seq(Bar)
  <2>1. x \in [1 .. c -> Bar]
    BY <1>3, <1>4
  <2> QED BY <1>2, <2>1, SeqDef
<1>6. Len(x) = c
  BY <1>2, <1>4, <1>5, LenProperties
<1>7. Mine(s, i) = x
  BY <1>1, <1>2, <1>4 DEF Mine
<1> QED BY <1>1, <1>2, <1>5, <1>6, <1>7

LEMMA FilesInitInv == StoredInit => FilesInv
<1> SUFFICES ASSUME Stored!FilesInit PROVE FilesInv
  BY DEF StoredInit
<1> USE DEF Stored!FilesInit
<1>1. \A i \in Names : bars[i] = << >> /\ nextPos[i] = 1
  OBVIOUS
<1>2. << >> \in Seq(Bar) /\ << >> \in Seq(Turn) /\ << >> \in Seq(Row) /\ Len(<< >>) = 0
  OBVIOUS
<1>3. BarsTypeOK
  <2>1. bars \in [Names -> Seq(Bar)] /\ nextPos \in [Names -> Nat \ {0}]
    BY <1>2
  <2>2. \A i \in Names : nextPos[i] <= Len(bars[i]) + 1
    BY <1>1, <1>2
  <2>3. started = FALSE /\ barsEmitted = << >>
    OBVIOUS
  <2> QED BY ONLY <1>2, <2>1, <2>2, <2>3 DEF BarsTypeOK
<1>4. LoadTypeOK
  <2>1. fix = [last |-> -1, next |-> 1, at |-> -1] /\ read = << >> /\ loads = 0
    OBVIOUS
  <2>2. MaxLoads \in Nat /\ Second \in Nat
    BY StoredAssumption
  <2>3. \A i \in Names : db[i] = << >>
    OBVIOUS
  <2>4. DOMAIN << >> = {} /\ << >> \in [{} -> [row : Nat, adjClose : BOOLEAN]]
    OBVIOUS
  <2>5. IsFiniteSet({})
    BY FS_EmptySet
  <2>6. fix \in Fix
    BY <2>1 DEF Fix
  <2>7. FewAtOneTime(read, loads * Second)
    BY <2>1 DEF FewAtOneTime
  <2>8. loads \in Nat /\ loads <= MaxLoads /\ read \in Seq(Row)
    BY <1>2, <2>1, <2>2
  <2>9. \A i \in Names :
          /\ IsFiniteSet(DOMAIN db[i]) /\ DOMAIN db[i] \in SUBSET Int
          /\ db[i] \in [DOMAIN db[i] -> [row : Nat, adjClose : BOOLEAN]]
    BY ONLY <2>3, <2>4, <2>5
  <2> QED BY ONLY <2>6, <2>7, <2>8, <2>9 DEF LoadTypeOK
<1>5. BarsSorted
  BY <1>1, <1>2 DEF BarsSorted, InTime, Alike
<1>6. NotStarted /\ Current
  BY <1>1 DEF NotStarted, Current
<1>7. TurnsInOrder /\ Ahead
  BY <1>2 DEF TurnsInOrder, Ahead
<1>8. Given
  <2>1. ASSUME NEW i \in Names PROVE Mine(<< >>, i) = << >>
    <3>1. PICK none \in Seq(Turn) : none = << >> /\ Len(none) = 0
      BY <1>2
    <3>2. With(none, i) = {}
      BY <3>1 DEF With
    <3>3. Mine(none, i) \in Seq(Bar) /\ Len(Mine(none, i)) = 0
      BY <3>2, MineIs, FS_EmptySet
    <3> QED BY <3>1, <3>3, EmptySeq
  <2>2. \A i \in Names : SubSeq(bars[i], 1, nextPos[i] - 1) = << >>
    BY <1>1
  <2> QED BY <2>1, <2>2 DEF Given
<1>9. Duplicate
  BY DEF Duplicate
<1>10. TradesLater
  <2>1. FixOf(fix, Len(read), read)
    BY <1>2 DEF FixOf
  <2>2. \A i \in Names : Later(bars[i]) /\ Before(bars[i], fix.at, Len(read))
    BY <1>1, <1>2 DEF Later, Before
  <2> QED BY <2>1, <2>2 DEF TradesLater
<1> QED BY <1>3, <1>4, <1>5, <1>6, <1>7, <1>8, <1>9, <1>10 DEF FilesInv

-----------------------------------------------------------------------------
(* Stored bars: what loading does *)

(* A stable sort by time.                                                  *)
LEMMA SortedInTime ==
  ASSUME NEW s \in Seq(Bar)
  PROVE  /\ Stored!Sorted(s) \in Seq(Bar) /\ Len(Stored!Sorted(s)) = Len(s)
         /\ InTime(Stored!Sorted(s))
         /\ Alike(s) => Alike(Stored!Sorted(s))
         /\ (\A j, k \in 1 .. Len(s) : j < k => s[j].dateTime.at <= s[k].dateTime.at)
              => Stored!Sorted(s) = s
<1>1. PICK n \in Nat : n = Len(s) /\ DOMAIN s = 1 .. n
  BY LenProperties
<1>2. PICK key \in [1 .. n -> Int] : key = [k \in 1 .. n |-> s[k].dateTime.at]
  <2>1. \A k \in 1 .. n : s[k].dateTime.at \in Int
    <3>1. \A k \in 1 .. n : s[k] \in Bar
      BY <1>1, ElementOfSeq
    <3> QED BY <3>1 DEF Bar, DateTime
  <2> QED BY <2>1
<1>3. Stored!Sorted(s) = SortedBy(s, key)
  BY <1>1, <1>2, StoredSorted DEF Stored!Sorted
<1>4. PICK w, p : /\ w \in Seq(Bar) /\ w = Stored!Sorted(s) /\ Len(w) = n
                  /\ SortsBy(p, key, n) /\ \A k \in 1 .. n : w[k] = s[p[k]]
  <2>1. /\ SortedBy(s, key) \in Seq(Bar) /\ Len(SortedBy(s, key)) = Len(s)
        /\ \E p : /\ SortsBy(p, key, Len(s))
                 /\ \A k \in 1 .. Len(s) : SortedBy(s, key)[k] = s[p[k]]
    BY <1>1, SortedByIs
  <2> QED BY <1>1, <1>3, <2>1
<1>5. /\ p \in [1 .. n -> 1 .. n]
      /\ \A j, k \in 1 .. n : j < k => key[p[j]] < key[p[k]] \/ (key[p[j]] = key[p[k]] /\ p[j] < p[k])
  BY <1>4 DEF SortsBy
<1>6. \A k \in 1 .. n : p[k] \in 1 .. n /\ w[k] = s[p[k]]
  BY <1>4, <1>5
<1>7. InTime(w)
  <2>1. \A k \in 1 .. n : w[k].dateTime.at = key[p[k]] /\ key[p[k]] \in Int
    BY <1>2, <1>6
  <2>2. ASSUME NEW j \in 1 .. n, NEW k \in 1 .. n, j < k
        PROVE  w[j].dateTime.at <= w[k].dateTime.at
    <3>1. key[p[j]] < key[p[k]] \/ key[p[j]] = key[p[k]]
      BY <1>5, <2>2
    <3> QED BY <2>1, <3>1
  <2> QED BY <1>4, <2>2 DEF InTime
<1>8. Alike(s) => Alike(w)
  <2>1. SUFFICES ASSUME Alike(s), NEW j \in 1 .. n, NEW k \in 1 .. n
                 PROVE  w[j].dateTime.aware = w[k].dateTime.aware
    BY <1>4 DEF Alike
  <2>2. s[p[j]].dateTime.aware = s[p[k]].dateTime.aware
    BY <1>1, <1>6, <2>1 DEF Alike
  <2> QED BY <1>6, <2>2
<1>9. (\A j, k \in 1 .. n : j < k => s[j].dateTime.at <= s[k].dateTime.at) => w = s
  <2>1. SUFFICES ASSUME \A j, k \in 1 .. n : j < k => s[j].dateTime.at <= s[k].dateTime.at
                 PROVE  w = s
    OBVIOUS
  <2>2. \A j, k \in 1 .. Len(s) : j < k => key[j] <= key[k]
    BY <1>1, <1>2, <2>1
  <2>3. SortedBy(s, key) = s
    BY <1>1, <2>2, SortedAlready
  <2> QED BY <1>3, <1>4, <2>3
<1> QED BY <1>1, <1>4, <1>7, <1>8, <1>9

(* The filter picks some bars.                                             *)
LEMMA IncludedType ==
  ASSUME NEW s \in Seq(Bar), NEW filter
  PROVE  Stored!Included(s, filter) \in Seq(Bar)
<1>1. DOMAIN s = 1 .. Len(s)
  BY LenProperties
<1>2. PICK those \in SUBSET (1 .. Len(s)) : those = {k \in DOMAIN s : Stored!IncludeBar(filter, s[k])}
  BY <1>1
<1>3. Picked(s, those) \in Seq(Bar)
  BY PickedIs
<1> QED BY <1>2, <1>3, StoredPicked DEF Stored!Included

(* Bars that are not refused.                                              *)
LEMMA NotRefused ==
  ASSUME BarsTypeOK, NEW i \in Names, NEW loaded \in Seq(Bar), Stored!Refused(i, loaded) = "none"
  PROVE  ~started /\ bars[i] \o loaded \in Seq(Bar) /\ Alike(bars[i] \o loaded)
<1>1. ~started /\ ~Stored!Mixed(Stored!DateTimes(bars[i] \o loaded))
  BY DEF Stored!Refused
<1>2. PICK s \in Seq(Bar) : s = bars[i] \o loaded
  <2>1. bars[i] \in Seq(Bar)
    BY DEF BarsTypeOK
  <2> QED BY <2>1, Joined
<1>3. DOMAIN s = 1 .. Len(s)
  BY LenProperties
<1>4. \A j, k \in 1 .. Len(s) : s[j].dateTime.aware = s[k].dateTime.aware
  BY <1>1, <1>2, <1>3 DEF Stored!Mixed, Stored!DateTimes
<1> QED BY <1>1, <1>2, <1>4 DEF Alike

(* What loading leaves of the invariant to the format.                     *)
BarsInv ==
  BarsTypeOK /\ BarsSorted /\ NotStarted /\ TurnsInOrder /\ Current /\ Ahead /\ Given /\ Duplicate

LEMMA LoadKeeps ==
  ASSUME BarsInv, failure = "none", NEW i \in Names, NEW loaded \in Seq(Bar),
         \/ bars' = bars
         \/ Stored!Refused(i, loaded) = "none" /\ bars' = Stored!Added(i, loaded),
         failure' # "duplicate",
         UNCHANGED <<format, nextPos, started, currDateTime, barsEmitted>>
  PROVE  BarsInv'
<1> USE DEF BarsInv
<1>1. CASE bars' = bars
  <2>1. BarsTypeOK' /\ BarsSorted' /\ NotStarted' /\ TurnsInOrder' /\ Current'
    BY <1>1 DEF BarsTypeOK, BarsSorted, NotStarted, TurnsInOrder, Current
  <2>2. Ahead' /\ Given' /\ Duplicate'
    BY <1>1 DEF Ahead, AfterBar, Given, Duplicate
  <2> QED BY <2>1, <2>2
<1>2. CASE Stored!Refused(i, loaded) = "none" /\ bars' = Stored!Added(i, loaded)
  <2>1. ~started /\ bars[i] \o loaded \in Seq(Bar) /\ Alike(bars[i] \o loaded)
    BY <1>2, NotRefused
  <2>2. PICK s \in Seq(Bar) : s = Stored!Sorted(bars[i] \o loaded) /\ InTime(s) /\ Alike(s)
    BY <2>1, SortedInTime
  <2>3. bars' = [bars EXCEPT ![i] = s]
    BY <1>2, <2>2 DEF Stored!Added
  <2>4. /\ bars' \in [Names -> Seq(Bar)]
        /\ \A j \in Names : bars'[j] = IF j = i THEN s ELSE bars[j]
    BY <2>3 DEF BarsTypeOK
  <2>5. /\ \A j \in Names : nextPos[j] = 1
        /\ currDateTime = << >> /\ barsEmitted = << >>
    BY <2>1 DEF NotStarted
  <2>6. BarsTypeOK'
    <3>1. ASSUME NEW j \in Names PROVE nextPos[j] <= Len(bars'[j]) + 1
      <4>1. bars'[j] \in Seq(Bar)
        BY <2>4
      <4>2. Len(bars'[j]) \in Nat
        BY <4>1, LenProperties
      <4> QED BY <2>5, <4>2
    <3> QED BY <2>4, <3>1 DEF BarsTypeOK
  <2>7. BarsSorted'
    <3>1. \A j \in Names : InTime(bars'[j]) /\ Alike(bars'[j])
      BY <2>2, <2>4 DEF BarsSorted
    <3> QED BY <3>1 DEF BarsSorted, InTime, Alike
  <2>8. NotStarted' /\ TurnsInOrder' /\ Current' /\ Ahead' /\ Duplicate'
    BY <2>5 DEF NotStarted, TurnsInOrder, Current, Ahead, Duplicate
  <2>9. Given'
    <3>1. ASSUME NEW j \in Names PROVE Mine(barsEmitted, j) = SubSeq(bars'[j], 1, nextPos[j] - 1)
      <4>1. PICK b \in Seq(Bar) : b = bars'[j]
        BY <2>4
      <4>2. SubSeq(b, 1, 0) = << >>
        BY SubSeqProperties
      <4>3. PICK t \in Seq(Bar) : t = bars[j]
        BY DEF BarsTypeOK
      <4>4. SubSeq(t, 1, 0) = << >>
        BY SubSeqProperties
      <4>5. Mine(barsEmitted, j) = SubSeq(t, 1, nextPos[j] - 1)
        BY <4>3 DEF Given
      <4> QED BY <2>5, <4>1, <4>2, <4>4, <4>5
    <3> QED BY ZenonT(60), <3>1 DEF Given, Mine, With
  <2> QED BY <2>6, <2>7, <2>8, <2>9
<1> QED BY <1>1, <1>2

(* The rows of a file.                                                     *)
LEMMA FileType ==
  ASSUME NEW file \in Files
  PROVE  /\ file \in Seq(Row) /\ Len(file) \in Nat /\ DOMAIN file = 1 .. Len(file)
         /\ \A k \in 1 .. Len(file) :
              file[k].time \in Nat /\ file[k].adjClose \in BOOLEAN /\ file[k].time * Second \in Nat
<1>1. file \in Seq(Row)
  BY StoredAssumption DEF Row
<1>2. Len(file) \in Nat /\ DOMAIN file = 1 .. Len(file)
  BY <1>1, LenProperties
<1>3. \A k \in 1 .. Len(file) : file[k] \in Row
  BY <1>1, ElementOfSeq
<1>4. Second \in Nat
  BY StoredAssumption
<1>5. \A k \in 1 .. Len(file) : file[k].time \in Nat /\ file[k].adjClose \in BOOLEAN
  BY <1>3 DEF Row
<1>6. \A a, b \in Nat : a * b \in Nat
  OBVIOUS
<1> QED BY <1>1, <1>2, <1>4, <1>5, <1>6

(* The fixes after the rows of a file are what they say they are.          *)
LEMMA FixType ==
  ASSUME NEW f \in Fix, NEW at \in Int
  PROVE  Stored!FixDateTime(f, at) \in Fix
BY DEF Fix, Stored!FixDateTime

FixesFrom(f, z, file, n) ==
  f = [k \in 0 .. n |-> IF k = 0 THEN z ELSE Stored!FixDateTime(f[k - 1], file[k].time * Second)]

LEMMA FixesExist ==
  ASSUME NEW z \in Fix, NEW file \in Files
  PROVE  \E f \in [0 .. Len(file) -> Fix] : FixesFrom(f, z, file, Len(file))
<1>1. PICK m \in Nat : m = Len(file)
  BY FileType
<1> DEFINE B == {j \in 0 .. m : ~ \E f \in [0 .. j -> Fix] : FixesFrom(f, z, file, j)}
<1>2. SUFFICES ASSUME B # {} PROVE FALSE
  BY <1>1
<1>3. PICK j \in B : \A k \in B : j <= k
  <2>1. B \in SUBSET Nat
    OBVIOUS
  <2> HIDE DEF B
  <2> QED BY <1>2, <2>1, LeastNatural
<1>4. j \in 0 .. m /\ ~ \E f \in [0 .. j -> Fix] : FixesFrom(f, z, file, j)
  OBVIOUS
<1>5. CASE j = 0
  <2>1. PICK f \in [0 .. 0 -> Fix] : f = [k \in 0 .. 0 |-> z]
    OBVIOUS
  <2>2. [k \in 0 .. 0 |-> IF k = 0 THEN z ELSE Stored!FixDateTime(f[k - 1], file[k].time * Second)] =
          [k \in 0 .. 0 |-> z]
    OBVIOUS
  <2>3. FixesFrom(f, z, file, 0)
    BY <2>1, <2>2 DEF FixesFrom
  <2> QED BY <1>4, <1>5, <2>3
<1>6. CASE j # 0
  <2>1. PICK i \in Nat : j = i + 1 /\ i \in 0 .. m
    <3>1. j - 1 \in Nat /\ j = (j - 1) + 1 /\ j - 1 \in 0 .. m
      BY <1>4, <1>6
    <3> QED BY <3>1
  <2>2. PICK f \in [0 .. i -> Fix] : FixesFrom(f, z, file, i)
    <3>1. i \notin B
      BY <1>3, <2>1
    <3> QED BY <2>1, <3>1
  <2>3. PICK e \in Fix : e = Stored!FixDateTime(f[i], file[j].time * Second)
    <3>1. f[i] \in Fix
      OBVIOUS
    <3>2. file[j].time * Second \in Int
      BY <1>1, <1>4, <1>6, FileType
    <3> QED BY <3>1, <3>2, FixType
  <2>4. PICK g : g = [k \in 0 .. j |-> IF k = j THEN e ELSE f[k]]
    OBVIOUS
  <2>5. /\ \A k \in 0 .. i : k \in 0 .. j /\ k # j /\ g[k] = f[k]
        /\ g[j] = e /\ j - 1 = i /\ j \in 0 .. j
    BY <2>1, <2>4
  <2>6. g \in [0 .. j -> Fix]
    <3>1. \A k \in 0 .. j : k # j => k \in 0 .. i
      BY <2>1
    <3> QED BY <2>4, <3>1
  <2>7. ASSUME NEW k \in 0 .. j
        PROVE  g[k] = IF k = 0 THEN z ELSE Stored!FixDateTime(g[k - 1], file[k].time * Second)
    <3>1. CASE k = j
      <4>1. g[k - 1] = f[i]
        BY <2>5, <3>1
      <4> QED BY <1>6, <2>3, <2>5, <3>1, <4>1
    <3>2. CASE k # j
      <4>1. k \in 0 .. i
        BY <2>1, <3>2
      <4>2. g[k] = f[k]
        BY <2>5, <4>1
      <4>3. f[k] = IF k = 0 THEN z ELSE Stored!FixDateTime(f[k - 1], file[k].time * Second)
        BY <2>2, <4>1 DEF FixesFrom
      <4>4. k # 0 => g[k - 1] = f[k - 1]
        BY <2>5, <4>1
      <4> QED BY <4>2, <4>3, <4>4
    <3> QED BY <3>1, <3>2
  <2>8. g = [k \in 0 .. j |-> g[k]]
    BY <2>4
  <2>9. FixesFrom(g, z, file, j)
    BY <2>7, <2>8, Zenon DEF FixesFrom
  <2> QED BY <1>4, <2>6, <2>9
<1> QED BY <1>5, <1>6

LEMMA FixesIs ==
  ASSUME fix \in Fix, NEW file \in Files
  PROVE  /\ Stored!Fixes(file) \in [0 .. Len(file) -> Fix] /\ Stored!Fixes(file)[0] = fix
         /\ \A k \in 1 .. Len(file) :
              Stored!Fixes(file)[k] = Stored!FixDateTime(Stored!Fixes(file)[k - 1], file[k].time * Second)
<1>1. PICK z \in Fix, m \in Nat : z = fix /\ m = Len(file)
  BY FileType
<1>2. PICK g : g = Stored!Fixes(file)
  OBVIOUS
<1>3. g = CHOOSE f : FixesFrom(f, z, file, m)
  BY <1>1, <1>2 DEF Stored!Fixes, FixesFrom
<1>4. FixesFrom(g, z, file, m)
  BY <1>1, <1>3, FixesExist
<1>5. g[0] = z
  BY <1>4 DEF FixesFrom
<1>6. ASSUME NEW k \in 1 .. m PROVE g[k] = Stored!FixDateTime(g[k - 1], file[k].time * Second)
  <2>1. k \in 0 .. m /\ k # 0
    OBVIOUS
  <2> QED BY <1>4, <2>1 DEF FixesFrom
<1>7. g \in [0 .. m -> Fix]
  <2>1. PICK f \in [0 .. m -> Fix] : FixesFrom(f, z, file, m)
    BY <1>1, FixesExist
  <2> DEFINE B == {k \in 0 .. m : g[k] # f[k]}
  <2>2. B = {}
    <3>1. SUFFICES ASSUME B # {} PROVE FALSE
      OBVIOUS
    <3>2. PICK j \in B : \A k \in B : j <= k
      <4>1. B \in SUBSET Nat
        OBVIOUS
      <4> HIDE DEF B
      <4> QED BY <3>1, <4>1, LeastNatural
    <3>3. j \in 0 .. m /\ g[j] # f[j]
      OBVIOUS
    <3>4. j # 0
      BY <1>5, <2>1, <3>3 DEF FixesFrom
    <3>5. j - 1 \in 0 .. m /\ ~(j <= j - 1)
      BY <3>3, <3>4
    <3>6. g[j - 1] = f[j - 1]
      BY <3>2, <3>5
    <3>7. g[j] = Stored!FixDateTime(g[j - 1], file[j].time * Second)
      BY <1>6, <3>3, <3>4
    <3>8. f[j] = Stored!FixDateTime(f[j - 1], file[j].time * Second)
      BY <2>1, <3>3, <3>4 DEF FixesFrom
    <3> QED BY <3>3, <3>6, <3>7, <3>8
  <2>3. \A k \in 0 .. m : g[k] = f[k]
    BY <2>2
  <2>4. g = [k \in 0 .. m |-> g[k]]
    BY <1>4 DEF FixesFrom
  <2> QED BY <2>3, <2>4
<1> QED BY <1>1, <1>2, <1>5, <1>6, <1>7

(* What the parsers make of a row.                                         *)
FileFormats == {"generic", "yahoo", "google", "ninjatrader", "bitcoincharts"}

LEMMA LocalizedType ==
  ASSUME NEW at \in Int, NEW tz \in Zones
  PROVE  Stored!Localized(at, tz) \in DateTime
<1>1. Offset(tz) \in Int /\ Second \in Int
  BY StoredAssumption
<1>2. Offset(tz) * Second \in Int
  BY <1>1
<1>3. at - Offset(tz) * Second \in Int
  BY <1>2
<1> QED BY <1>3 DEF Stored!Localized, DateTime

LEMMA ParseDateType ==
  ASSUME fix \in Fix, format \in FileFormats, NEW file \in Files, NEW k \in 1 .. Len(file), NEW tz \in Zones
  PROVE  Stored!ParseDate(file, k, tz) \in DateTime
<1>1. PICK time \in Nat : time = file[k].time /\ time * Second \in Int
  BY FileType
<1>2. Stored!ParseGeneric(file, k, tz) \in DateTime
  BY <1>1, LocalizedType DEF Stored!ParseGeneric
<1>3. Stored!ParseYahoo(file, k, tz) \in DateTime
  <2>1. DayLength \in Nat \ {0} /\ DailyBarTime \in Int /\ Second \in Int
    BY StoredAssumption
  <2>2. PICK day \in Int : day = time \div DayLength
    BY <2>1
  <2>3. PICK date \in Int : date = day * DayLength
    BY <2>1
  <2>4. PICK at \in Int : at = (date + DailyBarTime) * Second
    BY <2>1
  <2> QED BY <1>1, <2>2, <2>3, <2>4, LocalizedType DEF Stored!ParseYahoo
<1>4. Stored!ParseGoogle(file, k, tz) \in DateTime
  BY <1>3 DEF Stored!ParseGoogle
<1>5. Stored!ParseNinjaTrader(file, k, tz) \in DateTime
  BY <1>1 DEF Stored!ParseNinjaTrader, DateTime
<1>6. Stored!ParseBitcoinCharts(file, k, tz) \in DateTime
  <2>1. k \in 0 .. Len(file)
    BY FileType
  <2>2. Stored!Fixes(file)[k] \in Fix
    BY <2>1, FixesIs
  <2> QED BY <2>2 DEF Stored!ParseBitcoinCharts, DateTime, Fix
<1> QED BY <1>2, <1>3, <1>4, <1>5, <1>6 DEF Stored!ParseDate, FileFormats

LEMMA ParsedIs ==
  ASSUME LoadTypeOK, format \in FileFormats, NEW file \in Files, NEW tz \in Zones
  PROVE  /\ Stored!Parsed(file, tz) \in Seq(Bar)
         /\ \E c, p : /\ c \in Nat /\ c = Len(Stored!Parsed(file, tz))
                      /\ Ascending(p, c, {k \in DOMAIN file : ~file[k].malformed})
                      /\ \A k \in 1 .. c :
                           Stored!Parsed(file, tz)[k] = Stored!ParseBar(file, p[k], tz)
<1>1. PICK m \in Nat : m = Len(file) /\ DOMAIN file = 1 .. m
  BY FileType
<1>2. PICK all : all = [k \in 1 .. m |-> Stored!ParseBar(file, k, tz)]
  OBVIOUS
<1>3. \A k \in 1 .. m : Stored!ParseBar(file, k, tz) \in Bar
  <2>1. SUFFICES ASSUME NEW k \in 1 .. m PROVE Stored!ParseBar(file, k, tz) \in Bar
    OBVIOUS
  <2>2. Stored!ParseDate(file, k, tz) \in DateTime
    BY <1>1, ParseDateType DEF LoadTypeOK
  <2>3. file[k].adjClose \in BOOLEAN
    BY <1>1, FileType
  <2>4. Len(read) + k \in Nat
    <3>1. Len(read) \in Nat
      BY LenProperties DEF LoadTypeOK
    <3> QED BY <3>1
  <2> QED BY <2>2, <2>3, <2>4 DEF Stored!ParseBar, Bar
<1>4. all \in Seq(Bar) /\ Len(all) = m
  <2>1. all \in [1 .. m -> Bar]
    BY <1>2, <1>3
  <2>2. all \in Seq(Bar)
    BY <2>1, SeqDef
  <2> QED BY <2>1, <2>2, LenProperties
<1>5. PICK those \in SUBSET (1 .. Len(all)) : those = {k \in DOMAIN file : ~file[k].malformed}
  BY <1>1, <1>4
<1>6. Stored!Parsed(file, tz) = Picked(all, those)
  BY <1>1, <1>2, <1>5, StoredPicked DEF Stored!Parsed
<1>7. /\ Cardinality(those) \in Nat
      /\ Picked(all, those) \in Seq(Bar) /\ Len(Picked(all, those)) = Cardinality(those)
      /\ \E p : /\ Ascending(p, Cardinality(those), those)
               /\ \A k \in 1 .. Cardinality(those) : Picked(all, those)[k] = all[p[k]]
  BY <1>4, PickedIs
<1>8. PICK c, p, s : /\ s = Picked(all, those) /\ s \in Seq(Bar) /\ Len(s) = c /\ c \in Nat
                     /\ Ascending(p, c, those) /\ \A k \in 1 .. c : s[k] = all[p[k]]
  BY <1>7
<1>9. ASSUME NEW k \in 1 .. c PROVE s[k] = Stored!ParseBar(file, p[k], tz)
  <2>1. p[k] \in 1 .. m
    BY <1>4, <1>8 DEF Ascending
  <2> QED BY <1>2, <1>8, <2>1
<1>10. PICK q : q = Stored!Parsed(file, tz) /\ q = s
  BY <1>6, <1>8
<1>11. /\ c \in Nat /\ c = Len(q) /\ q \in Seq(Bar)
       /\ Ascending(p, c, {k \in DOMAIN file : ~file[k].malformed})
       /\ \A k \in 1 .. c : q[k] = Stored!ParseBar(file, p[k], tz)
  BY <1>5, <1>8, <1>9, <1>10
<1> QED BY <1>10, <1>11

-----------------------------------------------------------------------------
(* Stored bars: every step that loads keeps the invariant *)

(* What is few enough still is when there is more room.                    *)
LEMMA FewerStill ==
  ASSUME NEW s \in Seq(Row), NEW a \in Nat, NEW b \in Nat, a <= b, FewAtOneTime(s, a)
  PROVE  FewAtOneTime(s, b)
<1>1. PICK m \in Nat : m = MaxLoads
  BY StoredAssumption
<1>2. ASSUME NEW j \in DOMAIN s, NEW k \in DOMAIN s, j <= k, AtOneTime(s, j, k)
      PROVE  (k - j + 1) * MaxLoads <= b
  <2>1. (k - j + 1) * m <= a
    BY <1>1, <1>2 DEF FewAtOneTime
  <2>2. j \in Nat /\ k \in Nat
    BY LenProperties
  <2>3. PICK c \in Nat : c = k - j + 1
    BY <1>2, <2>2
  <2>4. c * m \in Nat
    OBVIOUS
  <2> QED BY <1>1, <2>1, <2>3, <2>4
<1> QED BY <1>2 DEF FewAtOneTime

(* Rows of one time may be the last of some rows and the first of others.  *)
LEMMA FewJoined ==
  ASSUME NEW r \in Seq(Row), NEW f \in Seq(Row), NEW l \in Nat,
         FewAtOneTime(r, l * Second), FewAtOneTime(f, Second)
  PROVE  FewAtOneTime(r \o f, (l + 1) * Second)
<1>1. PICK m \in Nat, s \in Nat, p \in Nat : m = MaxLoads /\ s = Second /\ p = l * s
  BY StoredAssumption
<1>2. (l + 1) * Second = p + s
  BY <1>1
<1>3. PICK a \in Nat, b \in Nat : /\ a = Len(r) /\ b = Len(f)
                                 /\ DOMAIN r = 1 .. a /\ DOMAIN f = 1 .. b
  BY LenProperties
<1>4. PICK x \in Seq(Row) : /\ x = r \o f /\ DOMAIN x = 1 .. a + b
                            /\ \A k \in 1 .. a : x[k] = r[k]
                            /\ \A k \in 1 .. b : x[a + k] = f[k]
  <2>1. /\ r \o f \in Seq(Row) /\ Len(r \o f) = a + b
        /\ \A k \in 1 .. a : (r \o f)[k] = r[k]
        /\ \A k \in 1 .. b : (r \o f)[a + k] = f[k]
    BY <1>3, Joined
  <2>2. PICK x \in Seq(Row) : x = r \o f
    BY <2>1
  <2>3. DOMAIN x = 1 .. a + b
    BY <2>1, <2>2, LenProperties
  <2> QED BY <2>1, <2>2, <2>3
<1>5. ASSUME NEW j \in 1 .. a, NEW k \in 1 .. a, j <= k, AtOneTime(x, j, k)
      PROVE  (k - j + 1) * m <= p
  <2>1. \A i \in j .. k : i \in 1 .. a
    OBVIOUS
  <2>2. AtOneTime(r, j, k)
    BY <1>4, <1>5, <2>1 DEF AtOneTime
  <2> QED BY <1>1, <1>3, <1>5, <2>2 DEF FewAtOneTime
<1>6. ASSUME NEW j \in 1 .. b, NEW k \in 1 .. b, j <= k, AtOneTime(x, a + j, a + k)
      PROVE  (k - j + 1) * m <= s
  <2>1. \A i \in j .. k : i \in 1 .. b /\ a + i \in a + j .. a + k
    OBVIOUS
  <2>2. \A i \in j .. k : x[a + i].time = x[a + j].time
    BY <1>6, <2>1 DEF AtOneTime
  <2>3. AtOneTime(f, j, k)
    BY <1>4, <2>1, <2>2 DEF AtOneTime
  <2> QED BY <1>1, <1>3, <1>6, <2>3 DEF FewAtOneTime
<1>7. ASSUME NEW j \in 1 .. a + b, NEW k \in 1 .. a + b, j <= k, AtOneTime(x, j, k)
      PROVE  (k - j + 1) * m <= p + s
  <2>1. CASE k <= a
    <3>1. (k - j + 1) * m <= p
      BY <1>5, <1>7, <2>1
    <3>2. PICK c \in Nat : c = k - j + 1
      BY <1>7
    <3>3. c * m \in Nat
      OBVIOUS
    <3> QED BY <3>1, <3>2, <3>3
  <2>2. CASE a < j
    <3>1. PICK i \in 1 .. b, n \in 1 .. b : j = a + i /\ k = a + n /\ i <= n
      <4>1. j - a \in 1 .. b /\ k - a \in 1 .. b /\ j = a + (j - a) /\ k = a + (k - a) /\ j - a <= k - a
        BY <1>7, <2>2
      <4> QED BY <4>1
    <3>2. (n - i + 1) * m <= s
      BY <1>6, <1>7, <3>1
    <3>3. PICK c \in Nat : c = n - i + 1 /\ c = k - j + 1
      BY <3>1
    <3>4. c * m \in Nat
      OBVIOUS
    <3> QED BY <3>2, <3>3, <3>4
  <2>3. CASE j <= a /\ a < k
    <3>1. PICK n \in 1 .. b : k = a + n
      <4>1. k - a \in 1 .. b /\ k = a + (k - a)
        BY <2>3
      <4> QED BY <4>1
    <3>2. AtOneTime(x, j, a) /\ AtOneTime(x, a + 1, a + n)
      <4>1. \A i \in j .. a : i \in j .. k
        BY <2>3
      <4>2. \A i \in a + 1 .. a + n : i \in j .. k
        BY <2>3, <3>1
      <4>3. a + 1 \in j .. k
        BY <2>3
      <4> QED BY <1>7, <4>1, <4>2, <4>3 DEF AtOneTime
    <3>3. (a - j + 1) * m <= p
      BY <1>5, <2>3, <3>2
    <3>4. (n - 1 + 1) * m <= s
      <4>1. 1 \in 1 .. b /\ 1 <= n
        OBVIOUS
      <4> QED BY <1>6, <3>2, <4>1
    <3>5. PICK c \in Nat : c = a - j + 1 /\ k - j + 1 = c + n /\ n - 1 + 1 = n
      BY <2>3, <3>1
    <3>6. PICK cm \in Nat, nm \in Nat : cm = c * m /\ nm = n * m
      <4>1. c * m \in Nat /\ n * m \in Nat
        OBVIOUS
      <4> QED BY <4>1
    <3>7. (c + n) * m = cm + nm
      BY <3>6
    <3> QED BY <3>3, <3>4, <3>5, <3>6, <3>7
  <2> QED BY <2>1, <2>2, <2>3
<1> QED BY <1>1, <1>2, <1>4, <1>7 DEF FewAtOneTime

LEMMA ReadMore ==
  ASSUME LoadTypeOK, NEW file \in Files, loads < MaxLoads,
         loads' = loads + 1, read' = read \o file
  PROVE  /\ read' \in Seq(Row) /\ loads' \in Nat /\ loads' <= MaxLoads
         /\ FewAtOneTime(read', loads' * Second)
<1>1. PICK r \in Seq(Row), f \in Seq(Row) : r = read /\ f = file
  BY FileType DEF LoadTypeOK
<1>2. PICK x \in Seq(Row) : x = r \o f
  <2>1. r \o f \in Seq(Row)
    BY Joined
  <2> QED BY <2>1
<1>3. MaxLoads \in Nat /\ FewAtOneTime(f, Second)
  BY <1>1, StoredAssumption
<1>4. PICK l \in Nat : l = loads /\ l < MaxLoads /\ FewAtOneTime(r, l * Second)
  BY <1>1 DEF LoadTypeOK
<1>5. FewAtOneTime(x, (l + 1) * Second)
  BY <1>2, <1>3, <1>4, FewJoined
<1>6. l + 1 \in Nat /\ l + 1 <= MaxLoads
  BY <1>3, <1>4
<1> QED BY <1>1, <1>2, <1>4, <1>5, <1>6

LEMMA RaisedIs ==
  ASSUME NEW i, NEW file, NEW parsed, NEW filter, NEW skip
  PROVE  /\ Stored!Raised(i, file, parsed, filter, skip)
              \in {"malformed", "naive and aware", "started", "none"}
         /\ Stored!Raised(i, file, parsed, filter, skip) = "none" =>
              Stored!Refused(i, Stored!Included(parsed, filter)) = "none"
BY DEF Stored!Raised, Stored!Refused

LEMMA LoadCSVKeeps ==
  ASSUME FilesInv, format \in FileFormats, NEW i \in Names, NEW file \in Files, NEW tz \in Zones,
         NEW filter, NEW skip, Stored!LoadCSV(i, file, tz, filter, skip),
         failure' \in {"adjusted close", Stored!Raised(i, file, Stored!Parsed(file, tz), filter, skip)},
         fix' \in Fix
  PROVE  BarsInv' /\ LoadTypeOK'
<1>1. BarsInv /\ LoadTypeOK
  BY DEF FilesInv, BarsInv
<1>2. PICK parsed \in Seq(Bar) : parsed = Stored!Parsed(file, tz)
  BY <1>1, ParsedIs
<1>3. PICK loaded \in Seq(Bar) : loaded = Stored!Included(parsed, filter)
  BY IncludedType
<1>4. PICK why : /\ why = Stored!Raised(i, file, parsed, filter, skip)
                 /\ why # "duplicate"
                 /\ why = "none" => Stored!Refused(i, loaded) = "none"
  <2>1. \E w : w = Stored!Raised(i, file, parsed, filter, skip)
    OBVIOUS
  <2> QED BY <1>3, <2>1, RaisedIs
<1>5. /\ failure = "none" /\ loads < MaxLoads /\ loads' = loads + 1 /\ read' = read \o file
      /\ bars' = IF why = "none" THEN Stored!Added(i, loaded) ELSE bars
      /\ UNCHANGED <<format, nextPos, started, currDateTime, db, barsEmitted>>
  BY <1>2, <1>3, <1>4 DEF Stored!LoadCSV, Stored!Running
<1>6. failure' # "duplicate"
  BY <1>2, <1>4
<1>7. BarsInv'
  <2>1. \/ bars' = bars
        \/ Stored!Refused(i, loaded) = "none" /\ bars' = Stored!Added(i, loaded)
    BY <1>4, <1>5
  <2> QED BY <1>1, <1>5, <1>6, <2>1, LoadKeeps
<1>8. LoadTypeOK'
  <2>1. /\ read' \in Seq(Row) /\ loads' \in Nat /\ loads' <= MaxLoads
        /\ FewAtOneTime(read', loads' * Second)
    BY <1>1, <1>5, ReadMore
  <2>2. \A j \in Names :
          /\ IsFiniteSet(DOMAIN db'[j]) /\ DOMAIN db'[j] \in SUBSET Int
          /\ db'[j] \in [DOMAIN db'[j] -> [row : Nat, adjClose : BOOLEAN]]
    BY <1>1, <1>5 DEF LoadTypeOK
  <2> QED BY <2>1, <2>2 DEF LoadTypeOK
<1> QED BY <1>7, <1>8

(* The formats of which the datetimes are not fixed.                       *)
LEMMA FileLoad ==
  ASSUME FilesInv,
         \/ Stored!AddGeneric \/ Stored!AddYahoo \/ Stored!AddGoogle \/ Stored!AddNinjaTrader
  PROVE  FilesInv'
<1>1. PICK i \in Names, file \in Files, tz \in Zones, filter \in Filters, skip \in BOOLEAN :
        /\ Stored!LoadCSV(i, file, tz, filter, skip)
        /\ format \in FileFormats /\ format # "bitcoincharts" /\ fix' = fix
        /\ failure' \in {"adjusted close", Stored!Raised(i, file, Stored!Parsed(file, tz), filter, skip)}
  <2>1. CASE Stored!AddGeneric
    <3>1. PICK i \in Names, file \in Files, tz \in Zones, filter \in Filters, skip \in BOOLEAN :
            LET parsed == Stored!Parsed(file, tz)
                why    == Stored!Raised(i, file, parsed, filter, skip)
                adjClose == \E n \in DOMAIN parsed : parsed[n].adjClose
            IN
            /\ format = "generic" /\ Stored!LoadCSV(i, file, tz, filter, skip)
            /\ haveAdjClose' = (haveAdjClose \/ (why = "none" /\ adjClose))
            /\ failure' = IF why = "none" /\ haveAdjClose /\ ~adjClose THEN "adjusted close" ELSE why
            /\ UNCHANGED fix
      BY <2>1, Zenon DEF Stored!AddGeneric
    <3>2. failure' \in {"adjusted close", Stored!Raised(i, file, Stored!Parsed(file, tz), filter, skip)}
      BY <3>1, Zenon
    <3> QED BY <3>1, <3>2 DEF FileFormats
  <2>2. CASE Stored!AddYahoo
    BY <2>2 DEF Stored!AddYahoo, FileFormats
  <2>3. CASE Stored!AddGoogle
    BY <2>3 DEF Stored!AddGoogle, FileFormats
  <2>4. CASE Stored!AddNinjaTrader
    BY <2>4 DEF Stored!AddNinjaTrader, FileFormats
  <2> QED BY <2>1, <2>2, <2>3, <2>4
<1>2. fix' \in Fix /\ format' = format
  BY <1>1 DEF FilesInv, LoadTypeOK, Stored!LoadCSV
<1>3. BarsInv' /\ LoadTypeOK'
  BY <1>1, <1>2, LoadCSVKeeps
<1>4. TradesLater'
  BY <1>1, <1>2 DEF TradesLater
<1> QED BY <1>3, <1>4 DEF FilesInv, BarsInv

LEMMA LargestOf ==
  ASSUME NEW n \in Nat, NEW S \in SUBSET (1 .. n), S # {}
  PROVE  Stored!Max(S) \in S
<1> DEFINE B == {b \in 0 .. n : n - b \in S}
<1>1. PICK b \in B : \A c \in B : b <= c
  <2>1. PICK x \in S : x \in 1 .. n
    OBVIOUS
  <2>2. n - x \in 0 .. n /\ n - (n - x) = x
    OBVIOUS
  <2>3. n - x \in B
    BY <2>1, <2>2
  <2>4. B \in SUBSET Nat
    OBVIOUS
  <2> HIDE DEF B
  <2> QED BY <2>3, <2>4, LeastNatural
<1>2. b \in 0 .. n /\ n - b \in S
  OBVIOUS
<1>3. ASSUME NEW y \in S PROVE n - b >= y
  <2>1. n - y \in 0 .. n /\ n - (n - y) = y
    OBVIOUS
  <2>2. n - y \in B
    BY <2>1
  <2>3. b <= n - y
    BY <1>1, <2>2
  <2> QED BY <1>2, <2>3
<1>4. \E x \in S : \A y \in S : x >= y
  BY <1>2, <1>3
<1> QED BY <1>4 DEF Stored!Max

LEMMA DatabaseAdd ==
  ASSUME FilesInv, Stored!AddToDatabase
  PROVE  FilesInv'
<1>1. BarsInv /\ LoadTypeOK
  BY DEF FilesInv, BarsInv
<1>2. PICK i \in Names, file \in Files, tz \in Zones :
        LET at(k)  == Stored!Localized(file[k].time * Second, tz).at
            now    == {at(k) : k \in DOMAIN file}
            lastOf == [t \in now |-> Stored!Max({k \in DOMAIN file : at(k) = t})]
        IN
        /\ format = "sqlite" /\ loads < MaxLoads
        /\ loads' = loads + 1 /\ read' = read \o file
        /\ db' = [db EXCEPT ![i] = [t \in now \cup DOMAIN db[i] |->
                                       IF t \in now THEN [row |-> Len(read) + lastOf[t],
                                                          adjClose |-> file[lastOf[t]].adjClose]
                                       ELSE db[i][t]]]
        /\ UNCHANGED <<format, bars, nextPos, started, currDateTime, fix, barsEmitted, failure>>
  BY ZenonT(30) DEF Stored!AddToDatabase
<1>3. BarsInv'
  <2>1. BarsTypeOK' /\ BarsSorted' /\ NotStarted' /\ TurnsInOrder' /\ Current'
    BY <1>1, <1>2 DEF BarsInv, BarsTypeOK, BarsSorted, NotStarted, TurnsInOrder, Current
  <2>2. Ahead' /\ Given' /\ Duplicate'
    BY <1>1, <1>2 DEF BarsInv, Ahead, AfterBar, Given, Duplicate
  <2> QED BY <2>1, <2>2 DEF BarsInv
<1> DEFINE at(k)  == Stored!Localized(file[k].time * Second, tz).at
           now    == {at(k) : k \in DOMAIN file}
           lastOf == [t \in now |-> Stored!Max({k \in DOMAIN file : at(k) = t})]
<1>4. PICK m \in Nat : m = Len(file) /\ DOMAIN file = 1 .. m
  BY FileType
<1>5. \A k \in 1 .. m : at(k) \in Int
  <2>1. SUFFICES ASSUME NEW k \in 1 .. m PROVE at(k) \in Int
    OBVIOUS
  <2>2. file[k].time * Second \in Int
    BY <1>4, FileType
  <2>3. Stored!Localized(file[k].time * Second, tz) \in DateTime
    BY <2>2, LocalizedType
  <2> QED BY <2>3 DEF DateTime
<1> HIDE DEF at
<1>6. now \in SUBSET Int
  BY <1>4, <1>5
<1>7. IsFiniteSet(now)
  <2>1. PICK f : f = [k \in 1 .. m |-> at(k)]
    OBVIOUS
  <2>2. IsFiniteSet(1 .. m)
    BY FS_Interval
  <2>3. f \in Surjection(1 .. m, now)
    BY <1>4, <2>1 DEF Surjection
  <2> QED BY <2>2, <2>3, FS_Surjection
<1>8. ASSUME NEW t \in now PROVE [row |-> Len(read) + lastOf[t], adjClose |-> file[lastOf[t]].adjClose]
                                   \in [row : Nat, adjClose : BOOLEAN]
  <2>1. PICK those \in SUBSET (1 .. m) : those = {k \in DOMAIN file : at(k) = t} /\ those # {}
    BY <1>4
  <2>2. PICK x \in 1 .. m : x = lastOf[t]
    BY <2>1, LargestOf
  <2>3. file[x].adjClose \in BOOLEAN
    BY <1>4, <2>2, FileType
  <2>4. Len(read) \in Nat
    BY <1>1, LenProperties DEF LoadTypeOK
  <2>5. Len(read) + x \in Nat
    BY <2>4
  <2> HIDE DEF lastOf
  <2> QED BY <2>2, <2>3, <2>5
<1>9. PICK new : new = [t \in now \cup DOMAIN db[i] |->
                          IF t \in now THEN [row |-> Len(read) + lastOf[t], adjClose |-> file[lastOf[t]].adjClose]
                          ELSE db[i][t]]
  OBVIOUS
<1>10. db' = [db EXCEPT ![i] = new]
  BY <1>2, <1>9 DEF at
<1> HIDE DEF now, lastOf
<1>11. /\ IsFiniteSet(DOMAIN db[i]) /\ DOMAIN db[i] \in SUBSET Int
       /\ db[i] \in [DOMAIN db[i] -> [row : Nat, adjClose : BOOLEAN]]
  BY <1>1 DEF LoadTypeOK
<1>12. /\ IsFiniteSet(DOMAIN new) /\ DOMAIN new \in SUBSET Int
       /\ new \in [DOMAIN new -> [row : Nat, adjClose : BOOLEAN]]
  <2>1. DOMAIN new = now \cup DOMAIN db[i]
    BY <1>9
  <2>2. IsFiniteSet(now \cup DOMAIN db[i])
    BY <1>7, <1>11, FS_Union
  <2>3. \A t \in DOMAIN new : new[t] \in [row : Nat, adjClose : BOOLEAN]
    BY <1>8, <1>9, <1>11
  <2>4. new = [t \in DOMAIN new |-> new[t]]
    BY <1>9
  <2> QED BY <1>6, <1>11, <2>1, <2>2, <2>3, <2>4
<1>13. LoadTypeOK'
  <2>1. /\ read' \in Seq(Row) /\ loads' \in Nat /\ loads' <= MaxLoads
        /\ FewAtOneTime(read', loads' * Second)
    BY <1>1, <1>2, ReadMore
  <2>2. ASSUME NEW j \in Names
        PROVE  /\ IsFiniteSet(DOMAIN db'[j]) /\ DOMAIN db'[j] \in SUBSET Int
               /\ db'[j] \in [DOMAIN db'[j] -> [row : Nat, adjClose : BOOLEAN]]
    <3>1. CASE j \notin DOMAIN db \/ j # i
      <4>1. db'[j] = db[j]
        BY <1>10, <3>1
      <4> QED BY <1>1, <4>1 DEF LoadTypeOK
    <3>2. CASE j \in DOMAIN db /\ j = i
      <4>1. db'[j] = new
        BY <1>10, <3>2
      <4> QED BY <1>12, <4>1
    <3> QED BY <3>1, <3>2
  <2>3. fix' \in Fix
    BY <1>1, <1>2 DEF LoadTypeOK
  <2> QED BY <2>1, <2>2, <2>3 DEF LoadTypeOK
<1>14. TradesLater'
  BY <1>2 DEF TradesLater
<1> QED BY <1>3, <1>13, <1>14 DEF FilesInv, BarsInv

(* What the database has comes in the order of time.                       *)
LEMMA GetBarsType ==
  ASSUME LoadTypeOK, NEW i \in Names, NEW filter
  PROVE  Stored!GetBars(i, filter) \in Seq(Bar)
<1>1. PICK those \in SUBSET DOMAIN db[i] :
        those = {t \in DOMAIN db[i] :
                   filter = NoFilter \/ t \in filter.from * Second .. filter.to * Second}
  OBVIOUS
<1>2. those \in SUBSET Int /\ IsFiniteSet(those)
  BY FS_Subset DEF LoadTypeOK
<1>3. PICK c, times :
        c \in Nat /\ c = Cardinality(those) /\ times = InOrder(those) /\ Ascending(times, c, those)
  BY <1>2, Increasing
<1>4. times \in [1 .. c -> those]
  BY <1>3 DEF Ascending
<1>5. PICK x : x = [k \in 1 .. c |-> [dateTime |-> [aware |-> TRUE, at |-> times[k]],
                                      adjClose |-> db[i][times[k]].adjClose, row |-> db[i][times[k]].row]]
  OBVIOUS
<1>6. Stored!GetBars(i, filter) = x
  BY <1>1, <1>3, <1>4, <1>5, StoredInOrder DEF Stored!GetBars
<1>7. ASSUME NEW k \in 1 .. c PROVE x[k] \in Bar
  <2>1. times[k] \in those /\ times[k] \in Int /\ times[k] \in DOMAIN db[i]
    BY <1>2, <1>4
  <2>2. db[i][times[k]] \in [row : Nat, adjClose : BOOLEAN]
    BY <2>1 DEF LoadTypeOK
  <2> QED BY <1>5, <2>1, <2>2 DEF Bar, DateTime
<1>8. x \in [1 .. c -> Bar]
  BY <1>5, <1>7
<1> QED BY <1>3, <1>6, <1>8, SeqDef

LEMMA DatabaseLoad ==
  ASSUME FilesInv, Stored!LoadBars
  PROVE  FilesInv'
<1>1. BarsInv /\ LoadTypeOK
  BY DEF FilesInv, BarsInv
<1>2. PICK i \in Names, filter \in Filters :
        /\ failure = "none" /\ format = "sqlite" /\ loads < MaxLoads
        /\ loads' = loads + 1
        /\ failure' = Stored!Refused(i, Stored!GetBars(i, filter))
        /\ bars' = IF failure' = "none" THEN Stored!Added(i, Stored!GetBars(i, filter)) ELSE bars
        /\ UNCHANGED <<format, nextPos, started, currDateTime, fix, db, read, barsEmitted>>
  BY DEF Stored!LoadBars, Stored!Running
<1>3. PICK loaded \in Seq(Bar) : loaded = Stored!GetBars(i, filter)
  BY <1>1, GetBarsType
<1>4. failure' # "duplicate"
  BY <1>2 DEF Stored!Refused
<1>5. BarsInv'
  BY <1>1, <1>2, <1>3, <1>4, LoadKeeps
<1>6. LoadTypeOK'
  <2>1. PICK r \in Seq(Row), l \in Nat : r = read /\ l = loads /\ FewAtOneTime(r, l * Second)
    BY <1>1 DEF LoadTypeOK
  <2>2. MaxLoads \in Nat /\ Second \in Nat
    BY StoredAssumption
  <2>3. FewAtOneTime(r, (l + 1) * Second)
    <3>1. \A x, y \in Nat : x * y \in Nat /\ (x + 1) * y = x * y + y
      OBVIOUS
    <3>2. l * Second \in Nat /\ (l + 1) * Second \in Nat /\ l * Second <= (l + 1) * Second
      BY <2>2, <3>1
    <3> QED BY <2>1, <3>2, FewerStill
  <2>4. loads' \in Nat /\ loads' <= MaxLoads /\ FewAtOneTime(read, loads' * Second)
    BY <1>2, <2>1, <2>2, <2>3
  <2>5. /\ fix' = fix /\ db' = db /\ read' = read
    BY <1>2
  <2> QED BY <1>1, <2>4, <2>5 DEF LoadTypeOK
<1>7. TradesLater'
  BY <1>2 DEF TradesLater
<1> QED BY <1>5, <1>6, <1>7 DEF FilesInv, BarsInv

-----------------------------------------------------------------------------
(* Trades: in files that are read in order every datetime is fixed to be   *)
(* later than those before it.                                             *)

(* The trades that the fix has counted are no more than the microseconds   *)
(* of a second.                                                            *)
LEMMA FixCounts ==
  ASSUME NEW f \in Fix, NEW s \in Seq(Row), NEW n \in 1 .. Len(s), FixOf(f, n, s),
         FewAtOneTime(s, MaxLoads * Second), MaxLoads # 0
  PROVE  f.next <= Second
<1>1. PICK m \in Nat, c \in Nat : m = MaxLoads /\ c = Second /\ m # 0 /\ m * c \in Nat
  BY StoredAssumption
<1>2. n \in Nat /\ n # 0 /\ n \in DOMAIN s /\ DOMAIN s = 1 .. Len(s)
  BY LenProperties
<1>3. /\ f.next \in 1 .. n
      /\ \A k \in n - f.next + 1 .. n : s[k].time = s[n].time
  BY <1>2 DEF FixOf
<1>4. PICK next \in 1 .. n : next = f.next
  BY <1>3
<1>5. PICK j \in 1 .. n : j = n - next + 1 /\ n - j + 1 = next /\ j <= n
  <2>1. n - next + 1 \in 1 .. n /\ n - (n - next + 1) + 1 = next
    BY <1>2
  <2> QED BY <2>1, <1>2
<1>6. AtOneTime(s, j, n)
  <2>1. \A k \in j .. n : s[k].time = s[n].time
    BY <1>3, <1>4, <1>5
  <2>2. j \in j .. n
    BY <1>5
  <2> QED BY <2>1, <2>2 DEF AtOneTime
<1>7. next * m <= m * c
  <2>1. j \in DOMAIN s
    BY <1>2, <1>5
  <2> QED BY <1>1, <1>2, <1>5, <1>6, <2>1 DEF FewAtOneTime
<1>8. next \in Nat
  BY <1>2
<1>9. \A a, b, z \in Nat : z # 0 /\ a * z <= z * b => a <= b
  OBVIOUS
<1> QED BY <1>1, <1>4, <1>7, <1>8, <1>9

LEMMA FixStep ==
  ASSUME NEW f \in Fix, NEW n \in Nat, NEW s \in Seq(Row), n < Len(s), FixOf(f, n, s),
         FewAtOneTime(s, MaxLoads * Second), MaxLoads # 0,
         n # 0 => s[n].time <= s[n + 1].time
  PROVE  /\ FixOf(Stored!FixDateTime(f, s[n + 1].time * Second), n + 1, s)
         /\ f.at < Stored!FixDateTime(f, s[n + 1].time * Second).at
<1>1. Second \in Nat /\ Len(s) \in Nat
  BY StoredAssumption, LenProperties
<1>2. PICK u \in Nat, us \in Nat : u = s[n + 1].time /\ us = u * Second
  <2>1. s[n + 1] \in Row
    BY <1>1, ElementOfSeq
  <2>2. s[n + 1].time \in Nat
    BY <2>1 DEF Row
  <2>3. s[n + 1].time * Second \in Nat
    BY <1>1, <2>2
  <2> QED BY <2>2, <2>3
<1>3. PICK g : g = Stored!FixDateTime(f, us)
  OBVIOUS
<1>4. g = IF us = f.last THEN [last |-> us, next |-> f.next + 1, at |-> us + f.next]
          ELSE [last |-> us, next |-> 1, at |-> us]
  BY <1>3 DEF Stored!FixDateTime
<1>5. CASE n = 0
  <2>1. f = [last |-> -1, next |-> 1, at |-> -1]
    BY <1>5 DEF FixOf
  <2>2. g = [last |-> us, next |-> 1, at |-> us]
    BY <1>4, <2>1
  <2>3. FixOf(g, n + 1, s)
    <3>1. g.last = us /\ g.next = 1 /\ g.at = us /\ n + 1 # 0 /\ 1 \in 1 .. n + 1
      BY <1>5, <2>2
    <3>2. \A k \in (n + 1) - 1 + 1 .. n + 1 : k = n + 1
      OBVIOUS
    <3> QED BY <1>2, <3>1, <3>2 DEF FixOf
  <2> QED BY <1>2, <1>3, <2>1, <2>2, <2>3
<1>6. CASE n # 0
  <2>1. PICK t \in Nat, ts \in Nat : t = s[n].time /\ ts = t * Second
    <3>1. s[n] \in Row
      BY <1>1, <1>6, ElementOfSeq
    <3>2. s[n].time \in Nat
      BY <3>1 DEF Row
    <3>3. s[n].time * Second \in Nat
      BY <1>1, <3>2
    <3> QED BY <3>2, <3>3
  <2>2. /\ f.last = ts /\ f.next \in 1 .. n /\ f.at = ts + f.next - 1
        /\ \A k \in n - f.next + 1 .. n : s[k].time = t
    BY <1>6, <2>1 DEF FixOf
  <2>3. PICK next \in 1 .. n : next = f.next /\ next <= Second
    <3>1. n \in 1 .. Len(s)
      BY <1>1, <1>6
    <3> QED BY <2>2, <3>1, FixCounts
  <2>4. CASE u = t
    <3>1. us = ts
      BY <1>2, <2>1, <2>4
    <3>2. g = [last |-> us, next |-> next + 1, at |-> us + next]
      BY <1>4, <2>2, <2>3, <3>1
    <3>3. g.at = g.last + g.next - 1 /\ g.next \in 1 .. n + 1 /\ g.last = us /\ f.at < g.at
      BY SMTT(20), <2>2, <2>3, <3>1, <3>2
    <3>4. FixOf(g, n + 1, s)
      <4>1. (n + 1) - g.next + 1 = n - f.next + 1
        BY <2>2, <2>3, <3>2
      <4>2. ASSUME NEW k \in n - f.next + 1 .. n + 1 PROVE s[k].time = u
        <5>1. k = n + 1 \/ k \in n - f.next + 1 .. n
          BY <2>2
        <5> QED BY <1>2, <2>2, <2>4, <5>1
      <4>3. n + 1 # 0
        OBVIOUS
      <4> QED BY <1>2, <3>3, <4>1, <4>2, <4>3 DEF FixOf
    <3> QED BY <1>2, <1>3, <3>3, <3>4
  <2>5. CASE u # t
    <3>1. PICK d \in Nat, ds \in Nat : u = t + 1 + d /\ ds = d * Second
      <4>1. t < u
        BY <1>2, <1>6, <2>1, <2>5
      <4>2. u - t - 1 \in Nat /\ u = t + 1 + (u - t - 1)
        BY <4>1
      <4>3. (u - t - 1) * Second \in Nat
        BY <1>1, <4>2
      <4> QED BY <4>2, <4>3
    <3>2. us = ts + Second + ds
      <4>1. \A x, y, z \in Nat : (x + 1 + y) * z = x * z + z + y * z
        OBVIOUS
      <4>2. (t + 1 + d) * Second = t * Second + Second + d * Second
        BY <1>1, <4>1
      <4> QED BY ONLY <1>2, <2>1, <3>1, <4>2
    <3>3. us # f.last
      BY <1>1, <2>2, <2>3, <3>2
    <3>4. g = [last |-> us, next |-> 1, at |-> us]
      BY <1>4, <3>3
    <3>5. f.at < us
      BY <1>1, <2>2, <2>3, <3>2
    <3>6. FixOf(g, n + 1, s)
      <4>1. g.last = us /\ g.next = 1 /\ g.at = us /\ n + 1 # 0 /\ 1 \in 1 .. n + 1
        BY <3>4
      <4>2. \A k \in (n + 1) - 1 + 1 .. n + 1 : k = n + 1
        OBVIOUS
      <4> QED BY <1>2, <4>1, <4>2 DEF FixOf
    <3> QED BY <1>2, <1>3, <3>4, <3>5, <3>6
  <2> QED BY <2>4, <2>5
<1> QED BY <1>5, <1>6

(* The fixes of a file, of which f has one before the first row.           *)
FixedUpTo(f, k, n, s) == FixOf(f[k], n + k, s) /\ \A j \in 0 .. k - 1 : f[j].at < f[k].at

LEMMA FixesLater ==
  ASSUME NEW s \in Seq(Row), ReadInOrder(s), NEW n \in Nat, NEW m \in Nat, Len(s) = n + m,
         FewAtOneTime(s, MaxLoads * Second), MaxLoads # 0,
         NEW f \in [0 .. m -> Fix], FixOf(f[0], n, s),
         \A k \in 1 .. m : f[k] = Stored!FixDateTime(f[k - 1], s[n + k].time * Second)
  PROVE  \A k \in 0 .. m : FixedUpTo(f, k, n, s)
<1> DEFINE B == {k \in 0 .. m : ~FixedUpTo(f, k, n, s)}
<1>1. SUFFICES ASSUME B # {} PROVE FALSE
  OBVIOUS
<1>2. PICK k \in B : \A j \in B : k <= j
  <2>1. B \in SUBSET Nat
    OBVIOUS
  <2> HIDE DEF B
  <2> QED BY <1>1, <2>1, LeastNatural
<1>3. k \in 0 .. m /\ ~FixedUpTo(f, k, n, s)
  OBVIOUS
<1>4. k # 0
  <2>1. FixedUpTo(f, 0, n, s)
    BY DEF FixedUpTo
  <2> QED BY <1>3, <2>1
<1>5. PICK i \in Nat : k = i + 1 /\ i \in 0 .. m /\ i < m /\ k - 1 = i /\ ~(k <= i)
  <2>1. k - 1 \in Nat /\ k = (k - 1) + 1 /\ k - 1 \in 0 .. m /\ k - 1 < m /\ ~(k <= k - 1)
    BY <1>3, <1>4
  <2> QED BY <2>1
<1>6. FixedUpTo(f, i, n, s)
  BY <1>2, <1>5
<1>7. PICK r \in Nat : r = n + i /\ r + 1 = n + k /\ r < Len(s)
  BY <1>5
<1>8. r # 0 => s[r].time <= s[r + 1].time
  <2>1. SUFFICES ASSUME r # 0 PROVE s[r].time <= s[r + 1].time
    OBVIOUS
  <2>2. r \in 1 .. Len(s) - 1
    BY <1>7, <2>1
  <2> QED BY <2>2 DEF ReadInOrder
<1>9. PICK a \in Fix, b \in Fix : a = f[i] /\ b = f[k]
  BY <1>3, <1>5
<1>10. b = Stored!FixDateTime(a, s[r + 1].time * Second)
  BY <1>3, <1>4, <1>5, <1>7, <1>9
<1>11. FixOf(a, r, s)
  BY <1>6, <1>7, <1>9 DEF FixedUpTo
<1>12. FixOf(b, r + 1, s) /\ a.at < b.at
  BY <1>7, <1>8, <1>10, <1>11, FixStep
<1>13. ASSUME NEW j \in 0 .. k - 1 PROVE f[j].at < f[k].at
  <2>1. CASE j = i
    BY <1>9, <1>12, <2>1
  <2>2. CASE j # i
    <3>1. j \in 0 .. i - 1 /\ j \in 0 .. m
      BY <1>3, <1>5, <2>2
    <3>2. f[j].at < a.at
      BY <1>6, <1>9, <3>1 DEF FixedUpTo
    <3>3. f[j].at \in Int /\ a.at \in Int /\ b.at \in Int
      <4>1. f[j] \in Fix
        BY <3>1
      <4> QED BY <4>1 DEF Fix
    <3>4. \A x, y, z \in Int : x < y /\ y < z => x < z
      OBVIOUS
    <3>5. f[j].at < b.at
      BY ONLY <1>12, <3>2, <3>3, <3>4
    <3> QED BY <1>9, <3>5
  <2> QED BY <2>1, <2>2
<1>14. FixedUpTo(f, k, n, s)
  BY <1>7, <1>9, <1>12, <1>13 DEF FixedUpTo
<1> QED BY <1>3, <1>14

(* Bars that are each later than those before it, and parts of them.       *)
After(s, at, row) == \A k \in 1 .. Len(s) : at < s[k].dateTime.at /\ row < s[k].row

LEMMA LaterPart ==
  ASSUME NEW s \in Seq(Bar), NEW those \in SUBSET (1 .. Len(s)), Later(s),
         NEW low, NEW first, After(s, low, first), NEW high, NEW last, Before(s, high, last)
  PROVE  /\ Later(Picked(s, those))
         /\ After(Picked(s, those), low, first) /\ Before(Picked(s, those), high, last)
<1>1. PICK c, p, w : /\ c \in Nat /\ w = Picked(s, those) /\ w \in Seq(Bar) /\ Len(w) = c
                     /\ Ascending(p, c, those) /\ \A k \in 1 .. c : w[k] = s[p[k]]
  <2>1. /\ Cardinality(those) \in Nat
        /\ Picked(s, those) \in Seq(Bar) /\ Len(Picked(s, those)) = Cardinality(those)
        /\ \E p : /\ Ascending(p, Cardinality(those), those)
                 /\ \A k \in 1 .. Cardinality(those) : Picked(s, those)[k] = s[p[k]]
    BY PickedIs
  <2> QED BY <2>1
<1>2. /\ \A k \in 1 .. c : p[k] \in 1 .. Len(s)
      /\ \A j, k \in 1 .. c : j < k => p[j] < p[k]
  BY <1>1 DEF Ascending
<1>3. Later(w)
  <2>1. ASSUME NEW j \in 1 .. c, NEW k \in 1 .. c, j < k
        PROVE  w[j].dateTime.at < w[k].dateTime.at /\ w[j].row < w[k].row
    <3>1. p[j] < p[k] /\ p[j] \in 1 .. Len(s) /\ p[k] \in 1 .. Len(s)
      BY <1>2, <2>1
    <3>2. s[p[j]].dateTime.at < s[p[k]].dateTime.at /\ s[p[j]].row < s[p[k]].row
      BY <3>1 DEF Later
    <3> QED BY <1>1, <3>2
  <2> QED BY <1>1, <2>1 DEF Later
<1>4. After(w, low, first)
  BY <1>1, <1>2 DEF After
<1>5. Before(w, high, last)
  BY <1>1, <1>2 DEF Before
<1> QED BY <1>1, <1>3, <1>4, <1>5

LEMMA LaterJoined ==
  ASSUME NEW s \in Seq(Bar), NEW t \in Seq(Bar), Later(s), Later(t),
         NEW at \in Int, NEW row \in Int, Before(s, at, row), After(t, at, row),
         NEW high \in Int, NEW last \in Int, at <= high, row <= last, Before(t, high, last)
  PROVE  Later(s \o t) /\ Before(s \o t, high, last)
<1>1. PICK a \in Nat, b \in Nat, x \in Seq(Bar) :
        /\ a = Len(s) /\ b = Len(t) /\ x = s \o t /\ Len(x) = a + b
        /\ \A k \in 1 .. a : x[k] = s[k]
        /\ \A k \in 1 .. b : x[a + k] = t[k]
  <2>1. /\ Len(s) \in Nat /\ Len(t) \in Nat
        /\ s \o t \in Seq(Bar) /\ Len(s \o t) = Len(s) + Len(t)
        /\ \A k \in 1 .. Len(s) : (s \o t)[k] = s[k]
        /\ \A k \in 1 .. Len(t) : (s \o t)[Len(s) + k] = t[k]
    BY Joined
  <2> QED BY <2>1
<1>2. ASSUME NEW k \in 1 .. a + b, k \notin 1 .. a PROVE k - a \in 1 .. b /\ x[k] = t[k - a]
  <2>1. k - a \in 1 .. b /\ a + (k - a) = k
    BY <1>2
  <2> QED BY <1>1, <2>1
<1>3. \A k \in 1 .. a + b : x[k].dateTime.at \in Int /\ x[k].row \in Int
  <2>1. \A k \in 1 .. a + b : x[k] \in Bar
    BY <1>1, ElementOfSeq
  <2> QED BY <2>1 DEF Bar, DateTime
<1>4. ASSUME NEW k \in 1 .. a PROVE x[k].dateTime.at <= at /\ x[k].dateTime.aware /\ x[k].row <= row
  BY <1>1 DEF Before
<1>5. ASSUME NEW k \in 1 .. a + b, k \notin 1 .. a
      PROVE  /\ at < x[k].dateTime.at /\ row < x[k].row
             /\ x[k].dateTime.at <= high /\ x[k].dateTime.aware /\ x[k].row <= last
  <2>1. k - a \in 1 .. b /\ x[k] = t[k - a]
    BY <1>2, <1>5
  <2> QED BY <1>1, <2>1 DEF After, Before
<1>6. ASSUME NEW j \in 1 .. a + b, NEW k \in 1 .. a + b, j < k
      PROVE  x[j].dateTime.at < x[k].dateTime.at /\ x[j].row < x[k].row
  <2>1. CASE k \in 1 .. a
    <3>1. j \in 1 .. a
      BY <1>6, <2>1
    <3>2. s[j].dateTime.at < s[k].dateTime.at /\ s[j].row < s[k].row
      BY <1>1, <1>6, <2>1, <3>1 DEF Later
    <3>3. x[j] = s[j] /\ x[k] = s[k]
      BY <1>1, <2>1, <3>1
    <3> QED BY <3>2, <3>3
  <2>2. CASE k \notin 1 .. a /\ j \in 1 .. a
    <3>1. x[j].dateTime.at <= at /\ x[j].row <= row
      BY <1>4, <2>2
    <3>2. at < x[k].dateTime.at /\ row < x[k].row
      BY <1>5, <2>2
    <3>3. PICK aj \in Int, ak \in Int, rj \in Int, rk \in Int :
            aj = x[j].dateTime.at /\ ak = x[k].dateTime.at /\ rj = x[j].row /\ rk = x[k].row
      BY <1>3
    <3>4. aj <= at /\ at < ak /\ rj <= row /\ row < rk
      BY <3>1, <3>2, <3>3
    <3>5. at \in Int /\ row \in Int
      OBVIOUS
    <3>6. aj < ak /\ rj < rk
      BY <3>4, <3>5
    <3> QED BY <3>3, <3>6
  <2>3. CASE k \notin 1 .. a /\ j \notin 1 .. a
    <3>1. /\ k - a \in 1 .. b /\ x[k] = t[k - a]
          /\ j - a \in 1 .. b /\ x[j] = t[j - a]
      BY <1>2, <2>3
    <3>2. j - a < k - a
      BY <1>6
    <3>3. t[j - a].dateTime.at < t[k - a].dateTime.at /\ t[j - a].row < t[k - a].row
      BY <1>1, <3>1, <3>2 DEF Later
    <3> QED BY <3>1, <3>3
  <2> QED BY <2>1, <2>2, <2>3
<1>7. ASSUME NEW k \in 1 .. a + b
      PROVE  x[k].dateTime.at <= high /\ x[k].dateTime.aware /\ x[k].row <= last
  <2>1. CASE k \in 1 .. a
    <3>1. x[k].dateTime.at \in Int /\ x[k].row \in Int
      BY <1>3
    <3> QED BY SMTT(20), <1>4, <2>1, <3>1
  <2>2. CASE k \notin 1 .. a
    BY <1>5, <2>2
  <2> QED BY <2>1, <2>2
<1>8. Later(x)
  BY <1>1, <1>6 DEF Later
<1>9. Before(x, high, last)
  BY <1>1, <1>7 DEF Before
<1> QED BY <1>1, <1>8, <1>9

LEMMA TradesLoad ==
  ASSUME FilesInv, Stored!AddBitcoinCharts
  PROVE  FilesInv'
<1>1. PICK i \in Names, file \in Files, tz \in Zones, filter \in Filters :
        /\ format = "bitcoincharts" /\ Stored!LoadCSV(i, file, tz, filter, FALSE)
        /\ failure' = Stored!Raised(i, file, Stored!Parsed(file, tz), filter, FALSE)
        /\ fix' = Stored!Fixes(file)[Len(file)]
  BY DEF Stored!AddBitcoinCharts
<1>2. BarsInv /\ LoadTypeOK /\ TradesLater /\ format \in FileFormats
  BY <1>1 DEF FilesInv, BarsInv, FileFormats
<1>3. PICK m \in Nat : m = Len(file) /\ DOMAIN file = 1 .. m
  <2>1. Len(file) \in Nat /\ DOMAIN file = 1 .. Len(file)
    BY FileType
  <2> QED BY <2>1
<1>20. PICK f \in [0 .. m -> Fix] :
        /\ f = Stored!Fixes(file) /\ f[0] = fix
        /\ \A k \in 1 .. m : f[k] = Stored!FixDateTime(f[k - 1], file[k].time * Second)
  <2>1. /\ Stored!Fixes(file) \in [0 .. Len(file) -> Fix] /\ Stored!Fixes(file)[0] = fix
        /\ \A k \in 1 .. Len(file) :
             Stored!Fixes(file)[k] = Stored!FixDateTime(Stored!Fixes(file)[k - 1], file[k].time * Second)
    BY <1>2, FixesIs DEF LoadTypeOK
  <2> QED BY <1>3, <2>1
<1>4. fix' = f[m] /\ fix' \in Fix
  BY <1>1, <1>3, <1>20
<1>5. BarsInv' /\ LoadTypeOK'
  BY <1>1, <1>2, <1>4, LoadCSVKeeps
<1>6. PICK parsed \in Seq(Bar) : parsed = Stored!Parsed(file, tz)
  BY <1>2, ParsedIs
<1>21. PICK c \in Nat : c = Len(parsed)
  BY LenProperties
<1>22. PICK p : /\ Ascending(p, c, {k \in DOMAIN file : ~file[k].malformed})
                /\ \A k \in 1 .. c : parsed[k] = Stored!ParseBar(file, p[k], tz)
  <2>1. \E d, q : /\ d \in Nat /\ d = Len(Stored!Parsed(file, tz))
                  /\ Ascending(q, d, {k \in DOMAIN file : ~file[k].malformed})
                  /\ \A k \in 1 .. d : Stored!Parsed(file, tz)[k] = Stored!ParseBar(file, q[k], tz)
    BY <1>2, ParsedIs
  <2> QED BY <1>6, <1>21, <2>1
<1>7. PICK those \in SUBSET (1 .. Len(parsed)), loaded \in Seq(Bar) :
        loaded = Stored!Included(parsed, filter) /\ loaded = Picked(parsed, those)
  <2>1. DOMAIN parsed = 1 .. Len(parsed)
    BY LenProperties
  <2>2. {k \in DOMAIN parsed : Stored!IncludeBar(filter, parsed[k])} \in SUBSET (1 .. Len(parsed))
    BY <2>1
  <2>3. Stored!Included(parsed, filter) =
          Picked(parsed, {k \in DOMAIN parsed : Stored!IncludeBar(filter, parsed[k])})
    BY StoredPicked DEF Stored!Included
  <2>4. Stored!Included(parsed, filter) \in Seq(Bar)
    BY IncludedType
  <2> QED BY <2>2, <2>3, <2>4
<1>8. /\ failure = "none" /\ loads < MaxLoads /\ loads' = loads + 1 /\ read' = read \o file
      /\ bars' = IF failure' = "none" THEN Stored!Added(i, loaded) ELSE bars
      /\ format' = format
  BY <1>1, <1>6, <1>7 DEF Stored!LoadCSV, Stored!Running
<1>9. failure' = "none" => Stored!Refused(i, loaded) = "none"
  BY <1>1, <1>6, <1>7, RaisedIs
<1>10. PICK r \in Seq(Row), n \in Nat, x \in Seq(Row) :
         /\ r = read /\ n = Len(r) /\ x = read' /\ Len(x) = n + m
         /\ \A k \in 1 .. n : x[k] = r[k]
         /\ \A k \in 1 .. m : x[n + k] = file[k]
  <2>1. read \in Seq(Row) /\ file \in Seq(Row)
    BY <1>2, FileType DEF LoadTypeOK
  <2>2. PICK r \in Seq(Row), t \in Seq(Row) : r = read /\ t = file
    BY <2>1
  <2>4. Len(t) = m
    BY <1>3, <2>2
  <2>3. /\ Len(r) \in Nat /\ Len(t) \in Nat
        /\ r \o t \in Seq(Row) /\ Len(r \o t) = Len(r) + Len(t)
        /\ \A k \in 1 .. Len(r) : (r \o t)[k] = r[k]
        /\ \A k \in 1 .. Len(t) : (r \o t)[Len(r) + k] = t[k]
    BY Joined
  <2>5. PICK n \in Nat : n = Len(r)
    BY <2>3
  <2>6. PICK x \in Seq(Row) : x = r \o t
    BY <2>3
  <2>7. x = read'
    BY <1>8, <2>2, <2>6
  <2>8. /\ Len(x) = n + m
        /\ \A k \in 1 .. n : x[k] = r[k]
        /\ \A k \in 1 .. m : x[n + k] = file[k]
    BY <2>2, <2>3, <2>4, <2>5, <2>6
  <2> QED BY <2>2, <2>5, <2>7, <2>8
<1>11. FewAtOneTime(x, MaxLoads * Second) /\ MaxLoads # 0
  <2>1. PICK l \in Nat : l = loads' /\ l <= MaxLoads /\ FewAtOneTime(x, l * Second)
    BY <1>5, <1>10 DEF LoadTypeOK
  <2>2. MaxLoads \in Nat /\ Second \in Nat
    BY StoredAssumption
  <2>3. MaxLoads # 0
    BY <1>2, <1>8, <2>2 DEF LoadTypeOK
  <2>4. l * Second \in Nat /\ MaxLoads * Second \in Nat /\ l * Second <= MaxLoads * Second
    <3>1. \A a, b, z \in Nat : a * z \in Nat /\ (a <= b => a * z <= b * z)
      OBVIOUS
    <3> QED BY <2>1, <2>2, <3>1
  <2> QED BY <2>1, <2>3, <2>4, FewerStill
<1>12. ASSUME ReadInOrder(x)
       PROVE  /\ \A j \in Names : Later(bars'[j])
              /\ failure' = "none" => /\ FixOf(fix', n + m, x)
                                      /\ \A j \in Names : Before(bars'[j], fix'.at, n + m)
  <2>1. ReadInOrder(r)
    <3>1. \A k \in 1 .. n - 1 : k \in 1 .. n + m - 1 /\ k \in 1 .. n /\ k + 1 \in 1 .. n
      OBVIOUS
    <3>2. ASSUME NEW k \in 1 .. n - 1 PROVE r[k].time <= r[k + 1].time
      <4>1. x[k].time <= x[k + 1].time
        BY <1>10, <1>12, <3>1 DEF ReadInOrder
      <4>2. x[k] = r[k] /\ x[k + 1] = r[k + 1]
        BY <1>10, <3>1
      <4> QED BY <4>1, <4>2
    <3>3. n = Len(r)
      BY <1>10
    <3> QED BY <3>2, <3>3 DEF ReadInOrder
  <2>2. \A j \in Names : Later(bars[j])
    BY <1>1, <1>2, <1>10, <2>1 DEF TradesLater
  <2>3. CASE failure' # "none"
    BY <1>8, <2>2, <2>3
  <2>4. CASE failure' = "none"
    <3>1. FixOf(fix, n, r) /\ \A j \in Names : Before(bars[j], fix.at, n)
      BY <1>1, <1>2, <1>8, <1>10, <2>1 DEF TradesLater
    <3>2. \A k \in 0 .. m : FixedUpTo(f, k, n, x)
      <4>1. FixOf(f[0], n, x)
        <5>1. PICK g : g = fix /\ g = f[0] /\ FixOf(g, n, r)
          BY <1>20, <3>1
        <5>2. CASE n = 0
          BY <5>1, <5>2 DEF FixOf
        <5>3. CASE n # 0
          <6>1. /\ g.last = r[n].time * Second /\ g.next \in 1 .. n /\ g.at = g.last + g.next - 1
                /\ \A k \in n - g.next + 1 .. n : r[k].time = r[n].time
            BY <5>1, <5>3 DEF FixOf
          <6>2. \A k \in n - g.next + 1 .. n : k \in 1 .. n
            BY <6>1
          <6>3. n \in 1 .. n
            BY <5>3
          <6>4. \A k \in n - g.next + 1 .. n : x[k].time = x[n].time
            BY <1>10, <6>1, <6>2, <6>3
          <6>5. x[n] = r[n]
            BY <1>10, <6>3
          <6> QED BY <5>1, <5>3, <6>1, <6>4, <6>5 DEF FixOf
        <5> QED BY <5>2, <5>3
      <4>2. \A k \in 1 .. m : f[k] = Stored!FixDateTime(f[k - 1], x[n + k].time * Second)
        BY <1>20, <1>10
      <4> QED BY <1>10, <1>11, <1>12, <4>1, <4>2, FixesLater
    <3>3. /\ m \in 0 .. m /\ 0 \in 0 .. m
          /\ \A k \in 0 .. m : f[k].at \in Int
          /\ \A j, k \in 0 .. m : j < k => f[j].at < f[k].at
      <4>1. \A k \in 0 .. m : f[k] \in Fix
        OBVIOUS
      <4>2. \A j, k \in 0 .. m : j < k => j \in 0 .. k - 1
        OBVIOUS
      <4>3. \A j, k \in 0 .. m : j < k => f[j].at < f[k].at
        BY <3>2, <4>2 DEF FixedUpTo
      <4> QED BY <4>1, <4>3 DEF Fix
    <3>4. PICK low \in Int, high \in Int : low = f[0].at /\ high = f[m].at /\ low <= high
      <4>1. f[0].at \in Int /\ f[m].at \in Int
        BY <3>3
      <4>2. m = 0 \/ 0 < m
        OBVIOUS
      <4> QED BY <3>3, <4>1, <4>2
    <3>5. /\ \A k \in 1 .. c : p[k] \in 1 .. m
          /\ \A j, k \in 1 .. c : j < k => p[j] < p[k]
      BY <1>3, <1>22 DEF Ascending
    <3>6. ASSUME NEW k \in 1 .. c
          PROVE  parsed[k].dateTime.at = f[p[k]].at /\ parsed[k].dateTime.aware /\ parsed[k].row = n + p[k]
      <4>1. parsed[k] = Stored!ParseBar(file, p[k], tz)
        BY <1>22
      <4>2. Stored!ParseDate(file, p[k], tz) = [aware |-> TRUE, at |-> f[p[k]].at]
        BY <1>1, <1>20 DEF Stored!ParseDate, Stored!ParseBitcoinCharts
      <4> QED BY <1>10, <4>1, <4>2 DEF Stored!ParseBar
    <3>7. Later(parsed)
      <4>1. ASSUME NEW j \in 1 .. c, NEW k \in 1 .. c, j < k
            PROVE  parsed[j].dateTime.at < parsed[k].dateTime.at /\ parsed[j].row < parsed[k].row
        <5>1. p[j] < p[k] /\ p[j] \in 1 .. m /\ p[k] \in 1 .. m
          BY <3>5, <4>1
        <5>2. p[j] \in 0 .. m /\ p[k] \in 0 .. m /\ n + p[j] < n + p[k]
          BY <5>1
        <5>3. f[p[j]].at < f[p[k]].at
          BY <3>3, <5>1, <5>2
        <5> QED BY <3>6, <5>2, <5>3
      <4> QED BY <1>21, <4>1 DEF Later
    <3>8. After(parsed, low, n)
      <4>1. ASSUME NEW k \in 1 .. c PROVE low < parsed[k].dateTime.at /\ n < parsed[k].row
        <5>1. p[k] \in 1 .. m /\ p[k] \in 0 .. m /\ 0 < p[k] /\ n < n + p[k]
          BY <3>5
        <5>2. f[0].at < f[p[k]].at
          BY <3>3, <5>1
        <5> QED BY <3>4, <3>6, <5>1, <5>2
      <4> QED BY <1>21, <4>1 DEF After
    <3>9. Before(parsed, high, n + m)
      <4>1. ASSUME NEW k \in 1 .. c
            PROVE  parsed[k].dateTime.at <= high /\ parsed[k].dateTime.aware /\ parsed[k].row <= n + m
        <5>1. p[k] \in 1 .. m /\ p[k] \in 0 .. m /\ n + p[k] <= n + m /\ (p[k] = m \/ p[k] < m)
          BY <3>5
        <5>2. PICK a \in Int : a = f[p[k]].at
          BY <3>3, <5>1
        <5>3. a <= high
          BY SMTT(20), <3>3, <3>4, <5>1, <5>2
        <5> QED BY <3>6, <5>1, <5>2, <5>3
      <4> QED BY <1>21, <4>1 DEF Before
    <3>10. Later(loaded) /\ After(loaded, low, n) /\ Before(loaded, high, n + m)
      BY <1>7, <3>7, <3>8, <3>9, LaterPart
    <3>11. PICK s \in Seq(Bar) : s = bars[i]
      BY <1>2 DEF BarsInv, BarsTypeOK
    <3>12. PICK t \in Seq(Bar) : t = s \o loaded /\ Later(t) /\ Before(t, high, n + m)
      <4>1. Later(s) /\ Before(s, low, n)
        BY <1>20, <2>2, <3>1, <3>4, <3>11
      <4>2. n \in Int /\ n + m \in Int /\ n <= n + m
        OBVIOUS
      <4>3. Later(s \o loaded) /\ Before(s \o loaded, high, n + m)
        BY <3>4, <3>10, <4>1, <4>2, LaterJoined
      <4>4. s \o loaded \in Seq(Bar)
        BY Joined
      <4> QED BY <4>3, <4>4
    <3>13. Stored!Sorted(t) = t
      <4>1. \A j, k \in 1 .. Len(t) : j < k => t[j].dateTime.at <= t[k].dateTime.at
        <5>1. \A k \in 1 .. Len(t) : t[k].dateTime.at \in Int
          <6>1. \A k \in 1 .. Len(t) : t[k] \in Bar
            BY ElementOfSeq
          <6> QED BY <6>1 DEF Bar, DateTime
        <5>2. \A j, k \in 1 .. Len(t) : j < k => t[j].dateTime.at < t[k].dateTime.at
          BY <3>12 DEF Later
        <5> QED BY SMTT(20), <5>1, <5>2
      <4> QED BY <4>1, SortedInTime
    <3>14. bars' = [bars EXCEPT ![i] = t]
      BY <1>8, <2>4, <3>11, <3>12, <3>13 DEF Stored!Added
    <3>15. \A j \in Names : bars'[j] = IF j = i THEN t ELSE bars[j]
      BY <1>2, <3>14 DEF BarsInv, BarsTypeOK
    <3>16. ASSUME NEW j \in Names, j # i PROVE Before(bars[j], high, n + m)
      <4>1. PICK b \in Seq(Bar) : b = bars[j]
        BY <1>2 DEF BarsInv, BarsTypeOK
      <4>2. Before(b, low, n)
        BY <1>20, <3>1, <3>4, <4>1
      <4>3. ASSUME NEW k \in 1 .. Len(b)
            PROVE  b[k].dateTime.at <= high /\ b[k].dateTime.aware /\ b[k].row <= n + m
        <5>1. b[k].dateTime.at <= low /\ b[k].dateTime.aware /\ b[k].row <= n
          BY <4>2 DEF Before
        <5>2. PICK a \in Int, row \in Nat : a = b[k].dateTime.at /\ row = b[k].row
          <6>1. b[k] \in Bar
            BY ElementOfSeq
          <6> QED BY <6>1 DEF Bar, DateTime
        <5>3. a <= low /\ row <= n /\ row \in Int /\ n \in Int /\ n + m \in Int /\ n <= n + m
          BY <5>1, <5>2
        <5>4. a <= high
          BY <3>4, <5>3
        <5>5. row <= n + m
          BY <5>3
        <5> QED BY <5>1, <5>2, <5>4, <5>5
      <4> QED BY <4>1, <4>3 DEF Before
    <3>17. FixOf(fix', n + m, x)
      BY <1>4, <3>2, <3>3 DEF FixedUpTo
    <3>18. fix'.at = high
      BY <1>4, <3>4
    <3>19. ASSUME NEW j \in Names PROVE Later(bars'[j]) /\ Before(bars'[j], high, n + m)
      BY <2>2, <3>12, <3>15, <3>16
    <3> QED BY <3>17, <3>18, <3>19
  <2> QED BY <2>3, <2>4
<1>13. TradesLater'
  <2>1. SUFFICES ASSUME ReadInOrder(x)
                 PROVE  TradesLater'
    BY <1>10 DEF TradesLater, ReadInOrder
  <2>2. /\ \A j \in Names : Later(bars'[j])
        /\ failure' = "none" => /\ FixOf(fix', Len(read'), read')
                                /\ \A j \in Names : Before(bars'[j], fix'.at, Len(read'))
    BY <1>10, <1>12, <2>1
  <2> QED BY <2>2 DEF TradesLater, Later, Before, FixOf
<1> QED BY <1>5, <1>13 DEF FilesInv, BarsInv

-----------------------------------------------------------------------------
(* Stored bars: what dispatching does *)

(* One more of the first bars of an instrument.                            *)
LEMMA BeginningNext ==
  ASSUME NEW v \in Seq(Bar), NEW n \in 1 .. Len(v)
  PROVE  SubSeq(v, 1, n) = Append(SubSeq(v, 1, n - 1), v[n])
<1>1. PICK m \in Nat : m = n - 1 /\ n \in Nat /\ m + 1 = n /\ n <= Len(v) /\ Len(v) \in Nat
  <2>1. Len(v) \in Nat
    BY LenProperties
  <2> QED BY <2>1
<1>2. PICK x : x = SubSeq(v, 1, m) /\ x = [k \in 1 .. m |-> v[k]]
  <2>1. SubSeq(v, 1, m) = [k \in 1 .. m |-> v[k]]
    BY <1>1
  <2> QED BY <2>1
<1>3. \A k \in 1 .. m + 1 : v[k] \in Bar
  BY <1>1, ElementOfSeq
<1>4. x \in Seq(Bar)
  <2>1. \A k \in 1 .. m : v[k] \in Bar
    BY <1>3
  <2>2. x \in [1 .. m -> Bar]
    BY <1>2, <2>1
  <2> QED BY <2>2, SeqDef
<1>5. Len(x) = m
  BY <1>2, <1>4, LenProperties
<1>6. PICK y \in Seq(Bar) : /\ y = Append(x, v[n]) /\ Len(y) = m + 1 /\ y[m + 1] = v[n]
                            /\ \A k \in 1 .. m : y[k] = x[k]
  <2>1. v[n] \in Bar
    BY <1>1, <1>3
  <2>2. PICK b \in Bar : b = v[n]
    BY <2>1
  <2>3. /\ Append(x, b) \in Seq(Bar) /\ Len(Append(x, b)) = Len(x) + 1
        /\ Append(x, b)[Len(x) + 1] = b /\ \A k \in 1 .. Len(x) : Append(x, b)[k] = x[k]
    BY <1>4, AppendProperties
  <2> QED BY <1>5, <2>2, <2>3
<1>7. y = [k \in 1 .. m + 1 |-> y[k]]
  <2>1. DOMAIN y = 1 .. m + 1
    BY <1>6, LenProperties
  <2> QED BY <2>1
<1>8. \A k \in 1 .. m + 1 : y[k] = v[k]
  BY <1>1, <1>2, <1>6
<1>9. SubSeq(v, 1, n) = [k \in 1 .. m + 1 |-> v[k]]
  BY <1>1
<1>10. SubSeq(v, 1, n) = y
  BY <1>7, <1>8, <1>9
<1> QED BY <1>1, <1>2, <1>6, <1>10

(* One more turn, with the instrument in it or not.                        *)
LEMMA MineNext ==
  ASSUME NEW s \in Seq(Turn), NEW e \in Turn, NEW i \in Names
  PROVE  Mine(Append(s, e), i) = IF i \in DOMAIN e THEN Append(Mine(s, i), e[i]) ELSE Mine(s, i)
<1>1. PICK n \in Nat : n = Len(s)
  BY LenProperties
<1>2. PICK x \in Seq(Turn) : /\ x = Append(s, e) /\ Len(x) = n + 1 /\ x[n + 1] = e
                             /\ \A k \in 1 .. n : x[k] = s[k]
  <2>1. /\ Append(s, e) \in Seq(Turn) /\ Len(Append(s, e)) = Len(s) + 1
        /\ Append(s, e)[Len(s) + 1] = e /\ \A k \in 1 .. Len(s) : Append(s, e)[k] = s[k]
    BY AppendProperties
  <2> QED BY <1>1, <2>1
<1>3. PICK those : those = With(s, i) /\ those \in SUBSET (1 .. n)
  BY <1>1 DEF With
<1>4. ~(n + 1 \in 1 .. n) /\ 1 .. n + 1 = (1 .. n) \cup {n + 1}
  OBVIOUS
<1>5. PICK m \in Seq(Turn) : m = Picked(s, those)
  BY <1>1, <1>3, PickedIs
<1>6. CASE i \in DOMAIN e
  <2>1. With(x, i) = those \cup {n + 1}
    <3>1. \A k \in 1 .. n + 1 : i \in DOMAIN x[k] <=> k \in those \/ k = n + 1
      BY <1>1, <1>2, <1>3, <1>4, <1>6 DEF With
    <3> QED BY <1>2, <1>3, <1>4, <3>1 DEF With
  <2>2. Picked(x, With(x, i)) = Append(m, e)
    <3>1. Picked(Append(s, e), those \cup {Len(s) + 1}) = Append(Picked(s, those), e)
      BY SMTT(20), <1>1, <1>3, PickedOneMore
    <3> QED BY <1>1, <1>2, <1>5, <2>1, <3>1
  <2>3. PICK c \in Nat : c = Len(m)
    BY LenProperties
  <2>4. PICK y \in Seq(Turn) : /\ y = Append(m, e) /\ Len(y) = c + 1 /\ y[c + 1] = e
                               /\ \A k \in 1 .. c : y[k] = m[k]
    <3>1. /\ Append(m, e) \in Seq(Turn) /\ Len(Append(m, e)) = Len(m) + 1
          /\ Append(m, e)[Len(m) + 1] = e /\ \A k \in 1 .. Len(m) : Append(m, e)[k] = m[k]
      BY AppendProperties
    <3> QED BY <2>3, <3>1
  <2>5. PICK q \in Seq(Bar) : q = Mine(s, i) /\ q = [k \in 1 .. c |-> m[k][i]] /\ Len(q) = c
    <3>1. Mine(s, i) = [k \in 1 .. c |-> m[k][i]]
      BY <1>3, <1>5, <2>3 DEF Mine
    <3>2. Mine(s, i) \in Seq(Bar)
      BY MineIs
    <3>3. PICK z \in Seq(Bar) : z = Mine(s, i) /\ z = [k \in 1 .. c |-> m[k][i]]
      BY <3>1, <3>2
    <3>4. Len(z) = c
      BY <3>3, LenProperties
    <3> QED BY <3>3, <3>4
  <2>6. Mine(x, i) = [k \in 1 .. c + 1 |-> y[k][i]]
    BY <2>2, <2>4 DEF Mine
  <2>7. e[i] \in Bar
    <3>1. PICK now \in SUBSET Names : e \in [now -> Bar]
      BY DEF Turn
    <3> QED BY <1>6, <3>1
  <2>8. PICK b \in Bar : b = e[i]
    BY <2>7
  <2>9. PICK r \in Seq(Bar) : /\ r = Append(q, b) /\ Len(r) = c + 1 /\ r[c + 1] = b
                              /\ \A k \in 1 .. c : r[k] = q[k]
    <3>1. /\ Append(q, b) \in Seq(Bar) /\ Len(Append(q, b)) = Len(q) + 1
          /\ Append(q, b)[Len(q) + 1] = b /\ \A k \in 1 .. Len(q) : Append(q, b)[k] = q[k]
      BY AppendProperties
    <3> QED BY <2>5, <3>1
  <2>10. r = [k \in 1 .. c + 1 |-> r[k]]
    <3>1. DOMAIN r = 1 .. c + 1
      BY <2>9, LenProperties
    <3> QED BY <3>1
  <2>11. \A k \in 1 .. c + 1 : r[k] = y[k][i]
    <3>1. 1 .. c + 1 = (1 .. c) \cup {c + 1}
      OBVIOUS
    <3>2. \A k \in 1 .. c : r[k] = m[k][i]
      BY <2>5, <2>9
    <3> QED BY <2>4, <2>8, <2>9, <3>1, <3>2
  <2>12. Mine(x, i) = r
    BY <2>6, <2>10, <2>11
  <2> QED BY <1>2, <1>6, <2>5, <2>8, <2>9, <2>12
<1>7. CASE i \notin DOMAIN e
  <2>1. With(x, i) = those
    <3>1. \A k \in 1 .. n + 1 : i \in DOMAIN x[k] <=> k \in those
      BY <1>1, <1>2, <1>3, <1>4, <1>7 DEF With
    <3> QED BY <1>2, <1>3, <1>4, <3>1 DEF With
  <2>2. Picked(x, those) = Picked(s, those)
    <3>1. Len(s) <= Len(x) /\ \A k \in 1 .. Len(s) : x[k] = s[k]
      BY <1>1, <1>2
    <3>2. those \in SUBSET (1 .. Len(s))
      BY <1>1, <1>3
    <3> QED BY <3>1, <3>2, PickedSame
  <2>3. Mine(x, i) = Mine(s, i)
    BY <1>3, <2>1, <2>2 DEF Mine
  <2> QED BY <1>2, <1>7, <2>3
<1> QED BY <1>6, <1>7

LEMMA MineNone ==
  ASSUME NEW i \in Names
  PROVE  Mine(<< >>, i) = << >>
<1>1. PICK none \in Seq(Turn) : none = << >> /\ Len(none) = 0
  <2>1. << >> \in Seq(Turn) /\ Len(<< >>) = 0
    OBVIOUS
  <2> QED BY <2>1
<1>2. With(none, i) = {}
  BY <1>1 DEF With
<1>3. Mine(none, i) \in Seq(Bar) /\ Len(Mine(none, i)) = 0
  BY <1>2, MineIs, FS_EmptySet
<1> QED BY <1>1, <1>3, EmptySeq

(* Settings, the start and a reset.                                        *)
LEMMA FilesControl ==
  ASSUME FilesInv, Stored!UseAdjusted \/ Stored!Start
  PROVE  FilesInv'
<1>1. /\ UNCHANGED <<format, bars, nextPos, currDateTime, fix, db, loads, read, barsEmitted>>
      /\ started' \in {started, TRUE} /\ (started => started')
      /\ failure' \in {failure, "no adjusted close"}
      /\ failure = "none"
  BY DEF Stored!UseAdjusted, Stored!Start, Stored!Running
<1>2. BarsTypeOK' /\ LoadTypeOK' /\ BarsSorted' /\ NotStarted' /\ TurnsInOrder' /\ Current'
  <2>1. BarsTypeOK'
    BY <1>1 DEF FilesInv, BarsTypeOK
  <2>2. LoadTypeOK'
    BY <1>1 DEF FilesInv, LoadTypeOK
  <2>3. BarsSorted' /\ TurnsInOrder' /\ Current'
    BY <1>1 DEF FilesInv, BarsSorted, TurnsInOrder, Current
  <2>4. NotStarted'
    BY <1>1 DEF FilesInv, NotStarted
  <2> QED BY <2>1, <2>2, <2>3, <2>4
<1>3. Ahead' /\ Given' /\ Duplicate'
  BY <1>1 DEF FilesInv, Ahead, AfterBar, Given, Duplicate
<1>4. TradesLater'
  BY <1>1 DEF FilesInv, TradesLater
<1> QED BY <1>2, <1>3, <1>4 DEF FilesInv

LEMMA FilesReset ==
  ASSUME FilesInv, Stored!Reset
  PROVE  FilesInv'
<1>1. /\ UNCHANGED <<format, bars, started, fix, db, loads, read, failure>>
      /\ started /\ failure = "none"
      /\ nextPos' = [i \in Names |-> 1] /\ currDateTime' = << >> /\ barsEmitted' = << >>
  BY DEF Stored!Reset, Stored!Running
<1>2. << >> \in Seq(Turn) /\ Len(<< >>) = 0
  OBVIOUS
<1>3. BarsTypeOK'
  <2>1. \A i \in Names : nextPos'[i] <= Len(bars[i]) + 1
    <3>1. \A i \in Names : bars[i] \in Seq(Bar) /\ Len(bars[i]) \in Nat
      BY LenProperties DEF FilesInv, BarsTypeOK
    <3> QED BY <1>1, <3>1
  <2>2. nextPos' \in [Names -> Nat \ {0}]
    BY <1>1
  <2>3. bars' = bars /\ bars \in [Names -> Seq(Bar)] /\ started' \in BOOLEAN /\ barsEmitted' \in Seq(Turn)
    BY <1>1, <1>2 DEF FilesInv, BarsTypeOK
  <2> QED BY <2>1, <2>2, <2>3 DEF BarsTypeOK
<1>4. LoadTypeOK' /\ BarsSorted' /\ TradesLater'
  BY <1>1 DEF FilesInv, LoadTypeOK, BarsSorted, TradesLater
<1>5. NotStarted' /\ Current' /\ Ahead' /\ Duplicate'
  BY <1>1 DEF FilesInv, NotStarted, Current, Ahead, Duplicate
<1>6. TurnsInOrder'
  BY <1>1, <1>2 DEF TurnsInOrder
<1>7. Given'
  <2>1. ASSUME NEW i \in Names
        PROVE  Mine(<< >>, i) = SubSeq(bars[i], 1, nextPos'[i] - 1)
    <3>1. PICK b \in Seq(Bar) : b = bars[i]
      BY DEF FilesInv, BarsTypeOK
    <3>2. SubSeq(b, 1, 0) = << >>
      BY SubSeqProperties
    <3>3. nextPos'[i] = 1 /\ nextPos'[i] - 1 = 0
      BY <1>1
    <3> QED BY <3>1, <3>2, <3>3, MineNone
  <2>2. \A i \in Names : Mine(barsEmitted', i) = SubSeq(bars'[i], 1, nextPos'[i] - 1)
    BY <1>1, <2>1
  <2> QED BY <2>2 DEF Given, Mine, With
<1> QED BY <1>3, <1>4, <1>5, <1>6, <1>7 DEF FilesInv

(* The time of the next turn.                                              *)
LEMMA NextTime ==
  ASSUME BarsTypeOK, ~Stored!Eof
  PROVE  /\ \A i \in Stored!Left : /\ i \in Names /\ nextPos[i] \in 1 .. Len(bars[i])
                                   /\ bars[i][nextPos[i]] \in Bar
         /\ Stored!Min({Stored!NextBar(i).dateTime.at : i \in Stored!Left}) \in
              {bars[i][nextPos[i]].dateTime.at : i \in Stored!Left}
         /\ \A i \in Stored!Left :
              Stored!Min({Stored!NextBar(j).dateTime.at : j \in Stored!Left}) <= bars[i][nextPos[i]].dateTime.at
<1>1. PICK rest \in SUBSET Names : rest = Stored!Left /\ rest # {}
  BY DEF Stored!Eof, Stored!Left
<1>2. ASSUME NEW i \in rest
      PROVE  nextPos[i] \in 1 .. Len(bars[i]) /\ bars[i][nextPos[i]] \in Bar
  <2>1. PICK b \in Seq(Bar), n \in Nat : b = bars[i] /\ n = Len(b)
    <3>1. bars[i] \in Seq(Bar)
      BY DEF BarsTypeOK
    <3> QED BY <3>1, LenProperties
  <2>2. nextPos[i] \in Nat \ {0} /\ nextPos[i] <= n
    BY <1>1, <2>1 DEF Stored!Left, BarsTypeOK
  <2>3. nextPos[i] \in 1 .. n
    BY <2>2
  <2> QED BY <2>1, <2>3, ElementOfSeq
<1>3. PICK at : at = [i \in rest |-> bars[i][nextPos[i]].dateTime.at]
  OBVIOUS
<1>4. PICK T : T = {at[i] : i \in rest}
  OBVIOUS
<1>5. T \in SUBSET Int /\ T # {}
  <2>1. \A i \in rest : at[i] \in Int
    BY <1>2, <1>3 DEF Bar, DateTime
  <2> QED BY <1>1, <1>4, <2>1
<1>6. IsFiniteSet(T)
  <2>1. IsFiniteSet(rest)
    BY StoredAssumption, FS_Subset
  <2>2. at \in Surjection(rest, T)
    BY <1>3, <1>4 DEF Surjection
  <2> QED BY <2>1, <2>2, FS_Surjection
<1>7. Min(T) \in T /\ \A t \in T : Min(T) <= t
  BY <1>5, <1>6, MinOfInts
<1>8. Stored!Min(T) = Min(T)
  BY DEF Stored!Min, Min
<1>9. {Stored!NextBar(i).dateTime.at : i \in Stored!Left} = T
  BY <1>1, <1>3, <1>4 DEF Stored!NextBar
<1>10. {bars[i][nextPos[i]].dateTime.at : i \in Stored!Left} = T
  BY <1>1, <1>3, <1>4
<1>11. ASSUME NEW i \in Stored!Left PROVE Stored!Min(T) <= bars[i][nextPos[i]].dateTime.at
  <2>1. at[i] \in T /\ at[i] = bars[i][nextPos[i]].dateTime.at
    BY <1>1, <1>3, <1>4
  <2> QED BY <1>7, <1>8, <2>1
<1> QED BY <1>1, <1>2, <1>7, <1>8, <1>9, <1>10, <1>11

(* A dispatch: the bars of the earliest time that is left are the next     *)
(* turn, unless they are at the time of the one before.                    *)
LEMMA FilesDispatch ==
  ASSUME FilesInv, Stored!Dispatch
  PROVE  FilesInv'
<1>1. /\ BarsTypeOK /\ LoadTypeOK /\ BarsSorted /\ NotStarted
      /\ TurnsInOrder /\ Current /\ Ahead /\ Given /\ Duplicate /\ TradesLater
  BY DEF FilesInv
<1>2. /\ failure = "none" /\ started /\ ~Stored!Eof
      /\ UNCHANGED <<format, bars, started, fix, haveAdjClose, useAdjusted, db, loads, resets, read>>
  BY DEF Stored!Dispatch, Stored!Running
<1>3. PICK rest : rest = Stored!Left
  OBVIOUS
<1>4. ASSUME NEW i \in rest
      PROVE  i \in Names /\ nextPos[i] \in 1 .. Len(bars[i]) /\ bars[i][nextPos[i]] \in Bar
  BY <1>1, <1>2, <1>3, NextTime
<1>5. PICK T \in Int : /\ T = Stored!Min({Stored!NextBar(i).dateTime.at : i \in Stored!Left})
                       /\ \E i \in rest : bars[i][nextPos[i]].dateTime.at = T
                       /\ \A i \in rest : T <= bars[i][nextPos[i]].dateTime.at
  <2>1. /\ Stored!Min({Stored!NextBar(i).dateTime.at : i \in Stored!Left}) \in
             {bars[i][nextPos[i]].dateTime.at : i \in Stored!Left}
        /\ \A i \in Stored!Left :
             Stored!Min({Stored!NextBar(j).dateTime.at : j \in Stored!Left}) <= bars[i][nextPos[i]].dateTime.at
    BY <1>1, <1>2, NextTime
  <2>2. PICK T : T = Stored!Min({Stored!NextBar(i).dateTime.at : i \in Stored!Left})
    OBVIOUS
  <2>3. PICK i \in rest : T = bars[i][nextPos[i]].dateTime.at
    BY <1>3, <2>1, <2>2
  <2>4. T \in Int
    BY <1>4, <2>3 DEF Bar, DateTime
  <2> QED BY <1>3, <2>1, <2>2, <2>3, <2>4
<1>6. PICK now : /\ now = Stored!WithBarsAt(T) /\ now # {} /\ now \in SUBSET rest
                 /\ \A i \in rest : i \in now <=> bars[i][nextPos[i]].dateTime.at = T
  <2>1. PICK now : now = {i \in rest : bars[i][nextPos[i]].dateTime.at = T}
    OBVIOUS
  <2>2. now = Stored!WithBarsAt(T)
    BY <1>3, <2>1 DEF Stored!WithBarsAt, Stored!NextBar
  <2> QED BY <1>5, <2>1, <2>2
<1>7. \/ /\ failure' = "naive and aware" /\ UNCHANGED <<nextPos, currDateTime, barsEmitted>>
      \/ /\ nextPos' = [i \in Names |-> IF i \in now THEN nextPos[i] + 1 ELSE nextPos[i]]
         /\ currDateTime = <<T>>
         /\ failure' = "duplicate" /\ UNCHANGED <<currDateTime, barsEmitted>>
      \/ /\ nextPos' = [i \in Names |-> IF i \in now THEN nextPos[i] + 1 ELSE nextPos[i]]
         /\ currDateTime # <<T>> /\ currDateTime' = <<T>>
         /\ failure' \in {"not adjusted", "none"}
         /\ barsEmitted' = Append(barsEmitted, [i \in now |-> bars[i][nextPos[i]]])
  BY <1>5, <1>6 DEF Stored!Dispatch, Stored!NextBar
<1>8. LoadTypeOK' /\ BarsSorted' /\ NotStarted' /\ TradesLater'
  <2>1. LoadTypeOK'
    BY <1>1, <1>2 DEF LoadTypeOK
  <2>2. BarsSorted'
    BY <1>1, <1>2 DEF BarsSorted
  <2>3. NotStarted'
    BY <1>2 DEF NotStarted
  <2>4. TradesLater'
    BY <1>1, <1>2 DEF TradesLater
  <2> QED BY <2>1, <2>2, <2>3, <2>4
<1>9. CASE failure' = "naive and aware" /\ UNCHANGED <<nextPos, currDateTime, barsEmitted>>
  <2>1. BarsTypeOK'
    BY <1>1, <1>2, <1>9 DEF BarsTypeOK
  <2>2. TurnsInOrder' /\ Current'
    BY <1>1, <1>9 DEF TurnsInOrder, Current
  <2>3. Ahead' /\ Given' /\ Duplicate'
    BY <1>9 DEF Ahead, Given, Duplicate
  <2> QED BY <1>8, <2>1, <2>2, <2>3 DEF FilesInv
<1>10. ASSUME nextPos' = [i \in Names |-> IF i \in now THEN nextPos[i] + 1 ELSE nextPos[i]]
       PROVE  /\ nextPos' \in [Names -> Nat \ {0}]
              /\ \A i \in Names : nextPos'[i] <= Len(bars[i]) + 1
  <2>1. ASSUME NEW i \in Names PROVE nextPos'[i] \in Nat \ {0} /\ nextPos'[i] <= Len(bars[i]) + 1
    <3>1. PICK n \in Nat, p \in Nat \ {0} : n = Len(bars[i]) /\ p = nextPos[i] /\ p <= n + 1
      <4>1. bars[i] \in Seq(Bar) /\ nextPos[i] \in Nat \ {0} /\ nextPos[i] <= Len(bars[i]) + 1
        BY <1>1 DEF BarsTypeOK
      <4>2. Len(bars[i]) \in Nat
        BY <4>1, LenProperties
      <4> QED BY <4>1, <4>2
    <3>2. i \in now => p <= n
      BY <1>4, <1>6, <3>1
    <3>3. nextPos'[i] = IF i \in now THEN p + 1 ELSE p
      BY <1>10, <3>1
    <3>4. CASE i \in now
      <4>1. p + 1 \in Nat \ {0} /\ p + 1 <= n + 1
        BY <3>2, <3>4
      <4> QED BY <3>1, <3>3, <3>4, <4>1
    <3>5. CASE i \notin now
      BY <3>1, <3>3, <3>5
    <3> QED BY <3>4, <3>5
  <2>2. \A i \in Names : nextPos'[i] \in Nat \ {0}
    BY <2>1
  <2> QED BY <1>10, <2>1, <2>2
<1>11. CASE /\ nextPos' = [i \in Names |-> IF i \in now THEN nextPos[i] + 1 ELSE nextPos[i]]
            /\ currDateTime = <<T>>
            /\ failure' = "duplicate" /\ UNCHANGED <<currDateTime, barsEmitted>>
  <2>1. BarsTypeOK'
    BY <1>1, <1>2, <1>10, <1>11 DEF BarsTypeOK
  <2>2. TurnsInOrder' /\ Current'
    BY <1>1, <1>11 DEF TurnsInOrder, Current
  <2>3. Ahead' /\ Given'
    BY <1>11 DEF Ahead, Given
  <2>4. PICK i \in now : TRUE
    BY <1>6
  <2>5. i \in Names /\ nextPos[i] \in 1 .. Len(bars[i]) /\ bars[i][nextPos[i]].dateTime.at = T
    BY <1>4, <1>6
  <2>6. PICK b \in Seq(Bar), n \in Nat : b = bars[i] /\ n = Len(b)
    <3>1. bars[i] \in Seq(Bar)
      BY <1>1, <2>5 DEF BarsTypeOK
    <3> QED BY <3>1, LenProperties
  <2>7. PICK p \in 1 .. n : p = nextPos[i]
    BY <2>5, <2>6
  <2>8. p > 1 /\ b[p - 1].dateTime.at = T /\ b[p].dateTime.at = T
    <3>1. AfterBar(i, T)
      BY <1>1, <1>2, <1>11, <2>5 DEF Ahead
    <3>2. p <= n
      OBVIOUS
    <3> QED BY <2>5, <2>6, <2>7, <3>1, <3>2 DEF AfterBar
  <2>9. p - 1 \in 1 .. n /\ p - 1 # p
    BY <2>8
  <2>10. b[p - 1].dateTime.aware = b[p].dateTime.aware
    BY <1>1, <2>5, <2>6, <2>9 DEF BarsSorted, Alike
  <2>11. b[p - 1].dateTime \in DateTime /\ b[p].dateTime \in DateTime
    <3>1. b[p - 1] \in Bar /\ b[p] \in Bar
      BY <2>6, <2>9, ElementOfSeq
    <3> QED BY <3>1 DEF Bar
  <2>12. b[p - 1].dateTime = b[p].dateTime
    BY <2>8, <2>10, <2>11 DEF DateTime
  <2>13. Conflict(bars[i])
    BY <2>6, <2>9, <2>12 DEF Conflict
  <2>14. Duplicate'
    BY <1>2, <2>5, <2>13 DEF Duplicate
  <2> QED BY <1>8, <2>1, <2>2, <2>3, <2>14 DEF FilesInv
<1>12. CASE /\ nextPos' = [i \in Names |-> IF i \in now THEN nextPos[i] + 1 ELSE nextPos[i]]
            /\ currDateTime # <<T>> /\ currDateTime' = <<T>>
            /\ failure' \in {"not adjusted", "none"}
            /\ barsEmitted' = Append(barsEmitted, [i \in now |-> bars[i][nextPos[i]]])
  <2>1. PICK e \in Turn : /\ e = [i \in now |-> bars[i][nextPos[i]]] /\ DOMAIN e = now
                          /\ \A i \in now : e[i] = bars[i][nextPos[i]]
    <3>1. now \in SUBSET Names
      BY <1>4, <1>6
    <3>2. [i \in now |-> bars[i][nextPos[i]]] \in [now -> Bar]
      BY <1>4, <1>6
    <3>3. [i \in now |-> bars[i][nextPos[i]]] \in Turn
      BY <3>1, <3>2 DEF Turn
    <3> QED BY <3>3
  <2>2. AtTime(e, T)
    BY <1>6, <2>1 DEF AtTime
  <2>3. PICK s \in Seq(Turn), n \in Nat : s = barsEmitted /\ n = Len(s)
    BY <1>1, LenProperties DEF BarsTypeOK
  <2>4. PICK x \in Seq(Turn) : /\ x = barsEmitted' /\ Len(x) = n + 1 /\ x[n + 1] = e
                               /\ \A k \in 1 .. n : x[k] = s[k]
    <3>1. /\ Append(s, e) \in Seq(Turn) /\ Len(Append(s, e)) = Len(s) + 1
          /\ Append(s, e)[Len(s) + 1] = e /\ \A k \in 1 .. Len(s) : Append(s, e)[k] = s[k]
      BY AppendProperties
    <3>2. barsEmitted' = Append(s, e)
      BY <1>12, <2>1, <2>3
    <3> QED BY <2>3, <3>1, <3>2
  <2>5. BarsTypeOK'
    BY <1>1, <1>2, <1>10, <1>12, <2>4 DEF BarsTypeOK
  <2>6. \A t \in Int : AtTime(e, t) => t = T
    BY <2>2 DEF AtTime
  <2>7. ASSUME n # 0, NEW t \in Int, AtTime(s[n], t)
        PROVE  t < T
    <3>1. s # << >>
      <4>1. Len(<< >>) = 0
        OBVIOUS
      <4> QED BY <2>3, <2>7, <4>1
    <3>2. PICK c \in Int : currDateTime = <<c>> /\ AtTime(s[n], c)
      BY <1>1, <2>3, <3>1 DEF Current
    <3>3. c = t
      BY <2>7, <3>2 DEF AtTime
    <3>4. PICK i \in now : TRUE
      BY <1>6
    <3>5. i \in Names /\ nextPos[i] \in 1 .. Len(bars[i]) /\ bars[i][nextPos[i]].dateTime.at = T
      BY <1>4, <1>6
    <3>6. AfterBar(i, c)
      BY <1>1, <1>2, <3>2, <3>5 DEF Ahead
    <3>7. nextPos[i] <= Len(bars[i])
      BY <3>5
    <3>8. c <= T
      BY <3>5, <3>6, <3>7 DEF AfterBar
    <3>9. c # T
      BY <1>12, <3>2
    <3> QED BY <3>3, <3>8, <3>9
  <2>8. TurnsInOrder'
    <3>1. ASSUME NEW k \in 1 .. n + 1 PROVE \E t \in Int : AtTime(x[k], t)
      <4>1. CASE k = n + 1
        BY <2>2, <2>4, <4>1
      <4>2. CASE k # n + 1
        <5>1. k \in 1 .. n
          BY <4>2
        <5> QED BY <1>1, <2>3, <2>4, <5>1 DEF TurnsInOrder
      <4> QED BY <4>1, <4>2
    <3>2. ASSUME NEW k \in 2 .. n + 1, NEW t \in Int, NEW u \in Int, AtTime(x[k - 1], t), AtTime(x[k], u)
          PROVE  t < u
      <4>1. CASE k = n + 1
        <5>1. n # 0 /\ k - 1 = n /\ n \in 1 .. n
          BY <4>1
        <5>2. u = T /\ AtTime(s[n], t)
          BY <2>4, <2>6, <3>2, <4>1, <5>1
        <5> QED BY <2>7, <5>1, <5>2
      <4>2. CASE k # n + 1
        <5>1. k \in 2 .. n /\ k \in 1 .. n /\ k - 1 \in 1 .. n
          BY <4>2
        <5>2. AtTime(s[k - 1], t) /\ AtTime(s[k], u)
          BY <2>4, <3>2, <5>1
        <5> QED BY <1>1, <2>3, <5>1, <5>2 DEF TurnsInOrder
      <4> QED BY <4>1, <4>2
    <3>3. /\ \A k \in 1 .. Len(x) : \E t \in Int : AtTime(x[k], t)
          /\ \A k \in 2 .. Len(x) : \A t, u \in Int : AtTime(x[k - 1], t) /\ AtTime(x[k], u) => t < u
      BY <2>4, <3>1, <3>2
    <3>4. x = barsEmitted'
      BY <2>4
    <3>5. /\ \A k \in 1 .. Len(barsEmitted') : \E t \in Int : AtTime(barsEmitted'[k], t)
          /\ \A k \in 2 .. Len(barsEmitted') : \A t, u \in Int :
               AtTime(barsEmitted'[k - 1], t) /\ AtTime(barsEmitted'[k], u) => t < u
      BY ONLY <3>3, <3>4, Zenon
    <3> QED BY ONLY <3>5, Zenon DEF TurnsInOrder, AtTime
  <2>9. Current'
    <3>1. x # << >>
      <4>1. Len(<< >>) = 0 /\ n + 1 # 0
        OBVIOUS
      <4> QED BY <2>4, <4>1
    <3>2. AtTime(x[Len(x)], T)
      BY <2>2, <2>4
    <3> QED BY <1>12, <2>4, <3>1, <3>2 DEF Current, AtTime
  <2>10. ASSUME NEW i \in Names
         PROVE  nextPos'[i] <= Len(bars[i]) =>
                  /\ T <= bars[i][nextPos'[i]].dateTime.at
                  /\ bars[i][nextPos'[i]].dateTime.at = T =>
                       nextPos'[i] > 1 /\ bars[i][nextPos'[i] - 1].dateTime.at = T
    <3>1. PICK b \in Seq(Bar), m \in Nat : b = bars[i] /\ m = Len(b)
      <4>1. bars[i] \in Seq(Bar)
        BY <1>1 DEF BarsTypeOK
      <4> QED BY <4>1, LenProperties
    <3>2. CASE i \in now
      <4>1. PICK p \in 1 .. m : p = nextPos[i] /\ b[p].dateTime.at = T
        BY <1>4, <1>6, <3>1, <3>2
      <4>2. nextPos'[i] = p + 1 /\ p + 1 > 1 /\ (p + 1) - 1 = p
        <5>1. nextPos'[i] = nextPos[i] + 1
          BY <1>12, <3>2
        <5> QED BY <4>1, <5>1
      <4>3. ASSUME p + 1 <= m PROVE T <= b[p + 1].dateTime.at
        <5>1. p + 1 \in 1 .. m /\ p < p + 1
          BY <4>3
        <5> QED BY <1>1, <3>1, <4>1, <5>1 DEF BarsSorted, InTime
      <4> QED BY <3>1, <4>1, <4>2, <4>3
    <3>3. CASE i \notin now
      <4>1. nextPos'[i] = nextPos[i]
        BY <1>12, <3>3
      <4>2. ASSUME nextPos[i] <= m
            PROVE  T <= b[nextPos[i]].dateTime.at /\ b[nextPos[i]].dateTime.at # T
        <5>1. i \in rest
          BY <1>3, <3>1, <4>2 DEF Stored!Left
        <5> QED BY <1>5, <1>6, <3>1, <3>3, <5>1
      <4> QED BY <3>1, <4>1, <4>2
    <3> QED BY <3>2, <3>3
  <2>11. Ahead'
    <3>1. ASSUME NEW t \in Int, <<T>> = <<t>> PROVE t = T
      BY <3>1
    <3> QED BY <1>2, <1>12, <2>10, <3>1 DEF Ahead, AfterBar
  <2>12. ASSUME NEW i \in Names
         PROVE  Mine(x, i) = SubSeq(bars[i], 1, nextPos'[i] - 1)
    <3>1. Mine(x, i) = IF i \in now THEN Append(Mine(s, i), e[i]) ELSE Mine(s, i)
      <4>1. Mine(Append(s, e), i) = IF i \in DOMAIN e THEN Append(Mine(s, i), e[i]) ELSE Mine(s, i)
        BY MineNext
      <4>2. x = Append(s, e)
        BY <1>12, <2>1, <2>3, <2>4
      <4> QED BY <2>1, <4>1, <4>2
    <3>2. Mine(s, i) = SubSeq(bars[i], 1, nextPos[i] - 1)
      BY <1>1, <1>2, <2>3 DEF Given
    <3>3. CASE i \in now
      <4>1. PICK b \in Seq(Bar) : b = bars[i]
        BY <1>1 DEF BarsTypeOK
      <4>2. PICK p \in 1 .. Len(b) : p = nextPos[i] /\ e[i] = b[p]
        BY <1>4, <1>6, <2>1, <3>3, <4>1
      <4>3. SubSeq(b, 1, p) = Append(SubSeq(b, 1, p - 1), b[p])
        BY BeginningNext
      <4>4. nextPos'[i] = p + 1 /\ (p + 1) - 1 = p
        <5>1. Len(b) \in Nat
          BY LenProperties
        <5>2. nextPos'[i] = nextPos[i] + 1
          BY <1>12, <3>3
        <5>3. p \in Nat /\ (p + 1) - 1 = p
          BY <5>1
        <5> QED BY <4>2, <5>2, <5>3
      <4> QED BY <3>1, <3>2, <3>3, <4>1, <4>2, <4>3, <4>4
    <3>4. CASE i \notin now
      BY <1>12, <3>1, <3>2, <3>4
    <3> QED BY <3>3, <3>4
  <2>13. Given'
    <3>1. \A i \in Names : Mine(barsEmitted', i) = SubSeq(bars'[i], 1, nextPos'[i] - 1)
      BY <1>2, <2>4, <2>12
    <3> QED BY <3>1 DEF Given, Mine, With
  <2>14. Duplicate'
    BY <1>12 DEF Duplicate
  <2> QED BY <1>8, <2>5, <2>8, <2>9, <2>11, <2>13, <2>14 DEF FilesInv
<1> QED BY <1>7, <1>9, <1>11, <1>12

LEMMA FilesStep ==
  ASSUME FilesInv, Stored!FilesNext \/ UNCHANGED stored
  PROVE  FilesInv'
<1>1. CASE UNCHANGED stored
  <2>1. UNCHANGED <<format, bars, nextPos, started, currDateTime, fix, db, loads, read, barsEmitted, failure>>
    BY <1>1 DEF stored
  <2>2. BarsTypeOK' /\ LoadTypeOK'
    <3>1. BarsTypeOK'
      BY <2>1 DEF FilesInv, BarsTypeOK
    <3>2. LoadTypeOK'
      BY <2>1 DEF FilesInv, LoadTypeOK
    <3> QED BY <3>1, <3>2
  <2>3. BarsSorted' /\ NotStarted' /\ TurnsInOrder' /\ Current'
    BY <2>1 DEF FilesInv, BarsSorted, NotStarted, TurnsInOrder, Current
  <2>4. Ahead' /\ Given' /\ Duplicate'
    BY <2>1 DEF FilesInv, Ahead, AfterBar, Given, Duplicate
  <2>5. TradesLater'
    BY <2>1 DEF FilesInv, TradesLater
  <2> QED BY <2>2, <2>3, <2>4, <2>5 DEF FilesInv
<1>2. CASE Stored!FilesNext
  BY <1>2, FileLoad, TradesLoad, DatabaseAdd, DatabaseLoad, FilesControl, FilesReset, FilesDispatch
     DEF Stored!FilesNext
<1> QED BY <1>1, <1>2

-----------------------------------------------------------------------------
(* What was loaded from files, or from a database, is dispatched once, in  *)
(* the order of time and with what is at one time together, from whichever *)
(* feed, format, timezones and number of loads, until something is raised. *)
(* A duplicate is raised only for two bars of an instrument that have one  *)
(* datetime, and a value is refused only for another one of its column, or *)
(* if more was loaded during the run.  Bars of trades that were read in    *)
(* order never have one datetime, if as few trades follow each other at    *)
(* one time as StoredAssumption says.                                      *)
THEOREM LoadedOnceInOrderCorrect == StoredSpec => []LoadedOnceInOrder
<1>1. StoredInit => ValuesInv /\ FilesInv
  BY ValuesInitInv, FilesInitInv
<1>2. ValuesInv /\ FilesInv /\ [StoredNext]_<<stored, otherValues>> => (ValuesInv /\ FilesInv)'
  <2> SUFFICES ASSUME ValuesInv, FilesInv, [StoredNext]_<<stored, otherValues>>
               PROVE  ValuesInv' /\ FilesInv'
    OBVIOUS
  <2>1. Values!ValuesNext \/ UNCHANGED otherValues
    BY DEF StoredNext
  <2>2. Stored!FilesNext \/ UNCHANGED stored
    BY DEF StoredNext
  <2> QED BY <2>1, <2>2, ValuesStep, FilesStep
<1>3. ValuesInv /\ FilesInv => LoadedOnceInOrder
  BY ValuesInvImplies, FilesInvImplies DEF LoadedOnceInOrder
<1> QED BY <1>1, <1>2, <1>3, PTL DEF StoredSpec
=============================================================================
