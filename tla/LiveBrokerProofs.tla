-------------------------- MODULE LiveBrokerProofs --------------------------
(***************************************************************************)
(* The broker for live trading on Bitstamp, for every set of orders, every *)
(* number of executions and every failure of a call: each execution after  *)
(* the start reaches the broker once and in order, what the broker         *)
(* believes to be left of an order is accounted for, and its orders follow *)
(* the state chart that every broker promises.                             *)
(***************************************************************************)
EXTENDS LiveBroker, DataTheorems, SequenceTheorems

States == Lifecycle!States

MonitorStages == {"new", "check", "poll", "report", "ended"}
StartStages   == {"balance", "orders", "monitor"}
FinalStages   == {"stop", "join", "over"}
BatchStages   == {"apply", "filled"} \cup FinalStages

OrderRecords == [state : States, quantity : Nat, filled : Nat]
Markets      == Orders \cup {Unknown}

(* Every variable holds a value of its kind.                               *)
TypeOK ==
  /\ stage \in Stages /\ monitor \in MonitorStages
  /\ order \in [Orders -> OrderRecords]
  /\ active \subseteq Orders /\ todo \subseteq Orders /\ orphaned \subseteq Orders
  /\ stopped \in BOOLEAN /\ asked \in BOOLEAN /\ monitorStop \in BOOLEAN /\ refused \in BOOLEAN
  /\ balanceAt \in Nat /\ lastTradeId \in Nat /\ failures \in Nat
  /\ processed \in Nat /\ adoptedAt \in Nat /\ startedAt \in Nat
  /\ batch \in Seq(Nat) /\ found \in Seq(Nat) /\ queue \in Seq(Seq(Nat))
  /\ rest \in [Markets -> Nat] /\ trades \in Seq(UserTransactions)

(* Where the two threads are, and what they hold there.                    *)
Control ==
  /\ monitor = "new" => stage \in StartStages \cup FinalStages
  /\ stage \in StartStages => monitor = "new"
  /\ monitor = "new" => queue = <<>> /\ batch = <<>> /\ processed = 0 /\ lastTradeId = 0
  /\ monitor # "report" => found = <<>>
  /\ stage \notin BatchStages => batch = <<>>
  /\ adoptedAt <= Len(trades) /\ startedAt <= Len(trades)
  /\ stage = "filled" => processed <= balanceAt

(* The trades between the exchange and the broker lie end to end: cut[k]   *)
(* is the last one of the k-th batch in the queue.                         *)
Ids(a, b) == [i \in 1 .. b - a |-> a + i]

Chained(cut) ==
  /\ batch = Ids(processed, cut[0]) /\ processed <= cut[0]
  /\ \A k \in 1 .. Len(queue) : queue[k] = Ids(cut[k - 1], cut[k]) /\ cut[k - 1] <= cut[k]
  /\ found = Ids(cut[Len(queue)], lastTradeId) /\ cut[Len(queue)] <= lastTradeId
  /\ lastTradeId <= Len(trades)

Chain == monitor # "new" => \E cut \in [0 .. Len(queue) -> Nat] : Chained(cut)

(* What is known of an order from its state: an own order that was not     *)
(* submitted is unknown to the exchange.                                   *)
OrdersOK ==
  /\ \A o \in active : order[o].state \in {"SUBMITTED", "ACCEPTED", "PARTIALLY_FILLED"}
  /\ \A o \in Own : order[o].state = "INITIAL" =>
       /\ o \notin active /\ o \notin orphaned /\ order[o] = NewOrder
       /\ rest[o] = 0 /\ \A id \in DOMAIN trades : trades[id].order # o
  /\ stage \in {"balance", "orders"} => active = {}
  /\ stage \in StartStages => active \subseteq Adopted

(* What remains of an active order covers what is owed to it, always, and  *)
(* exactly as long as the broker runs and knows what became of the order.  *)
Accounted ==
  /\ stage = "monitor" =>
       \A o \in active : Remaining(o) = rest[o] + ExecutedIn(o, adoptedAt + 1, Len(trades))
  /\ monitor # "new" =>
       \A o \in active : /\ Owed(o) <= Remaining(o)
                         /\ stage \in Running /\ o \notin orphaned => Remaining(o) = Owed(o)

IInv == TypeOK /\ Control /\ OrdersOK /\ Chain /\ Accounted

(* An order is accepted before any of its trades is taken up, if none is   *)
(* submitted while dispatch accepts.                                       *)
Early ==
  /\ ~refused
  /\ \A o \in active : order[o].state = "SUBMITTED" =>
       /\ stage \in {"accept", "accepted"} => o \in todo
       /\ stage \in {"apply", "filled"} => \A k \in DOMAIN batch : trades[batch[k]].order # o

-----------------------------------------------------------------------------
(* Stretches of trade ids *)

(* A stretch of ids, as a sequence.                                        *)
LEMMA IdsFacts ==
  ASSUME NEW a \in Nat, NEW b \in Nat, a <= b
  PROVE  /\ Ids(a, b) \in Seq(Nat) /\ Len(Ids(a, b)) = b - a
         /\ DOMAIN Ids(a, b) = 1 .. b - a
         /\ \A i \in 1 .. b - a : Ids(a, b)[i] = a + i
         /\ Ids(a, b) = <<>> <=> a = b
<1>1. b - a \in Nat
  OBVIOUS
<1>2. Ids(a, b) \in [1 .. b - a -> Nat]
  BY DEF Ids
<1>3. Ids(a, b) \in Seq(Nat) /\ Len(Ids(a, b)) = b - a
  BY <1>1, <1>2
<1> QED BY <1>3 DEF Ids

(* Two stretches that meet make one.                                       *)
LEMMA IdsConcat ==
  ASSUME NEW a \in Nat, NEW b \in Nat, NEW c \in Nat, a <= b, b <= c
  PROVE  Ids(a, b) \o Ids(b, c) = Ids(a, c)
<1>1. a <= c
  OBVIOUS
<1>2. /\ Ids(a, b) \in Seq(Nat) /\ Len(Ids(a, b)) = b - a
      /\ Ids(b, c) \in Seq(Nat) /\ Len(Ids(b, c)) = c - b
      /\ Ids(a, c) \in Seq(Nat) /\ Len(Ids(a, c)) = c - a
  BY <1>1, IdsFacts
<1> DEFINE s == Ids(a, b)
           t == Ids(b, c)
           u == Ids(a, c)
<1>3. /\ \A i \in 1 .. b - a : s[i] = a + i
      /\ \A i \in 1 .. c - b : t[i] = b + i
      /\ \A i \in 1 .. c - a : u[i] = a + i
  BY DEF Ids
<1> HIDE DEF s, t, u
<1>4. s \in Seq(Nat) /\ t \in Seq(Nat) /\ u \in Seq(Nat)
      /\ Len(s) = b - a /\ Len(t) = c - b /\ Len(u) = c - a
  BY <1>2 DEF s, t, u
<1>5. /\ s \o t \in Seq(Nat) /\ Len(s \o t) = Len(s) + Len(t)
      /\ \A i \in 1 .. Len(s) + Len(t) : (s \o t)[i] = IF i <= Len(s) THEN s[i] ELSE t[i - Len(s)]
  BY <1>4, ConcatProperties
<1>6. ASSUME NEW i \in 1 .. c - a PROVE (s \o t)[i] = u[i]
  <2>1. i \in 1 .. Len(s) + Len(t) /\ u[i] = a + i
    BY <1>3, <1>4
  <2>2. CASE i <= b - a
    BY <1>3, <1>4, <1>5, <2>1, <2>2
  <2>3. CASE ~ (i <= b - a)
    <3>1. i - (b - a) \in 1 .. c - b
      BY <2>3
    <3>2. t[i - (b - a)] = b + (i - (b - a))
      BY <1>3, <3>1
    <3>3. (s \o t)[i] = t[i - (b - a)]
      BY <1>4, <1>5, <2>1, <2>3
    <3> QED BY <2>1, <3>2, <3>3
  <2> QED BY <2>2, <2>3
<1>7. Len(s \o t) = Len(u)
  BY <1>4, <1>5
<1>8. s \o t = u
  BY <1>4, <1>5, <1>6, <1>7, SeqEqual
<1> QED BY <1>8 DEF s, t, u

(* Its first id, and what follows.                                         *)
LEMMA IdsHead ==
  ASSUME NEW a \in Nat, NEW b \in Nat, a <= b, Ids(a, b) # <<>>
  PROVE  a + 1 <= b /\ Head(Ids(a, b)) = a + 1 /\ Tail(Ids(a, b)) = Ids(a + 1, b)
<1>1. a + 1 <= b
  BY IdsFacts
<1> DEFINE s == Ids(a, b)
           c == a + 1
           t == Ids(c, b)
<1>2. s \in Seq(Nat) /\ Len(s) = b - a /\ \A i \in 1 .. b - a : s[i] = a + i
  BY IdsFacts
<1>3. c \in Nat /\ c <= b /\ c = a + 1
  BY <1>1
<1> HIDE DEF c
<1>4. t \in Seq(Nat) /\ Len(t) = b - c /\ \A i \in 1 .. b - c : t[i] = c + i
  BY <1>3, IdsFacts
<1>5. s # <<>>
  OBVIOUS
<1> HIDE DEF s, t
<1>6. /\ Tail(s) \in Seq(Nat) /\ Len(Tail(s)) = Len(s) - 1
      /\ \A i \in 1 .. Len(Tail(s)) : Tail(s)[i] = s[i + 1]
  BY <1>2, <1>5, HeadTailProperties
<1>7. Len(Tail(s)) = Len(t) /\ \A i \in 1 .. Len(Tail(s)) : Tail(s)[i] = t[i]
  BY <1>2, <1>3, <1>4, <1>6
<1>8. Tail(s) = t
  BY <1>4, <1>6, <1>7, SeqEqual
<1>9. Head(s) = a + 1
  BY <1>2, <1>3, <1>5
<1> QED BY <1>1, <1>8, <1>9 DEF s, t, c

(* The stretches between cuts that do not decrease make up one.            *)
LEMMA Flattened ==
  ASSUME NEW q \in Seq(Seq(Nat)), NEW cut \in [0 .. Len(q) -> Nat],
         \A k \in 1 .. Len(q) : q[k] = Ids(cut[k - 1], cut[k]) /\ cut[k - 1] <= cut[k]
  PROVE  /\ FlattenSeq(q) = Ids(cut[0], cut[Len(q)])
         /\ \A k \in 0 .. Len(q) : cut[0] <= cut[k]
<1> DEFINE n == Len(q)
<1>1. n \in Nat
  OBVIOUS
<1>2. \A k \in 0 .. n : cut[0] <= cut[k]
  <2> DEFINE B == {k \in 0 .. n : ~ (cut[0] <= cut[k])}
  <2>1. SUFFICES ASSUME B # {} PROVE FALSE
    OBVIOUS
  <2>2. PICK m \in B : \A k \in B : m <= k
    <3>1. B \in SUBSET Nat
      OBVIOUS
    <3> HIDE DEF B
    <3> QED BY <2>1, <3>1, LeastNatural
  <2>3. m \in 1 .. n /\ m - 1 \in 0 .. n /\ m - 1 \notin B
    BY <1>1, <2>2
  <2>4. cut[0] <= cut[m - 1] /\ cut[m - 1] <= cut[m]
    BY <2>3
  <2>5. cut[0] \in Nat /\ cut[m - 1] \in Nat /\ cut[m] \in Nat
    <3>1. 0 \in 0 .. n /\ m \in 0 .. n
      BY <1>1, <2>3
    <3> QED BY <2>3, <3>1
  <2>6. cut[0] <= cut[m]
    BY <2>4, <2>5
  <2> QED BY <2>6
<1>3. CASE n = 0
  <2>1. FlattenSeq(q) = <<>>
    BY <1>3 DEF FlattenSeq
  <2> QED BY <1>2, <1>3, <2>1, IdsFacts
<1>4. CASE n # 0
  <2> DEFINE Rec(f) == f = [i \in 1 .. n |-> IF i = 1 THEN q[i] ELSE f[i - 1] \o q[i]]
             whole  == [i \in 1 .. n |-> Ids(cut[0], cut[i])]
             flat   == CHOOSE f : Rec(f)
  <2>1. FlattenSeq(q) = flat[n]
    BY <1>4 DEF FlattenSeq
  <2>2. \A i \in 1 .. n : whole[i] = IF i = 1 THEN q[i] ELSE whole[i - 1] \o q[i]
    <3> SUFFICES ASSUME NEW i \in 1 .. n, i # 1 PROVE Ids(cut[0], cut[i]) = Ids(cut[0], cut[i - 1]) \o q[i]
      <4>1. 1 \in 1 .. n => q[1] = Ids(cut[0], cut[1])
        BY <1>1
      <4> HIDE DEF Rec, flat
      <4>2. \A i \in 1 .. n : i # 1 => i - 1 \in 1 .. n
        BY <1>1
      <4> QED BY <4>1, <4>2, Zenon
    <3>1. i - 1 \in 0 .. n /\ i \in 0 .. n /\ 0 \in 0 .. n
      BY <1>1
    <3>2. cut[0] \in Nat /\ cut[i - 1] \in Nat /\ cut[i] \in Nat
      BY <3>1
    <3>3. cut[0] <= cut[i - 1] /\ cut[i - 1] <= cut[i] /\ q[i] = Ids(cut[i - 1], cut[i])
      BY <1>2, <3>1
    <3> QED BY ZenonT(60), <3>2, <3>3, IdsConcat
  <2>3. Rec(whole)
    <3>1. whole = [i \in 1 .. n |-> whole[i]]
      OBVIOUS
    <3> HIDE DEF whole
    <3> QED BY <2>2, <3>1
  <2>4. Rec(flat)
    <3> HIDE DEF Rec, whole
    <3> QED BY <2>3
  <2>5. \A i \in 1 .. n : flat[i] = IF i = 1 THEN q[i] ELSE flat[i - 1] \o q[i]
    <3> HIDE DEF flat
    <3> QED BY <2>4
  <2>6. flat[n] = whole[n]
    <3> DEFINE B == {i \in 1 .. n : flat[i] # whole[i]}
    <3> HIDE DEF flat, whole
    <3>0. n \in 1 .. n
      BY <1>1, <1>4
    <3>1. SUFFICES ASSUME B # {} PROVE FALSE
      BY <3>0
    <3>2. PICK m \in B : \A k \in B : m <= k
      <4>1. B \in SUBSET Nat
        OBVIOUS
      <4> HIDE DEF B
      <4> QED BY <3>1, <4>1, LeastNatural
    <3>3. m \in 1 .. n /\ flat[m] # whole[m]
      BY <3>2
    <3>4. m # 1 => m - 1 \in 1 .. n /\ m - 1 \notin B
      BY <1>1, <3>2, <3>3
    <3>5. m # 1 => flat[m - 1] = whole[m - 1]
      BY <3>4
    <3> HIDE DEF B
    <3> QED BY <2>2, <2>5, <3>3, <3>5
  <2> QED BY <1>1, <1>2, <1>4, <2>1, <2>6
<1> QED BY <1>3, <1>4

(* The trades that a poll finds.                                           *)
LEMMA NewTradesAre ==
  ASSUME TypeOK, lastTradeId <= Len(trades)
  PROVE  NewTrades = Ids(lastTradeId, Len(trades))
<1> DEFINE new == {id \in DOMAIN trades : IsNew(id)}
<1>1. new = lastTradeId + 1 .. Len(trades)
  BY DEF TypeOK, IsNew
<1>2. Cardinality(new) = Len(trades) - lastTradeId
  <2>1. lastTradeId \in Nat /\ Len(trades) \in Nat
    BY DEF TypeOK
  <2>2. \A a, b \in Int : Cardinality(a .. b) = IF a > b THEN 0 ELSE b - a + 1
    BY FS_Interval
  <2>3. lastTradeId + 1 \in Int /\ Len(trades) \in Int
    BY <2>1
  <2> HIDE DEF new
  <2>4. Cardinality(new) = IF lastTradeId + 1 > Len(trades) THEN 0 ELSE Len(trades) - (lastTradeId + 1) + 1
    BY <1>1, <2>2, <2>3, Zenon
  <2> QED BY <2>1, <2>4
<1> HIDE DEF new
<1>3. NewTrades = [i \in 1 .. Cardinality(new) |-> Len(trades) - Cardinality(new) + i]
  BY DEF NewTrades, new
<1> QED BY <1>2, <1>3 DEF Ids, TypeOK

-----------------------------------------------------------------------------
(* The chain of trades *)

(* What the chain says at its ends.                                        *)
LEMMA Cuts ==
  ASSUME TypeOK, NEW cut \in [0 .. Len(queue) -> Nat], Chained(cut)
  PROVE  /\ Len(queue) \in Nat /\ cut[0] \in Nat /\ cut[Len(queue)] \in Nat
         /\ processed <= cut[0] /\ cut[0] <= cut[Len(queue)]
         /\ cut[Len(queue)] <= lastTradeId /\ lastTradeId <= Len(trades)
         /\ FlattenSeq(queue) = Ids(cut[0], cut[Len(queue)])
         /\ found = <<>> => cut[Len(queue)] = lastTradeId
<1>1. queue \in Seq(Seq(Nat)) /\ Len(queue) \in Nat
  BY DEF TypeOK
<1>2. cut[0] \in Nat /\ cut[Len(queue)] \in Nat
  <2>1. 0 \in 0 .. Len(queue) /\ Len(queue) \in 0 .. Len(queue)
    BY <1>1
  <2> QED BY <2>1
<1>3. /\ FlattenSeq(queue) = Ids(cut[0], cut[Len(queue)])
      /\ \A k \in 0 .. Len(queue) : cut[0] <= cut[k]
  BY <1>1, Flattened DEF Chained
<1>4. found = <<>> => cut[Len(queue)] = lastTradeId
  BY <1>2, IdsFacts DEF Chained, TypeOK
<1> QED BY <1>1, <1>2, <1>3, <1>4 DEF Chained

(* A trade that dispatch takes up is the next one.                         *)
LEMMA BatchHead ==
  ASSUME TypeOK, Control, Chain, batch # <<>>
  PROVE  /\ monitor # "new" /\ Head(batch) = processed + 1 /\ processed + 1 \in DOMAIN trades
         /\ \E cut \in [0 .. Len(queue) -> Nat] :
              Chained(cut) /\ processed + 1 <= cut[0] /\ Tail(batch) = Ids(processed + 1, cut[0])
<1>1. monitor # "new"
  BY DEF Control
<1>2. PICK cut \in [0 .. Len(queue) -> Nat] : Chained(cut)
  BY <1>1 DEF Chain
<1>3. batch = Ids(processed, cut[0]) /\ processed <= cut[0] /\ processed \in Nat /\ cut[0] \in Nat
  BY <1>2, Cuts DEF Chained, TypeOK
<1>4. processed + 1 <= cut[0] /\ Head(batch) = processed + 1 /\ Tail(batch) = Ids(processed + 1, cut[0])
  BY <1>3, IdsHead
<1>5. processed + 1 \in DOMAIN trades
  <2>1. cut[0] <= cut[Len(queue)] /\ cut[Len(queue)] <= lastTradeId /\ lastTradeId <= Len(trades)
        /\ cut[Len(queue)] \in Nat
    BY <1>2, Cuts
  <2>2. lastTradeId \in Nat /\ Len(trades) \in Nat /\ DOMAIN trades = 1 .. Len(trades)
    BY DEF TypeOK
  <2> QED BY <1>3, <1>4, <2>1, <2>2
<1> QED BY <1>1, <1>2, <1>4, <1>5

(* What a poll finds reaches up to the last trade.                         *)
LEMMA Found ==
  ASSUME TypeOK, Chain, monitor # "new", NewTrades # <<>>
  PROVE  /\ NewTrades = Ids(lastTradeId, Len(trades)) /\ NewTrades \in Seq(Nat)
         /\ NewTrades[Len(NewTrades)] = Len(trades) /\ lastTradeId <= Len(trades)
<1>1. PICK cut \in [0 .. Len(queue) -> Nat] : Chained(cut)
  BY DEF Chain
<1>2. lastTradeId \in Nat /\ Len(trades) \in Nat /\ lastTradeId <= Len(trades)
  BY <1>1, Cuts DEF TypeOK
<1>3. NewTrades = Ids(lastTradeId, Len(trades))
  BY <1>2, NewTradesAre
<1>4. lastTradeId # Len(trades)
  BY <1>2, <1>3, IdsFacts
<1>5. /\ Ids(lastTradeId, Len(trades)) \in Seq(Nat)
      /\ Len(Ids(lastTradeId, Len(trades))) = Len(trades) - lastTradeId
      /\ \A i \in 1 .. Len(trades) - lastTradeId : Ids(lastTradeId, Len(trades))[i] = lastTradeId + i
  BY <1>2, IdsFacts
<1>6. Len(trades) - lastTradeId \in 1 .. Len(trades) - lastTradeId
  BY <1>2, <1>4
<1> QED BY <1>2, <1>3, <1>5, <1>6

(* The exchange adds a trade.                                              *)
LEMMA AppendedTrade ==
  ASSUME TypeOK, NEW o \in Markets, Execute(o)
  PROVE  \E n \in 1 .. rest[o] :
           /\ rest' = [rest EXCEPT ![o] = @ - n] /\ n \in Nat /\ rest[o] \in Nat
           /\ Len(trades') = Len(trades) + 1 /\ Len(trades) \in Nat
           /\ \A id \in DOMAIN trades : trades'[id] = trades[id]
           /\ trades'[Len(trades) + 1] = [order |-> o, quantity |-> n]
           /\ DOMAIN trades = 1 .. Len(trades) /\ DOMAIN trades' = 1 .. Len(trades) + 1
<1>1. PICK n \in 1 .. rest[o] :
        rest' = [rest EXCEPT ![o] = @ - n] /\ trades' = Append(trades, [order |-> o, quantity |-> n])
  BY DEF Execute
<1>2. rest[o] \in Nat /\ n \in Nat /\ trades \in Seq(UserTransactions)
  BY DEF TypeOK
<1>3. [order |-> o, quantity |-> n] \in UserTransactions
  BY <1>2 DEF UserTransactions, Markets
<1>4. /\ Len(trades') = Len(trades) + 1 /\ Len(trades) \in Nat
      /\ \A id \in 1 .. Len(trades) : trades'[id] = trades[id]
      /\ trades'[Len(trades) + 1] = [order |-> o, quantity |-> n]
      /\ DOMAIN trades = 1 .. Len(trades) /\ DOMAIN trades' = 1 .. Len(trades')
      /\ trades' \in Seq(UserTransactions)
  BY <1>1, <1>2, <1>3, AppendProperties, LenProperties
<1> QED BY <1>1, <1>2, <1>4

(* No step of any thread breaks the chain.                                 *)
LEMMA ChainStep ==
  ASSUME TypeOK, TypeOK', Control, Chain, [Next]_vars
  PROVE  Chain'
<1> DEFINE Links == <<batch, processed, queue, found, lastTradeId>>
<1> SUFFICES ASSUME monitor' # "new" PROVE \E cut \in [0 .. Len(queue') -> Nat] : Chained(cut)'
  BY DEF Chain
<1>1. ASSUME UNCHANGED Links, Len(trades) <= Len(trades'), monitor # "new"
      PROVE  \E cut \in [0 .. Len(queue') -> Nat] : Chained(cut)'
  <2>1. PICK cut \in [0 .. Len(queue) -> Nat] : Chained(cut)
    BY <1>1 DEF Chain
  <2>2. lastTradeId \in Nat /\ Len(trades) \in Nat /\ Len(trades') \in Nat
    BY DEF TypeOK
  <2>3. Chained(cut)'
    BY <1>1, <2>1, <2>2 DEF Chained
  <2> QED BY <1>1, <2>1, <2>3
<1>2. CASE StartTradeMonitor
  <2>1. UNCHANGED <<batch, queue, found, trades>> /\ processed' = Len(trades) /\ lastTradeId' = Len(trades)
        /\ monitor = "new"
    <3>1. stage = "monitor" /\ monitor = "new"
      BY <1>2 DEF StartTradeMonitor, Control, StartStages
    <3> QED BY <1>2, <3>1 DEF StartTradeMonitor, exchange
  <2>2. batch = <<>> /\ queue = <<>> /\ found = <<>>
    BY <2>1 DEF Control
  <2>3. Len(queue') = 0 /\ Len(trades) \in Nat
    BY <2>1, <2>2 DEF TypeOK
  <2>4. PICK cut \in [0 .. 0 -> Nat] : cut[0] = Len(trades)
    <3> DEFINE c == [k \in 0 .. 0 |-> Len(trades)]
    <3>1. c \in [0 .. 0 -> Nat] /\ c[0] = Len(trades)
      BY <2>3
    <3> QED BY <3>1
  <2>5. <<>> = Ids(Len(trades), Len(trades))
    BY <2>3, IdsFacts
  <2>6. Chained(cut)'
    BY <2>1, <2>2, <2>3, <2>4, <2>5 DEF Chained
  <2> QED BY <2>3, <2>4, <2>6
<1>3. CASE GetTrades /\ queue # <<>>
  <2>1. batch' = Head(queue) /\ queue' = Tail(queue) /\ batch = <<>>
        /\ UNCHANGED <<processed, found, lastTradeId, trades, monitor>>
    BY <1>3 DEF GetTrades, Control, exchange, history, BatchStages, FinalStages
  <2>2. PICK cut \in [0 .. Len(queue) -> Nat] : Chained(cut)
    BY <2>1 DEF Chain
  <2>3. processed = cut[0] /\ Len(queue) \in Nat
    <3>1. Ids(processed, cut[0]) = <<>> /\ processed <= cut[0] /\ processed \in Nat /\ cut[0] \in Nat
          /\ Len(queue) \in Nat
      BY <2>1, <2>2, Cuts DEF Chained, TypeOK
    <3> QED BY <3>1, IdsFacts
  <2>4. queue \in Seq(Seq(Nat)) /\ queue # <<>>
    BY <1>3 DEF TypeOK
  <2>5. /\ Len(queue') = Len(queue) - 1 /\ Len(queue) >= 1
        /\ \A k \in 1 .. Len(queue) - 1 : queue'[k] = queue[k + 1]
        /\ Head(queue) = queue[1]
    BY <2>1, <2>4, HeadTailProperties
  <2>6. PICK next \in [0 .. Len(queue) - 1 -> Nat] : \A k \in 0 .. Len(queue) - 1 : next[k] = cut[k + 1]
    <3> DEFINE c == [k \in 0 .. Len(queue) - 1 |-> cut[k + 1]]
    <3>1. c \in [0 .. Len(queue) - 1 -> Nat] /\ \A k \in 0 .. Len(queue) - 1 : c[k] = cut[k + 1]
      BY <2>3
    <3> HIDE DEF c
    <3> QED BY <3>1
  <2>7. batch' = Ids(processed, next[0]) /\ processed <= next[0]
    <3>1. 0 \in 0 .. Len(queue) - 1 /\ 1 \in 1 .. Len(queue)
      BY <2>3, <2>5
    <3>2. next[0] = cut[1]
      BY <2>6, <3>1
    <3>3. queue[1] = Ids(cut[0], cut[1]) /\ cut[0] <= cut[1]
      BY <2>2, <3>1 DEF Chained
    <3> QED BY <2>1, <2>3, <2>5, <3>2, <3>3
  <2>8. ASSUME NEW k \in 1 .. Len(queue) - 1
        PROVE  queue'[k] = Ids(next[k - 1], next[k]) /\ next[k - 1] <= next[k]
    <3>1. k + 1 \in 1 .. Len(queue) /\ k \in 0 .. Len(queue) - 1 /\ k - 1 \in 0 .. Len(queue) - 1
          /\ (k + 1) - 1 = k /\ (k - 1) + 1 = k
      BY <2>3
    <3>2. next[k - 1] = cut[k] /\ next[k] = cut[k + 1] /\ queue'[k] = queue[k + 1]
      BY <2>5, <2>6, <3>1
    <3>3. queue[k + 1] = Ids(cut[(k + 1) - 1], cut[k + 1]) /\ cut[(k + 1) - 1] <= cut[k + 1]
      BY <2>2, <3>1 DEF Chained
    <3> QED BY <3>1, <3>2, <3>3
  <2>9. next[Len(queue) - 1] = cut[Len(queue)]
    <3>1. Len(queue) - 1 \in 0 .. Len(queue) - 1 /\ (Len(queue) - 1) + 1 = Len(queue)
      BY <2>3, <2>5
    <3> QED BY <2>6, <3>1
  <2>10. Chained(next)'
    <3>1. found = Ids(cut[Len(queue)], lastTradeId) /\ cut[Len(queue)] <= lastTradeId
          /\ lastTradeId <= Len(trades)
      BY <2>2 DEF Chained
    <3>2. next[Len(queue')] = cut[Len(queue)]
      BY <2>5, <2>9
    <3>3. \A k \in 1 .. Len(queue') : queue'[k] = Ids(next[k - 1], next[k]) /\ next[k - 1] <= next[k]
      BY <2>5, <2>8
    <3> QED BY <2>1, <2>7, <3>1, <3>2, <3>3 DEF Chained
  <2> QED BY <2>5, <2>6, <2>10
<1>4. CASE batch # <<>> /\ batch' = Tail(batch) /\ processed' = Head(batch)
           /\ UNCHANGED <<queue, found, lastTradeId, trades>>
  <2>1. PICK cut \in [0 .. Len(queue) -> Nat] :
               Chained(cut) /\ processed + 1 <= cut[0] /\ Tail(batch) = Ids(processed + 1, cut[0])
    BY <1>4, BatchHead
  <2>2. processed' = processed + 1
    BY <1>4, BatchHead
  <2>3. Chained(cut)'
    BY <1>4, <2>1, <2>2 DEF Chained
  <2> QED BY <1>4, <2>1, <2>3
<1>5. CASE Poll /\ NewTrades # <<>>
  <2>1. found = <<>> /\ found' = NewTrades /\ lastTradeId' = NewTrades[Len(NewTrades)] /\ monitor # "new"
        /\ UNCHANGED <<batch, processed, queue, trades>>
    BY <1>5 DEF Poll, Control, main, exchange, history
  <2>2. PICK cut \in [0 .. Len(queue) -> Nat] : Chained(cut)
    BY <2>1 DEF Chain
  <2>3. cut[Len(queue)] = lastTradeId /\ lastTradeId <= Len(trades) /\ Len(trades) \in Nat
        /\ found' = Ids(lastTradeId, Len(trades)) /\ lastTradeId' = Len(trades)
    BY <1>5, <2>1, <2>2, Cuts, Found DEF TypeOK
  <2>4. Chained(cut)'
    BY <2>1, <2>2, <2>3 DEF Chained
  <2> QED BY <2>1, <2>2, <2>4
<1>6. CASE Report
  <2>1. found' = <<>> /\ queue' = Append(queue, found) /\ monitor # "new"
        /\ UNCHANGED <<batch, processed, lastTradeId, trades>>
    BY <1>6 DEF Report, main, exchange, history
  <2>2. PICK cut \in [0 .. Len(queue) -> Nat] : Chained(cut)
    BY <2>1 DEF Chain
  <2>0. PICK n \in Nat : n = Len(queue)
    BY DEF TypeOK
  <2>3. n \in Nat /\ cut[n] \in Nat /\ lastTradeId \in Nat /\ found \in Seq(Nat) /\ queue \in Seq(Seq(Nat))
    BY <2>0, <2>2, Cuts DEF TypeOK
  <2>4. /\ Len(queue') = n + 1 /\ queue'[n + 1] = found
        /\ \A k \in 1 .. n : queue'[k] = queue[k]
    BY <2>0, <2>1, <2>3, AppendProperties
  <2>5. PICK next \in [0 .. n + 1 -> Nat] :
               next[n + 1] = lastTradeId /\ \A k \in 0 .. n : next[k] = cut[k]
    <3> DEFINE c == [k \in 0 .. n + 1 |-> IF k <= n THEN cut[k] ELSE lastTradeId]
    <3>1. c \in [0 .. n + 1 -> Nat] /\ c[n + 1] = lastTradeId /\ \A k \in 0 .. n : c[k] = cut[k]
      BY <2>0, <2>3
    <3> HIDE DEF c
    <3> QED BY <3>1
  <2>6. ASSUME NEW k \in 1 .. n + 1
        PROVE  queue'[k] = Ids(next[k - 1], next[k]) /\ next[k - 1] <= next[k]
    <3>1. CASE k \in 1 .. n
      <4>1. k - 1 \in 0 .. n /\ k \in 0 .. n
        BY <2>3, <3>1
      <4>2. queue[k] = Ids(cut[k - 1], cut[k]) /\ cut[k - 1] <= cut[k]
        BY <2>0, <2>2, <3>1 DEF Chained
      <4> QED BY <2>4, <2>5, <3>1, <4>1, <4>2
    <3>2. CASE k = n + 1
      <4>1. k - 1 = n /\ n \in 0 .. n
        BY <2>3, <3>2
      <4>2. found = Ids(cut[n], lastTradeId) /\ cut[n] <= lastTradeId
        BY <2>0, <2>2 DEF Chained
      <4> QED BY <2>4, <2>5, <3>2, <4>1, <4>2
    <3> QED BY <2>3, <3>1, <3>2
  <2>7. next[0] = cut[0] /\ <<>> = Ids(lastTradeId, lastTradeId)
    BY <2>3, <2>5, IdsFacts
  <2>8. Chained(next)'
    <3>1. /\ batch = Ids(processed, cut[0]) /\ processed <= cut[0] /\ lastTradeId <= Len(trades)
      BY <2>2 DEF Chained
    <3>2. \A k \in 1 .. Len(queue') : queue'[k] = Ids(next[k - 1], next[k]) /\ next[k - 1] <= next[k]
      BY <2>4, <2>6
    <3>3. next[Len(queue')] = lastTradeId
      BY <2>4, <2>5
    <3>4. batch' = Ids(processed', next[0]) /\ processed' <= next[0]
      BY <2>1, <2>7, <3>1
    <3>5. found' = Ids(next[Len(queue')], lastTradeId') /\ next[Len(queue')] <= lastTradeId'
      BY <2>1, <2>3, <2>7, <3>3
    <3>6. lastTradeId' <= Len(trades')
      BY <2>1, <3>1
    <3> QED BY <3>2, <3>4, <3>5, <3>6 DEF Chained
  <2> QED BY <2>4, <2>5, <2>8
<1>7. CASE ~(StartTradeMonitor \/ (GetTrades /\ queue # <<>>) \/ SkipTrade \/ ApplyTrade
             \/ (Poll /\ NewTrades # <<>>) \/ Report)
  <2>1. UNCHANGED Links /\ (monitor' # "new" => monitor # "new") /\ (trades' = trades \/ \E o \in Markets : Execute(o))
    BY <1>7 DEF Next, Start, Strategy, Dispatch, Monitor, GetBalance, RefreshOpenOrders, SubmitOrder, CancelOrder,
         CancelAnswerLost, AskToStop, HandlerRaises, BeginDispatch, EndRun, AcceptOrder, GetTrades, DispatchEnds,
         HandlersReturn, Stop, Join, CheckStop, Poll, PollFails, Execute, Markets,
         vars, main, thread, exchange, history
  <2>2. Len(trades) <= Len(trades')
    <3>1. CASE trades' = trades
      BY <3>1 DEF TypeOK
    <3>2. CASE \E o \in Markets : Execute(o)
      <4>1. Len(trades') = Len(trades) + 1 /\ Len(trades) \in Nat
        BY <3>2, AppendedTrade
      <4> QED BY <4>1
    <3> QED BY <2>1, <3>1, <3>2
  <2> QED BY <1>1, <2>1, <2>2
<1>8. ASSUME SkipTrade \/ ApplyTrade
      PROVE  batch # <<>> /\ batch' = Tail(batch) /\ processed' = Head(batch)
             /\ UNCHANGED <<queue, found, lastTradeId, trades>>
  BY <1>8 DEF SkipTrade, ApplyTrade, thread, exchange
<1> QED BY <1>2, <1>3, <1>4, <1>5, <1>6, <1>7, <1>8

-----------------------------------------------------------------------------
(* Types, and where the threads are *)

(* The initial states satisfy the invariant.                               *)
LEMMA InitIInv == Init => IInv
<1> SUFFICES ASSUME Init PROVE IInv
  OBVIOUS
<1>1. rest \in [Markets -> Nat]
  <2>1. rest \in [Markets -> Quantities \cup {0}]
    BY DEF Init, Markets
  <2>2. Quantities \cup {0} \subseteq Nat
    BY LiveBrokerAssumption
  <2> QED BY <2>1, <2>2
<1>2. TypeOK
  <2>1. order \in [Orders -> OrderRecords]
    <3>1. NewOrder \in OrderRecords
      BY DEF NewOrder, OrderRecords, States, Lifecycle!States
    <3> QED BY <3>1 DEF Init
  <2>2. batch \in Seq(Nat) /\ found \in Seq(Nat) /\ queue \in Seq(Seq(Nat)) /\ trades \in Seq(UserTransactions)
    BY DEF Init
  <2> QED BY <1>1, <2>1, <2>2 DEF Init, TypeOK, Stages, MonitorStages
<1>3. Control
  BY <1>2 DEF Init, Control, StartStages, BatchStages, FinalStages
<1>4. OrdersOK
  BY <1>1, LiveBrokerAssumption DEF Init, OrdersOK, Own, NewOrder, StartStages, Markets
<1>5. Chain /\ Accounted
  BY DEF Init, Chain, Accounted
<1> QED BY <1>2, <1>3, <1>4, <1>5 DEF IInv

(* What a trade makes of its order, and of one that cannot take it.        *)
WithFill(o, n)    == [order[o] EXCEPT !.state = StateAfter(o, n), !.filled = @ + n]
RefusedFill(o, n) == [order[o] EXCEPT !.filled = @ + n]

(* A trade that is applied is the next one: its order takes it, refuses it *)
(* after the account was updated, or the call for the balance fails.       *)
LEMMA AppliedTrade ==
  ASSUME TypeOK, Control, Chain, ApplyTrade
  PROVE  \E o \in active, n \in Nat \ {0} :
           /\ trades[processed + 1].order = o /\ trades[processed + 1].quantity = n
           /\ order' \in {order, [order EXCEPT ![o] = WithFill(o, n)], [order EXCEPT ![o] = RefusedFill(o, n)]}
           /\ \/ /\ CanFill(o) /\ stage' = "filled" /\ refused' = refused
                 /\ order' = [order EXCEPT ![o] = WithFill(o, n)]
                 /\ active' = IF n = Remaining(o) THEN active \ {o} ELSE active
              \/ /\ ~CanFill(o) /\ stage' = "stop" /\ active' = active
                 /\ order' = [order EXCEPT ![o] = RefusedFill(o, n)]
              \/ /\ stage' = "stop" /\ UNCHANGED <<order, active, refused>>
<1>1. Head(batch) = processed + 1 /\ processed + 1 \in DOMAIN trades
  BY BatchHead DEF ApplyTrade
<1>2. PICK t \in UserTransactions : t = trades[processed + 1]
  BY <1>1 DEF TypeOK
<1>3. PICK o, n : o = t.order /\ n = t.quantity
  OBVIOUS
<1>4. n \in Nat \ {0}
  BY <1>2, <1>3 DEF UserTransactions
<1>5. /\ o \in active
      /\ \/ /\ IF CanFill(o)
               THEN /\ order' = [order EXCEPT ![o] = WithFill(o, n)]
                    /\ active' = IF n = Remaining(o) THEN active \ {o} ELSE active
                    /\ stage' = "filled" /\ UNCHANGED refused
               ELSE /\ order' = [order EXCEPT ![o] = RefusedFill(o, n)]
                    /\ stage' = "stop" /\ UNCHANGED active
         \/ stage' = "stop" /\ UNCHANGED <<order, active, refused>>
  <2>1. o \in active => o \in Orders /\ order[o] \in OrderRecords
    BY DEF TypeOK
  <2>2. o \in active =>
          /\ [order EXCEPT ![o].state = StateAfter(o, n), ![o].filled = @ + n] = [order EXCEPT ![o] = WithFill(o, n)]
          /\ [order EXCEPT ![o].filled = @ + n] = [order EXCEPT ![o] = RefusedFill(o, n)]
    BY <2>1 DEF WithFill, RefusedFill, TypeOK, OrderRecords
  <2> QED BY <1>1, <1>2, <1>3, <2>2 DEF ApplyTrade, RefreshFails, Unregister
<1> QED BY <1>2, <1>3, <1>4, <1>5

(* Each step keeps the orders records of their kind.                       *)
LEMMA OrderType ==
  ASSUME TypeOK, Control, Chain, [Next]_vars
  PROVE  order' \in [Orders -> OrderRecords]
<1>1. \/ order' = order \/ RefreshOpenOrders \/ \E o \in Orders, n \in Quantities : SubmitOrder(o, n)
      \/ \E o \in Orders : CancelOrder(o) \/ AcceptOrder(o)
      \/ ApplyTrade
  BY DEF Next, Start, Strategy, Dispatch, Monitor, GetBalance, StartTradeMonitor,
         CancelAnswerLost, AskToStop, HandlerRaises, BeginDispatch, EndRun, GetTrades, SkipTrade, DispatchEnds,
         HandlersReturn, Stop, Join, CheckStop, Poll, PollFails, Report, Execute,
         vars, main, thread, exchange, history
<1>2. order \in [Orders -> OrderRecords]
  BY DEF TypeOK
<1>3. CASE RefreshOpenOrders
  <2>1. \A o \in Orders : rest[o] \in Nat
    BY DEF TypeOK, Markets
  <2>2. \A o \in Orders : Adopt(o) \in OrderRecords
    BY <2>1 DEF Adopt, OrderRecords, States, Lifecycle!States
  <2> QED BY <1>2, <1>3, <2>2 DEF RefreshOpenOrders
<1>4. ASSUME NEW o \in Orders, NEW n \in Quantities, SubmitOrder(o, n)
      PROVE  order' \in [Orders -> OrderRecords]
  <2>1. n \in Nat /\ order[o] \in OrderRecords
    BY <1>2, LiveBrokerAssumption
  <2>2. [order[o] EXCEPT !.state = "SUBMITTED", !.quantity = n] \in OrderRecords
    BY <2>1 DEF OrderRecords, States, Lifecycle!States
  <2> QED BY <1>2, <1>4, <2>2 DEF SubmitOrder
<1>5. ASSUME NEW o \in Orders, CancelOrder(o) \/ AcceptOrder(o)
      PROVE  order' \in [Orders -> OrderRecords]
  <2>1. order[o] \in OrderRecords
    BY <1>2
  <2>2. \A s \in {"CANCELED", "ACCEPTED"} : [order[o] EXCEPT !.state = s] \in OrderRecords
    BY <2>1 DEF OrderRecords, States, Lifecycle!States
  <2> QED BY <1>2, <1>5, <2>2 DEF CancelOrder, AcceptOrder
<1>6. CASE ApplyTrade
  <2>1. PICK o \in active, n \in Nat \ {0} :
               order' \in {order, [order EXCEPT ![o] = WithFill(o, n)], [order EXCEPT ![o] = RefusedFill(o, n)]}
    BY <1>6, AppliedTrade
  <2>2. o \in Orders /\ n \in Nat
    BY <2>1 DEF TypeOK
  <2>3. order[o] \in OrderRecords /\ order[o].filled \in Nat
    BY <1>2, <2>2 DEF OrderRecords
  <2>4. WithFill(o, n) \in OrderRecords /\ RefusedFill(o, n) \in OrderRecords
    <3>1. StateAfter(o, n) \in States
      BY DEF StateAfter, States, Lifecycle!States
    <3>2. order[o].filled + n \in Nat
      BY <2>2, <2>3
    <3> QED BY <2>3, <3>1, <3>2 DEF OrderRecords, WithFill, RefusedFill
  <2> QED BY <1>2, <2>1, <2>2, <2>4
<1> QED BY <1>1, <1>2, <1>3, <1>4, <1>5, <1>6

(* Each step keeps what the exchange holds of its kind.                    *)
LEMMA ExchangeType ==
  ASSUME TypeOK, [Next]_vars
  PROVE  rest' \in [Markets -> Nat] /\ trades' \in Seq(UserTransactions)
<1>1. \/ rest' = rest /\ trades' = trades
      \/ trades' = trades /\ \E o \in Orders, n \in Quantities : SubmitOrder(o, n)
      \/ trades' = trades /\ \E o \in Orders : CancelOrder(o) \/ CancelAnswerLost(o)
      \/ \E o \in Markets : Execute(o)
  BY DEF Next, Start, Strategy, Dispatch, Monitor, GetBalance, RefreshOpenOrders, StartTradeMonitor, SubmitOrder,
         CancelOrder, CancelAnswerLost, AskToStop, HandlerRaises, BeginDispatch, EndRun, AcceptOrder, GetTrades,
         SkipTrade, ApplyTrade, DispatchEnds, HandlersReturn, Stop, Join, CheckStop, Poll, PollFails, Report, Markets,
         vars, main, thread, exchange, history
<1>2. rest \in [Markets -> Nat] /\ trades \in Seq(UserTransactions)
  BY DEF TypeOK
<1>3. ASSUME NEW o \in Orders, NEW n \in Quantities, SubmitOrder(o, n)
      PROVE  rest' \in [Markets -> Nat]
  <2>1. n \in Nat /\ o \in Markets /\ Unknown \in Markets /\ rest[o] \in Nat /\ rest[Unknown] \in Nat
    BY <1>2, LiveBrokerAssumption DEF Markets
  <2>2. \A x \in {o, Unknown} : [rest EXCEPT ![x] = @ + n] \in [Markets -> Nat]
    BY <1>2, <2>1
  <2> QED BY <1>2, <1>3, <2>2 DEF SubmitOrder, PlaceLimit
<1>4. ASSUME NEW o \in Orders, CancelOrder(o) \/ CancelAnswerLost(o)
      PROVE  rest' \in [Markets -> Nat]
  BY <1>2, <1>4 DEF CancelOrder, CancelAnswerLost
<1>5. ASSUME NEW o \in Markets, Execute(o)
      PROVE  rest' \in [Markets -> Nat] /\ trades' \in Seq(UserTransactions)
  <2>1. PICK n \in 1 .. rest[o] :
          rest' = [rest EXCEPT ![o] = @ - n] /\ trades' = Append(trades, [order |-> o, quantity |-> n])
    BY <1>5 DEF Execute
  <2>2. rest[o] \in Nat /\ n \in Nat \ {0} /\ rest[o] - n \in Nat
    BY <1>2, <2>1
  <2>3. [order |-> o, quantity |-> n] \in UserTransactions
    BY <2>2 DEF UserTransactions, Markets
  <2> QED BY <1>2, <2>1, <2>2, <2>3, AppendProperties
<1> QED BY <1>1, <1>2, <1>3, <1>4, <1>5

(* Each step keeps batches sequences of ids.                               *)
LEMMA QueueType ==
  ASSUME TypeOK, Control, Chain, [Next]_vars
  PROVE  batch' \in Seq(Nat) /\ found' \in Seq(Nat) /\ queue' \in Seq(Seq(Nat))
<1>1. batch \in Seq(Nat) /\ found \in Seq(Nat) /\ queue \in Seq(Seq(Nat)) /\ <<>> \in Seq(Nat)
  BY DEF TypeOK
<1>2. batch # <<>> => Tail(batch) \in Seq(Nat)
  BY <1>1, HeadTailProperties
<1>3. queue # <<>> => Head(queue) \in Seq(Nat) /\ Tail(queue) \in Seq(Seq(Nat))
  BY <1>1, HeadTailProperties
<1>4. Append(queue, found) \in Seq(Seq(Nat))
  BY <1>1, AppendProperties
<1>5. Poll /\ NewTrades # <<>> => NewTrades \in Seq(Nat)
  BY Found DEF Poll, Control
<1>6. \/ UNCHANGED <<batch, found, queue>>
      \/ UNCHANGED <<found, queue>> /\ batch # <<>> /\ batch' = Tail(batch)
      \/ UNCHANGED found /\ queue # <<>> /\ batch' = Head(queue) /\ queue' = Tail(queue)
      \/ UNCHANGED <<batch, queue>> /\ found' = NewTrades /\ Poll /\ NewTrades # <<>>
      \/ UNCHANGED batch /\ queue' = Append(queue, found) /\ found' = <<>>
  BY DEF Next, Start, Strategy, Dispatch, Monitor, GetBalance, RefreshOpenOrders, StartTradeMonitor, SubmitOrder,
         CancelOrder, CancelAnswerLost, AskToStop, HandlerRaises, BeginDispatch, EndRun, AcceptOrder, GetTrades,
         SkipTrade, ApplyTrade, DispatchEnds, HandlersReturn, Stop, Join, CheckStop, Poll, PollFails, Report, Execute,
         vars, main, thread, exchange, history
<1> HIDE DEF Poll
<1> QED BY <1>1, <1>2, <1>3, <1>4, <1>5, <1>6

(* Each step keeps counters and ids natural numbers.                       *)
LEMMA NumberType ==
  ASSUME TypeOK, Control, Chain, [Next]_vars
  PROVE  /\ balanceAt' \in Nat /\ lastTradeId' \in Nat /\ failures' \in Nat
         /\ processed' \in Nat /\ adoptedAt' \in Nat /\ startedAt' \in Nat
<1>1. /\ balanceAt \in Nat /\ lastTradeId \in Nat /\ failures \in Nat
      /\ processed \in Nat /\ adoptedAt \in Nat /\ startedAt \in Nat /\ Len(trades) \in Nat
      /\ failures + 1 \in Nat
  BY DEF TypeOK
<1>2. batch # <<>> => Head(batch) \in Nat
  BY HeadTailProperties DEF TypeOK
<1>3. Poll /\ NewTrades # <<>> => NewTrades[Len(NewTrades)] \in Nat
  BY <1>1, Found DEF Poll, Control
<1>4. /\ balanceAt' = balanceAt \/ balanceAt' = Len(trades)
      /\ failures' = failures \/ failures' = failures + 1
      /\ adoptedAt' = adoptedAt \/ adoptedAt' = Len(trades)
      /\ startedAt' = startedAt \/ startedAt' = Len(trades)
  BY DEF Next, Start, Strategy, Dispatch, Monitor, GetBalance, RefreshOpenOrders, StartTradeMonitor, SubmitOrder,
         CancelOrder, CancelAnswerLost, AskToStop, HandlerRaises, BeginDispatch, EndRun, AcceptOrder, GetTrades,
         SkipTrade, ApplyTrade, DispatchEnds, HandlersReturn, Stop, Join, CheckStop, Poll, PollFails, Report, Execute,
         RefreshAccountBalance, RefreshFails, CallFails, vars, main, thread, exchange, history
<1>5. /\ processed' \in {processed, Len(trades)} \/ (batch # <<>> /\ processed' = Head(batch))
      /\ \/ lastTradeId' \in {lastTradeId, Len(trades)}
         \/ Poll /\ NewTrades # <<>> /\ lastTradeId' = NewTrades[Len(NewTrades)]
  BY DEF Next, Start, Strategy, Dispatch, Monitor, GetBalance, RefreshOpenOrders, StartTradeMonitor, SubmitOrder,
         CancelOrder, CancelAnswerLost, AskToStop, HandlerRaises, BeginDispatch, EndRun, AcceptOrder, GetTrades,
         SkipTrade, ApplyTrade, DispatchEnds, HandlersReturn, Stop, Join, CheckStop, Poll, PollFails, Report, Execute,
         vars, main, thread, exchange, history
<1> QED BY <1>1, <1>2, <1>3, <1>4, <1>5

(* Each step keeps the threads at one of their places.                     *)
LEMMA PlaceType ==
  ASSUME TypeOK, [Next]_vars
  PROVE  /\ stage' \in Stages /\ monitor' \in MonitorStages
         /\ active' \subseteq Orders /\ todo' \subseteq Orders /\ orphaned' \subseteq Orders
         /\ stopped' \in BOOLEAN /\ asked' \in BOOLEAN /\ monitorStop' \in BOOLEAN /\ refused' \in BOOLEAN
<1>1. /\ stage' \in Stages /\ monitor' \in MonitorStages
  BY DEF Next, Start, Strategy, Dispatch, Monitor, GetBalance, RefreshOpenOrders, StartTradeMonitor, SubmitOrder,
         CancelOrder, CancelAnswerLost, AskToStop, HandlerRaises, BeginDispatch, EndRun, AcceptOrder, GetTrades,
         SkipTrade, ApplyTrade, DispatchEnds, HandlersReturn, Stop, Join, CheckStop, Poll, PollFails, Report, Execute,
         RefreshFails, vars, main, thread, exchange, history, TypeOK, Stages, MonitorStages
<1>2. active' \subseteq Orders /\ todo' \subseteq Orders /\ orphaned' \subseteq Orders
  <2>1. Adopted \subseteq Orders /\ active \subseteq Orders /\ todo \subseteq Orders /\ orphaned \subseteq Orders
    BY LiveBrokerAssumption DEF TypeOK
  <2> QED BY <2>1
     DEF Next, Start, Strategy, Dispatch, Monitor, GetBalance, RefreshOpenOrders, StartTradeMonitor, SubmitOrder,
         CancelOrder, CancelAnswerLost, AskToStop, HandlerRaises, BeginDispatch, EndRun, AcceptOrder, GetTrades,
         SkipTrade, ApplyTrade, DispatchEnds, HandlersReturn, Stop, Join, CheckStop, Poll, PollFails, Report, Execute,
         Unregister, vars, main, thread, exchange, history
<1>3. stopped' \in BOOLEAN /\ asked' \in BOOLEAN /\ monitorStop' \in BOOLEAN /\ refused' \in BOOLEAN
  <2>1. stopped \in BOOLEAN /\ asked \in BOOLEAN /\ monitorStop \in BOOLEAN /\ refused \in BOOLEAN
    BY DEF TypeOK
  <2>2. /\ stopped' \in {stopped, TRUE, FALSE} /\ asked' \in {asked, TRUE}
        /\ monitorStop' \in {monitorStop, TRUE} /\ refused' \in {refused, TRUE}
    BY DEF Next, Start, Strategy, Dispatch, Monitor, GetBalance, RefreshOpenOrders, StartTradeMonitor, SubmitOrder,
         CancelOrder, CancelAnswerLost, AskToStop, HandlerRaises, BeginDispatch, EndRun, AcceptOrder, GetTrades,
         SkipTrade, ApplyTrade, DispatchEnds, HandlersReturn, Stop, Join, CheckStop, Poll, PollFails, Report, Execute,
         RefreshAccountBalance, RefreshFails, vars, main, thread, exchange, history
  <2> QED BY <2>1, <2>2
<1> QED BY <1>1, <1>2, <1>3

(* Together: a step keeps every variable of its kind.                      *)
LEMMA TypeStep ==
  ASSUME TypeOK, Control, Chain, [Next]_vars
  PROVE  TypeOK'
BY OrderType, ExchangeType, QueueType, NumberType, PlaceType DEF TypeOK

(* A step moves the threads as Control says.                               *)
LEMMA ControlStep ==
  ASSUME TypeOK, Control, Chain, TypeOK', [Next]_vars
  PROVE  Control'
<1> USE DEF StartStages, FinalStages, BatchStages
<1>1. /\ monitor' = "new" => stage' \in StartStages \cup FinalStages
      /\ stage' \in StartStages => monitor' = "new"
      /\ monitor' = "new" => queue' = <<>> /\ batch' = <<>> /\ processed' = 0 /\ lastTradeId' = 0
      /\ monitor' # "report" => found' = <<>>
      /\ stage' \notin BatchStages => batch' = <<>>
  BY ZenonT(60) DEF Next, Start, Strategy, Dispatch, Monitor, GetBalance, RefreshOpenOrders, StartTradeMonitor, SubmitOrder,
         CancelOrder, CancelAnswerLost, AskToStop, HandlerRaises, BeginDispatch, EndRun, AcceptOrder, GetTrades,
         SkipTrade, ApplyTrade, DispatchEnds, HandlersReturn, Stop, Join, CheckStop, Poll, PollFails, Report, Execute,
         RefreshFails, HandlerStages, vars, main, thread, exchange, history, Control
<1>2. adoptedAt' <= Len(trades') /\ startedAt' <= Len(trades') /\ (stage' = "filled" => processed' <= balanceAt')
  <2>1. Len(trades) \in Nat /\ adoptedAt \in Nat /\ startedAt \in Nat /\ adoptedAt <= Len(trades) /\ startedAt <= Len(trades)
    BY DEF TypeOK, Control
  <2>2. trades' = trades \/ Len(trades') = Len(trades) + 1
    <3>1. trades' = trades \/ \E o \in Markets : Execute(o)
      BY DEF Next, Start, Strategy, Dispatch, Monitor, GetBalance, RefreshOpenOrders, StartTradeMonitor, SubmitOrder,
         CancelOrder, CancelAnswerLost, AskToStop, HandlerRaises, BeginDispatch, EndRun, AcceptOrder, GetTrades,
         SkipTrade, ApplyTrade, DispatchEnds, HandlersReturn, Stop, Join, CheckStop, Poll, PollFails, Report, Markets,
         vars, main, thread, exchange, history
    <3> QED BY <3>1, AppendedTrade
  <2>3. adoptedAt' \in {adoptedAt, Len(trades)} /\ startedAt' \in {startedAt, Len(trades)}
    BY DEF Next, Start, Strategy, Dispatch, Monitor, GetBalance, RefreshOpenOrders, StartTradeMonitor, SubmitOrder,
         CancelOrder, CancelAnswerLost, AskToStop, HandlerRaises, BeginDispatch, EndRun, AcceptOrder, GetTrades,
         SkipTrade, ApplyTrade, DispatchEnds, HandlersReturn, Stop, Join, CheckStop, Poll, PollFails, Report, Execute,
         vars, main, thread, exchange, history
  <2>4. ASSUME stage' = "filled" PROVE processed' <= balanceAt'
    <3>1. \/ stage = "filled" /\ processed' = processed /\ balanceAt' \in {balanceAt, Len(trades)}
          \/ batch # <<>> /\ processed' = Head(batch) /\ balanceAt' = Len(trades)
      BY <2>4 DEF Next, Start, Strategy, Dispatch, Monitor, GetBalance, RefreshOpenOrders, StartTradeMonitor, SubmitOrder,
         CancelOrder, CancelAnswerLost, AskToStop, HandlerRaises, BeginDispatch, EndRun, AcceptOrder, GetTrades,
         SkipTrade, ApplyTrade, DispatchEnds, HandlersReturn, Stop, Join, CheckStop, Poll, PollFails, Report, Execute,
         RefreshAccountBalance, RefreshFails, vars, main, thread, exchange, history
    <3>2. batch # <<>> => Head(batch) <= Len(trades)
      <4>1. batch # <<>> => Head(batch) \in DOMAIN trades
        BY BatchHead
      <4>2. DOMAIN trades = 1 .. Len(trades)
        BY DEF TypeOK
      <4> QED BY <2>1, <4>1, <4>2
    <3>3. stage = "filled" => processed <= balanceAt /\ processed <= Len(trades)
      <4>1. ASSUME stage = "filled" PROVE processed <= Len(trades)
        <5>1. PICK cut \in [0 .. Len(queue) -> Nat] : Chained(cut)
          BY <4>1 DEF Control, Chain
        <5>2. PICK a, b \in Nat : processed <= a /\ a <= b /\ b <= lastTradeId /\ lastTradeId <= Len(trades)
          BY <5>1, Cuts
        <5>3. processed \in Nat /\ lastTradeId \in Nat
          BY DEF TypeOK
        <5> QED BY <2>1, <5>2, <5>3
      <4> QED BY <4>1 DEF Control
    <3> QED BY <3>1, <3>2, <3>3
  <2> QED BY <2>1, <2>2, <2>3, <2>4
<1> QED BY <1>1, <1>2 DEF Control

-----------------------------------------------------------------------------
(* Steps that change what is known of orders *)

(* The others only move the threads.                                       *)
Quiet ==
  /\ UNCHANGED <<order, active, orphaned, rest, trades, processed, adoptedAt, startedAt>>
  /\ stage' \in Running => stage \in Running
  /\ stage' \in {"balance", "orders"} => stage \in {"balance", "orders"}
  /\ stage' = "monitor" => stage = "monitor"
  /\ monitor' = "new" <=> monitor = "new"

(* Every step is a quiet one or one of these.                              *)
LEMMA Steps ==
  ASSUME TypeOK, [Next]_vars
  PROVE  \/ Quiet \/ RefreshOpenOrders \/ StartTradeMonitor
         \/ \E o \in Orders, n \in Quantities : SubmitOrder(o, n)
         \/ \E o \in Orders : CancelOrder(o) \/ CancelAnswerLost(o) \/ AcceptOrder(o)
         \/ SkipTrade \/ ApplyTrade
         \/ \E o \in Markets : Execute(o)
BY DEF Next, Start, Strategy, Dispatch, Monitor, GetBalance, AskToStop, HandlerRaises, BeginDispatch, EndRun, GetTrades,
       DispatchEnds, HandlersReturn, Stop, Join, CheckStop, Poll, PollFails, Report, RefreshFails, HandlerStages,
       Quiet, Running, Stages, TypeOK, Markets, vars, main, thread, exchange, history

(* No step makes what is known of orders from their states wrong.          *)
LEMMA OrdersOKStep ==
  ASSUME TypeOK, TypeOK', Control, OrdersOK, Chain, [Next]_vars
  PROVE  OrdersOK'
<1> USE DEF Own
<1>1. /\ Adopted \subseteq Orders /\ Unknown \notin Orders /\ active \subseteq Orders
      /\ order \in [Orders -> OrderRecords] /\ rest \in [Markets -> Nat]
      /\ \A o \in Orders : o \in Markets
  BY LiveBrokerAssumption DEF TypeOK, Markets
<1>2. CASE Quiet
  BY <1>2 DEF Quiet, OrdersOK, StartStages
<1>3. CASE RefreshOpenOrders
  BY <1>1, <1>3 DEF RefreshOpenOrders, RefreshFails, OrdersOK, Adopt, StartStages, exchange
<1>4. CASE StartTradeMonitor
  BY <1>4 DEF StartTradeMonitor, RefreshFails, OrdersOK, StartStages, exchange
<1>5. ASSUME NEW o \in Orders, NEW n \in Quantities, SubmitOrder(o, n)
      PROVE  OrdersOK'
  <2>1. stage \in HandlerStages /\ stage' = stage /\ o \in Own /\ UNCHANGED <<trades, orphaned>>
    BY <1>1, <1>5, LiveBrokerAssumption DEF SubmitOrder, history
  <2>2. CASE rest' = PlaceLimit(o, n) /\ active' = active \cup {o}
             /\ order' = [order EXCEPT ![o].state = "SUBMITTED", ![o].quantity = n]
    <3>1. order'[o].state = "SUBMITTED" /\ \A p \in Orders \ {o} : order'[p] = order[p] /\ rest'[p] = rest[p]
      BY <1>1, <2>2 DEF PlaceLimit, OrderRecords
    <3> QED BY <1>1, <2>1, <2>2, <3>1 DEF OrdersOK, StartStages, HandlerStages
  <2>3. CASE rest' \in {rest, PlaceLimit(Unknown, n)} /\ UNCHANGED <<order, active>>
    <3>1. \A p \in Orders : rest'[p] = rest[p]
      BY <1>1, <2>3 DEF PlaceLimit, Markets
    <3> QED BY <1>1, <2>1, <2>3, <3>1 DEF OrdersOK, StartStages, HandlerStages
  <2> QED BY <1>5, <2>2, <2>3 DEF SubmitOrder
<1>6. ASSUME NEW o \in Orders, CancelOrder(o)
      PROVE  OrdersOK'
  <2>1. /\ order' = [order EXCEPT ![o].state = "CANCELED"] /\ active' = active \ {o}
        /\ rest' = [rest EXCEPT ![o] = 0] /\ o \in active
        /\ UNCHANGED <<stage, trades, orphaned>>
    BY <1>6 DEF CancelOrder, Unregister, history
  <2>2. order'[o].state = "CANCELED" /\ \A p \in Orders \ {o} : order'[p] = order[p] /\ rest'[p] = rest[p]
    BY <1>1, <2>1 DEF OrderRecords
  <2> QED BY <1>1, <2>1, <2>2 DEF OrdersOK
<1>7. ASSUME NEW o \in Orders, CancelAnswerLost(o)
      PROVE  OrdersOK'
  <2>1. /\ UNCHANGED <<order, active, stage, trades>> /\ orphaned' = orphaned \cup {o}
        /\ o \in active /\ order[o].state # "INITIAL"
        /\ \A p \in Orders \ {o} : rest'[p] = rest[p]
    BY <1>1, <1>7 DEF CancelAnswerLost, main, OrdersOK
  <2> QED BY <1>1, <2>1 DEF OrdersOK
<1>8. ASSUME NEW o \in Orders, AcceptOrder(o)
      PROVE  OrdersOK'
  <2>1. CASE IsSubmitted(o)
    <3>1. /\ order' = [order EXCEPT ![o].state = "ACCEPTED"]
          /\ stage' = "accepted" /\ UNCHANGED <<active, rest, trades, orphaned>>
      BY <1>8, <2>1 DEF AcceptOrder, exchange, history
    <3>2. order'[o].state = "ACCEPTED" /\ \A p \in Orders \ {o} : order'[p] = order[p]
      BY <1>1, <3>1 DEF OrderRecords
    <3> QED BY <1>1, <3>1, <3>2 DEF OrdersOK, StartStages
  <2>2. CASE ~IsSubmitted(o)
    BY <1>8, <2>2 DEF AcceptOrder, OrdersOK, exchange, history
  <2> QED BY <2>1, <2>2
<1>9. CASE SkipTrade
  BY <1>9 DEF SkipTrade, OrdersOK, exchange
<1>10. CASE ApplyTrade
  <2>1. PICK o \in active, n \in Nat \ {0} :
          \/ /\ CanFill(o) /\ stage' = "filled"
             /\ order' = [order EXCEPT ![o] = WithFill(o, n)]
             /\ active' = IF n = Remaining(o) THEN active \ {o} ELSE active
          \/ /\ stage' = "stop" /\ active' = active
             /\ order' = [order EXCEPT ![o] = RefusedFill(o, n)]
          \/ stage' = "stop" /\ UNCHANGED <<order, active>>
    BY <1>10, AppliedTrade
  <2>2. UNCHANGED <<rest, trades, orphaned>>
    BY <1>10 DEF ApplyTrade, exchange
  <2>3. \A p \in Orders \ {o} : order'[p] = order[p]
    BY <1>1, <2>1
  <2>4. /\ order'[o].state # "INITIAL"
        /\ o \in active' => order'[o].state \in {"SUBMITTED", "ACCEPTED", "PARTIALLY_FILLED"}
    <3>1. order[o].state \in {"SUBMITTED", "ACCEPTED", "PARTIALLY_FILLED"} /\ o \in Orders /\ order[o] \in OrderRecords
      BY <1>1 DEF OrdersOK
    <3>2. CASE order' = [order EXCEPT ![o] = WithFill(o, n)] /\ active' = IF n = Remaining(o) THEN active \ {o} ELSE active
      BY <1>1, <3>1, <3>2 DEF WithFill, StateAfter, OrderRecords
    <3>3. CASE order' = [order EXCEPT ![o] = RefusedFill(o, n)]
      BY <1>1, <3>1, <3>3 DEF RefusedFill, OrderRecords
    <3> QED BY <2>1, <3>1, <3>2, <3>3
  <2> QED BY <1>1, <2>1, <2>2, <2>3, <2>4 DEF OrdersOK, StartStages
<1>11. ASSUME NEW o \in Markets, Execute(o)
       PROVE  OrdersOK'
  <2>1. PICK n \in 1 .. rest[o] :
           /\ rest' = [rest EXCEPT ![o] = @ - n] /\ n \in Nat /\ rest[o] \in Nat
           /\ \A id \in DOMAIN trades : trades'[id] = trades[id]
           /\ trades'[Len(trades) + 1] = [order |-> o, quantity |-> n]
           /\ DOMAIN trades = 1 .. Len(trades) /\ DOMAIN trades' = 1 .. Len(trades) + 1
    BY <1>11, AppendedTrade
  <2>2. UNCHANGED <<order, active, orphaned, stage>>
    BY <1>11 DEF Execute, main, history
  <2>3. rest[o] > 0 /\ \A p \in Orders \ {o} : rest'[p] = rest[p]
    BY <1>1, <2>1
  <2>4. Len(trades) \in Nat
    BY DEF TypeOK
  <2>5. \A id \in DOMAIN trades' : id \in DOMAIN trades \/ trades'[id].order = o
    BY <2>1, <2>4
  <2>6. ASSUME NEW p \in Own, order[p].state = "INITIAL"
        PROVE  /\ p \notin active /\ p \notin orphaned /\ order[p] = NewOrder
               /\ rest'[p] = 0 /\ \A id \in DOMAIN trades' : trades'[id].order # p
    <3>1. /\ p \notin active /\ p \notin orphaned /\ order[p] = NewOrder
          /\ rest[p] = 0 /\ \A id \in DOMAIN trades : trades[id].order # p
      BY <2>6 DEF OrdersOK
    <3>2. p # o
      BY <2>3, <3>1
    <3> QED BY <2>1, <2>3, <2>5, <3>1, <3>2
  <2> QED BY <2>2, <2>6 DEF OrdersOK
<1> QED BY <1>2, <1>3, <1>4, <1>5, <1>6, <1>7, <1>8, <1>9, <1>10, <1>11, Steps

-----------------------------------------------------------------------------
(* Sums over stretches of trades *)

(* What the trades of a stretch executed of an order: the first trade of   *)
(* it can be split off, and nothing was executed of an order they do not   *)
(* name.                                                                   *)
LEMMA Stretch ==
  ASSUME TypeOK, NEW o, NEW a \in Nat, NEW b \in Nat, b <= Len(trades)
  PROVE  /\ ExecutedIn(o, a + 1, b) \in Nat
         /\ a >= b => ExecutedIn(o, a + 1, b) = 0
         /\ a < b => ExecutedIn(o, a + 1, b) = Executed(o)[a + 1] + ExecutedIn(o, a + 2, b)
         /\ (\A id \in DOMAIN trades : trades[id].order # o) => ExecutedIn(o, a + 1, b) = 0
<1>1. IsFiniteSet(a + 1 .. b)
  <2>1. \A x, y \in Int : IsFiniteSet(x .. y)
    BY FS_Interval
  <2> QED BY <2>1
<1>2. a + 1 .. b \subseteq DOMAIN trades /\ DOMAIN trades = 1 .. Len(trades)
  BY DEF TypeOK
<1>3. \A id \in DOMAIN trades : trades[id].quantity \in Nat
  <2>1. \A id \in DOMAIN trades : trades[id] \in UserTransactions
    BY DEF TypeOK
  <2> QED BY <2>1 DEF UserTransactions
<1>4. \A id \in a + 1 .. b : Executed(o)[id] = IF trades[id].order = o THEN trades[id].quantity ELSE 0
  BY <1>2 DEF Executed
<1>5. \A id \in a + 1 .. b : Executed(o)[id] \in Nat
  BY <1>2, <1>3, <1>4
<1>6. ExecutedIn(o, a + 1, b) \in Nat
  BY <1>1, <1>5, SumNat DEF ExecutedIn
<1>7. ASSUME a >= b PROVE ExecutedIn(o, a + 1, b) = 0
  <2>1. a + 1 .. b = {}
    BY <1>7
  <2> QED BY <2>1, SumEmpty DEF ExecutedIn
<1>8. ASSUME a < b PROVE ExecutedIn(o, a + 1, b) = Executed(o)[a + 1] + ExecutedIn(o, a + 2, b)
  <2>1. a + 1 \in a + 1 .. b /\ (a + 1 .. b) \ {a + 1} = a + 2 .. b
    BY <1>8
  <2>2. \A id \in a + 1 .. b : Executed(o)[id] \in Int
    BY <1>5
  <2> QED BY <1>1, <2>1, <2>2, SumRemove DEF ExecutedIn
<1>9. ASSUME \A id \in DOMAIN trades : trades[id].order # o PROVE ExecutedIn(o, a + 1, b) = 0
  <2>1. \A id \in a + 1 .. b : Executed(o)[id] = 0
    BY <1>2, <1>4, <1>9
  <2> QED BY <1>1, <2>1, SumZero DEF ExecutedIn
<1> QED BY <1>6, <1>7, <1>8, <1>9

(* An execution is owed to its order, and to no other.                     *)
LEMMA StretchGrows ==
  ASSUME TypeOK, TypeOK', NEW x \in Markets, Execute(x), NEW o
  PROVE  \E n \in 1 .. rest[x] :
           /\ rest' = [rest EXCEPT ![x] = @ - n] /\ n \in Nat
           /\ \A a, b \in Nat : b <= Len(trades) => ExecutedIn(o, a + 1, b)' = ExecutedIn(o, a + 1, b)
           /\ \A a \in Nat : a <= Len(trades) =>
                ExecutedIn(o, a + 1, Len(trades))' = ExecutedIn(o, a + 1, Len(trades)) + IF o = x THEN n ELSE 0
<1>1. PICK n \in 1 .. rest[x] :
           /\ rest' = [rest EXCEPT ![x] = @ - n] /\ n \in Nat /\ rest[x] \in Nat
           /\ Len(trades') = Len(trades) + 1 /\ Len(trades) \in Nat
           /\ \A id \in DOMAIN trades : trades'[id] = trades[id]
           /\ trades'[Len(trades) + 1] = [order |-> x, quantity |-> n]
           /\ DOMAIN trades = 1 .. Len(trades) /\ DOMAIN trades' = 1 .. Len(trades) + 1
  BY AppendedTrade
<1>2. PICK m \in Nat : m = Len(trades)
  BY <1>1
<1>3. \A a, b \in Int : IsFiniteSet(a .. b)
  BY FS_Interval
<1>4. /\ \A id \in 1 .. m : Executed(o)'[id] = Executed(o)[id] /\ Executed(o)[id] \in Int
      /\ Executed(o)'[m + 1] = IF o = x THEN n ELSE 0
  <2>1. \A id \in 1 .. m : trades[id].quantity \in Int
    <3>1. \A id \in 1 .. m : trades[id] \in UserTransactions
      BY <1>1, <1>2 DEF TypeOK
    <3> QED BY <3>1 DEF UserTransactions
  <2>2. /\ Executed(o)' = [id \in 1 .. m + 1 |-> IF trades'[id].order = o THEN trades'[id].quantity ELSE 0]
        /\ Executed(o) = [id \in 1 .. m |-> IF trades[id].order = o THEN trades[id].quantity ELSE 0]
    BY <1>1, <1>2 DEF Executed
  <2>3. m + 1 \in 1 .. m + 1 /\ \A id \in 1 .. m : id \in 1 .. m + 1 /\ trades'[id] = trades[id]
    BY <1>1, <1>2
  <2> QED BY <1>1, <1>2, <2>1, <2>2, <2>3
<1>5. ASSUME NEW a \in Nat, NEW b \in Nat, b <= m
      PROVE  SumFunctionOnSet(Executed(o)', a + 1 .. b) = SumFunctionOnSet(Executed(o), a + 1 .. b)
  <2>1. IsFiniteSet(a + 1 .. b) /\ \A id \in a + 1 .. b : Executed(o)'[id] = Executed(o)[id]
    BY <1>3, <1>4, <1>5
  <2> QED BY <2>1, SumEqual
<1>6. ASSUME NEW a \in Nat, a <= m
      PROVE  SumFunctionOnSet(Executed(o)', a + 1 .. m + 1)
               = SumFunctionOnSet(Executed(o), a + 1 .. m) + IF o = x THEN n ELSE 0
  <2>1. /\ IsFiniteSet(a + 1 .. m) /\ (a + 1 .. m) \cup {m + 1} = a + 1 .. m + 1 /\ m + 1 \notin a + 1 .. m
        /\ \A id \in (a + 1 .. m) \cup {m + 1} : Executed(o)'[id] \in Int
    BY <1>1, <1>3, <1>4, <1>6
  <2>2. SumFunctionOnSet(Executed(o)', a + 1 .. m + 1)
          = SumFunctionOnSet(Executed(o)', a + 1 .. m) + Executed(o)'[m + 1]
    <3>1. PICK f, S, k : f = Executed(o)' /\ S = a + 1 .. m /\ k = m + 1
      OBVIOUS
    <3>2. IsFiniteSet(S) /\ k \notin S /\ \A id \in S \cup {k} : f[id] \in Int
      BY <2>1, <3>1
    <3>3. SumFunctionOnSet(f, S \cup {k}) = SumFunctionOnSet(f, S) + f[k]
      BY <3>2, SumAdd
    <3>4. S \cup {k} = a + 1 .. m + 1
      BY <2>1, <3>1
    <3> HIDE <2>1
    <3> QED BY <3>1, <3>3, <3>4, Zenon
  <2> QED BY <1>4, <1>5, <1>6, <2>2
<1>7. Len(trades') = m + 1
  BY <1>1, <1>2
<1> QED BY <1>1, <1>2, <1>5, <1>6, <1>7 DEF ExecutedIn

-----------------------------------------------------------------------------
(* What remains of an order *)

(* What was executed of an adopted order before its trades were looked for. *)
Missed(o) == IF o \in Adopted THEN ExecutedIn(o, adoptedAt + 1, startedAt) ELSE 0

(* The three parts of what is owed, all natural numbers.                   *)
LEMMA OwedIs ==
  ASSUME TypeOK, Control, NEW o \in Orders
  PROVE  /\ Owed(o) = rest[o] + ExecutedIn(o, processed + 1, Len(trades)) + Missed(o)
         /\ rest[o] \in Nat /\ ExecutedIn(o, processed + 1, Len(trades)) \in Nat /\ Missed(o) \in Nat
<1>1. /\ processed \in Nat /\ adoptedAt \in Nat /\ startedAt \in Nat /\ Len(trades) \in Nat
      /\ startedAt <= Len(trades) /\ Len(trades) <= Len(trades) /\ rest[o] \in Nat
  BY DEF TypeOK, Control, Markets
<1>2. ExecutedIn(o, processed + 1, Len(trades)) \in Nat /\ ExecutedIn(o, adoptedAt + 1, startedAt) \in Nat
  BY <1>1, Stretch, Zenon
<1> QED BY <1>1, <1>2 DEF Owed, Missed

(* Nothing is owed to an order that is unknown to the exchange.            *)
LEMMA NothingOwed ==
  ASSUME TypeOK, Control, OrdersOK, NEW o \in Own, order[o].state = "INITIAL"
  PROVE  Owed(o) = 0 /\ Remaining(o) = 0
<1>1. rest[o] = 0 /\ o \notin Adopted /\ o \in Orders /\ order[o] = NewOrder
      /\ \A id \in DOMAIN trades : trades[id].order # o
  BY DEF OrdersOK, Own
<1>2. processed \in Nat /\ Len(trades) \in Nat /\ Len(trades) <= Len(trades)
  BY DEF TypeOK
<1>3. ExecutedIn(o, processed + 1, Len(trades)) = 0
  BY <1>1, <1>2, Stretch, Zenon
<1> QED BY <1>1, <1>3 DEF Owed, Remaining, NewOrder

(* What is owed changes only with the exchange and with the trades taken   *)
(* up.                                                                     *)
LEMMA OwedStays ==
  ASSUME NEW o \in Orders, UNCHANGED <<trades, processed, adoptedAt, startedAt>>
  PROVE  /\ ExecutedIn(o, processed + 1, Len(trades))' = ExecutedIn(o, processed + 1, Len(trades))
         /\ ExecutedIn(o, adoptedAt + 1, Len(trades))' = ExecutedIn(o, adoptedAt + 1, Len(trades))
         /\ Missed(o)' = Missed(o)
         /\ rest'[o] = rest[o] => Owed(o)' = Owed(o)
BY DEF ExecutedIn, Executed, Missed, Owed

(* A trade that is taken up is no longer owed.                             *)
LEMMA TakenUp ==
  ASSUME TypeOK, TypeOK', Control, NEW o \in Orders, processed' = processed + 1, processed + 1 \in DOMAIN trades,
         UNCHANGED <<rest, trades, adoptedAt, startedAt>>
  PROVE  Owed(o)' = Owed(o) - IF trades[processed + 1].order = o THEN trades[processed + 1].quantity ELSE 0
<1>1. /\ processed \in Nat /\ Len(trades) \in Nat /\ processed < Len(trades) /\ Len(trades) <= Len(trades)
      /\ (processed + 1) + 1 = processed + 2 /\ processed + 1 \in Nat
  BY DEF TypeOK
<1>2. /\ ExecutedIn(o, processed + 1, Len(trades)) = Executed(o)[processed + 1] + ExecutedIn(o, processed + 2, Len(trades))
      /\ ExecutedIn(o, (processed + 1) + 1, Len(trades)) \in Nat
  BY <1>1, Stretch, Zenon
<1>3. Executed(o)[processed + 1] = IF trades[processed + 1].order = o THEN trades[processed + 1].quantity ELSE 0
  BY DEF Executed
<1>4. Executed(o)[processed + 1] \in Nat
  <2>1. trades[processed + 1] \in UserTransactions
    BY DEF TypeOK
  <2> QED BY <1>3, <2>1 DEF UserTransactions
<1>5. /\ ExecutedIn(o, processed + 1, Len(trades))' = ExecutedIn(o, processed + 2, Len(trades))
      /\ Missed(o)' = Missed(o) /\ rest'[o] = rest[o]
  BY <1>1 DEF ExecutedIn, Executed, Missed
<1>6. Owed(o)' = rest'[o] + ExecutedIn(o, processed + 1, Len(trades))' + Missed(o)'
  BY DEF Owed, Missed
<1>7. /\ Owed(o) = rest[o] + ExecutedIn(o, processed + 1, Len(trades)) + Missed(o)
      /\ rest[o] \in Nat /\ Missed(o) \in Nat
  BY OwedIs
<1>8. ExecutedIn(o, processed + 2, Len(trades)) \in Nat
  BY <1>1, <1>2
<1> QED BY <1>2, <1>3, <1>4, <1>5, <1>6, <1>7, <1>8

(* What remains of an order depends on its quantities only.                *)
LEMMA RemainingStays ==
  ASSUME NEW o \in Orders, order'[o].quantity = order[o].quantity, order'[o].filled = order[o].filled
  PROVE  Remaining(o)' = Remaining(o)
BY DEF Remaining

(* The two parts of Accounted, for one order.                              *)
Adopting(o) == Remaining(o) = rest[o] + ExecutedIn(o, adoptedAt + 1, Len(trades))
Settled(o)  == /\ Owed(o) <= Remaining(o)
               /\ stage \in Running /\ o \notin orphaned => Remaining(o) = Owed(o)

(* No step loses or repeats a part of what is owed to an order.            *)
LEMMA AccountedStep ==
  ASSUME TypeOK, TypeOK', Control, Control', OrdersOK, Chain, Accounted, [Next]_vars
  PROVE  Accounted'
<1> SUFFICES /\ stage' = "monitor" => \A o \in active' : Adopting(o)'
             /\ monitor' # "new" => \A o \in active' : Settled(o)'
  BY DEF Accounted, Adopting, Settled
<1>0. /\ stage = "monitor" => \A o \in active : Adopting(o)
      /\ monitor # "new" => \A o \in active : Settled(o)
  BY DEF Accounted, Adopting, Settled
<1>1. /\ Adopted \subseteq Orders /\ Unknown \notin Orders /\ active \subseteq Orders /\ active' \subseteq Orders
      /\ order \in [Orders -> OrderRecords] /\ rest \in [Markets -> Nat]
      /\ \A o \in Orders : o \in Markets
  BY LiveBrokerAssumption DEF TypeOK, Markets
<1>2. \A o \in Orders : /\ Owed(o) \in Int /\ Remaining(o) \in Int
                        /\ order[o].quantity \in Nat /\ order[o].filled \in Nat
  <2>1. ASSUME NEW o \in Orders PROVE Owed(o) \in Int
    BY OwedIs
  <2> QED BY <1>1, <2>1 DEF Remaining, OrderRecords
<1>3. \A a, b, c, d \in Nat : a <= b => a <= b
  OBVIOUS
<1>4. CASE Quiet
  <2>1. \A o \in active : /\ Remaining(o)' = Remaining(o) /\ Owed(o)' = Owed(o)
                          /\ ExecutedIn(o, adoptedAt + 1, Len(trades))' = ExecutedIn(o, adoptedAt + 1, Len(trades))
    BY <1>1, <1>4, OwedStays, RemainingStays DEF Quiet
  <2>2. /\ active' = active /\ orphaned' = orphaned /\ rest' = rest
        /\ (stage' \in Running => stage \in Running) /\ (stage' = "monitor" => stage = "monitor")
        /\ (monitor' = "new" <=> monitor = "new")
    BY <1>4 DEF Quiet
  <2> QED BY <1>0, <2>1, <2>2 DEF Adopting, Settled
<1>5. CASE RefreshOpenOrders
  <2>1. monitor' = "new" /\ stage = "orders" /\ active = {} /\ UNCHANGED <<rest, trades>>
    BY <1>5 DEF RefreshOpenOrders, Control, OrdersOK, StartStages, thread, exchange
  <2>2. ASSUME stage' = "monitor", NEW o \in active' PROVE Adopting(o)'
    <3>1. o \in Orders /\ order'[o] = Adopt(o) /\ adoptedAt' = Len(trades)
      BY <1>1, <1>5, <2>1, <2>2 DEF RefreshOpenOrders, RefreshFails
    <3>2. ExecutedIn(o, Len(trades) + 1, Len(trades)) = 0
      <4>1. Len(trades) \in Nat /\ Len(trades) <= Len(trades) /\ Len(trades) >= Len(trades)
        BY DEF TypeOK
      <4> QED BY <4>1, Stretch, Zenon
    <3>3. ExecutedIn(o, adoptedAt + 1, Len(trades))' = ExecutedIn(o, Len(trades) + 1, Len(trades))
      BY <2>1, <3>1 DEF ExecutedIn, Executed
    <3>4. Remaining(o)' = rest[o]
      BY <1>1, <3>1 DEF Remaining, Adopt
    <3> QED BY <1>1, <2>1, <3>1, <3>2, <3>3, <3>4 DEF Adopting
  <2> QED BY <2>1, <2>2
<1>6. CASE StartTradeMonitor
  <2>1. CASE monitor' = "new"
    BY <1>6, <2>1 DEF StartTradeMonitor, RefreshFails
  <2>2. CASE monitor' # "new"
    <3>1. /\ stage = "monitor" /\ stage' = "events" /\ processed' = Len(trades) /\ startedAt' = Len(trades)
          /\ UNCHANGED <<order, active, rest, trades, adoptedAt>>
      BY <1>6, <2>2 DEF StartTradeMonitor, RefreshFails, Control, StartStages, exchange
    <3>2. ASSUME NEW o \in active PROVE Settled(o)'
      <4>1. o \in Adopted /\ o \in Orders /\ Adopting(o)
        BY <1>0, <1>1, <3>1 DEF OrdersOK, StartStages
      <4>2. /\ ExecutedIn(o, Len(trades) + 1, Len(trades)) = 0
            /\ ExecutedIn(o, adoptedAt + 1, Len(trades)) \in Nat /\ rest[o] \in Nat
        <5>1. Len(trades) \in Nat /\ adoptedAt \in Nat /\ Len(trades) <= Len(trades) /\ Len(trades) >= Len(trades)
          BY DEF TypeOK
        <5>2. ExecutedIn(o, Len(trades) + 1, Len(trades)) = 0 /\ ExecutedIn(o, adoptedAt + 1, Len(trades)) \in Nat
          BY <5>1, Stretch, Zenon
        <5> QED BY <1>1, <4>1, <5>2
      <4>3. /\ ExecutedIn(o, processed + 1, Len(trades))' = ExecutedIn(o, Len(trades) + 1, Len(trades))
            /\ Missed(o)' = ExecutedIn(o, adoptedAt + 1, Len(trades))
            /\ Owed(o)' = rest'[o] + ExecutedIn(o, processed + 1, Len(trades))' + Missed(o)'
        BY <3>1, <4>1 DEF ExecutedIn, Executed, Missed, Owed
      <4>4. Remaining(o)' = Remaining(o)
        BY <3>1, <4>1, RemainingStays
      <4>5. Owed(o)' = Remaining(o)' /\ Owed(o)' \in Int
        BY <3>1, <4>1, <4>2, <4>3, <4>4 DEF Adopting
      <4> QED BY <4>5 DEF Settled
    <3> QED BY <3>1, <3>2
  <2> QED BY <2>1, <2>2
<1>7. ASSUME NEW o \in Orders, NEW n \in Quantities, SubmitOrder(o, n)
      PROVE  monitor' # "new" /\ stage' # "monitor" /\ \A p \in active' : Settled(p)'
  <2>1. /\ stage \in HandlerStages /\ stage' = stage /\ o \in Own /\ order[o].state = "INITIAL" /\ n \in Nat
        /\ UNCHANGED <<trades, orphaned, processed, adoptedAt, startedAt, monitor>>
    BY <1>1, <1>7, LiveBrokerAssumption DEF SubmitOrder, Own, thread, history
  <2>2. monitor # "new" /\ stage' # "monitor"
    BY <2>1 DEF Control, HandlerStages, StartStages, FinalStages
  <2>3. ASSUME NEW p \in active \ {o} PROVE Settled(p)'
    <3>1. order'[p] = order[p] /\ rest'[p] = rest[p] /\ p \in Orders
      BY <1>1, <1>7, <2>3 DEF SubmitOrder, PlaceLimit
    <3>2. Remaining(p)' = Remaining(p) /\ Owed(p)' = Owed(p)
      BY <2>1, <3>1, OwedStays, RemainingStays
    <3> QED BY <1>0, <2>1, <2>2, <2>3, <3>2 DEF Settled
  <2>4. ASSUME o \in active' PROVE Settled(o)'
    <3>1. o \notin active /\ Owed(o) = 0 /\ Remaining(o) = 0 /\ o \notin Adopted /\ o \in Orders
          /\ order[o] = NewOrder /\ rest[o] = 0
      BY <2>1, NothingOwed DEF OrdersOK, Own
    <3>2. rest' = PlaceLimit(o, n) /\ order' = [order EXCEPT ![o].state = "SUBMITTED", ![o].quantity = n]
      BY <1>7, <2>4, <3>1 DEF SubmitOrder
    <3>3. rest'[o] = n /\ order'[o].quantity = n /\ order'[o].filled = 0
      BY <1>1, <2>1, <3>1, <3>2 DEF PlaceLimit, NewOrder, OrderRecords
    <3>4. /\ ExecutedIn(o, processed + 1, Len(trades))' = ExecutedIn(o, processed + 1, Len(trades))
          /\ Missed(o)' = Missed(o)
      BY <2>1, <3>1, OwedStays
    <3>5. Owed(o)' = rest'[o] + ExecutedIn(o, processed + 1, Len(trades))' + Missed(o)'
      BY DEF Owed, Missed
    <3>6. Owed(o) = rest[o] + ExecutedIn(o, processed + 1, Len(trades)) + Missed(o)
          /\ ExecutedIn(o, processed + 1, Len(trades)) \in Nat /\ Missed(o) \in Nat
      BY <3>1, OwedIs
    <3>7. ExecutedIn(o, processed + 1, Len(trades)) = 0 /\ Missed(o) = 0
      BY <3>1, <3>6
    <3>8. Owed(o)' = n
      BY <2>1, <3>3, <3>4, <3>5, <3>7
    <3>9. Remaining(o)' = n
      BY <2>1, <3>3 DEF Remaining
    <3> QED BY <2>1, <3>8, <3>9 DEF Settled
  <2>5. active' \subseteq active \cup {o}
    BY <1>7 DEF SubmitOrder
  <2> QED BY <2>1, <2>2, <2>3, <2>4, <2>5
<1>8. ASSUME NEW o \in Orders, CancelOrder(o)
      PROVE  monitor' # "new" /\ stage' # "monitor" /\ \A p \in active' : Settled(p)'
  <2>1. /\ order' = [order EXCEPT ![o].state = "CANCELED"] /\ active' = active \ {o}
        /\ rest' = [rest EXCEPT ![o] = 0] /\ stage \in HandlerStages
        /\ UNCHANGED <<stage, trades, orphaned, processed, adoptedAt, startedAt, monitor>>
    BY <1>8 DEF CancelOrder, Unregister, history, thread
  <2>2. monitor # "new" /\ stage' # "monitor"
    BY <2>1 DEF Control, HandlerStages, StartStages, FinalStages
  <2>3. ASSUME NEW p \in active \ {o} PROVE Settled(p)'
    <3>1. order'[p] = order[p] /\ rest'[p] = rest[p] /\ p \in Orders
      BY <1>1, <2>1, <2>3
    <3>2. Remaining(p)' = Remaining(p) /\ Owed(p)' = Owed(p)
      BY <2>1, <3>1, OwedStays, RemainingStays
    <3> QED BY <1>0, <2>1, <2>2, <2>3, <3>2 DEF Settled
  <2> QED BY <2>1, <2>2, <2>3
<1>9. ASSUME NEW o \in Orders, CancelAnswerLost(o)
      PROVE  monitor' # "new" /\ stage' # "monitor" /\ \A p \in active' : Settled(p)'
  <2>1. /\ UNCHANGED <<order, active, stage, trades, processed, adoptedAt, startedAt, monitor>>
        /\ orphaned' = orphaned \cup {o} /\ stage \in HandlerStages /\ rest' = [rest EXCEPT ![o] = 0]
    BY <1>9 DEF CancelAnswerLost, main, thread
  <2>2. monitor # "new" /\ stage' # "monitor"
    BY <2>1 DEF Control, HandlerStages, StartStages, FinalStages
  <2>3. ASSUME NEW p \in active PROVE Settled(p)'
    <3>1. p \in Orders /\ Remaining(p)' = Remaining(p) /\ Settled(p)
      BY <1>0, <1>1, <2>1, <2>2, RemainingStays
    <3>2. CASE p # o
      <4>1. Owed(p)' = Owed(p)
        BY <1>1, <2>1, <3>1, <3>2, OwedStays
      <4> QED BY <2>1, <3>1, <4>1 DEF Settled
    <3>3. CASE p = o
      <4>1. rest'[p] = 0
        BY <1>1, <2>1, <3>1, <3>3
      <4>2. Owed(p)' = rest'[p] + ExecutedIn(p, processed + 1, Len(trades))' + Missed(p)'
        BY DEF Owed, Missed
      <4>3. /\ ExecutedIn(p, processed + 1, Len(trades))' = ExecutedIn(p, processed + 1, Len(trades))
            /\ Missed(p)' = Missed(p)
        BY <2>1, <3>1, OwedStays
      <4>4. Owed(p)' <= Owed(p) /\ Owed(p)' \in Int
        BY <3>1, <4>1, <4>2, <4>3, OwedIs
      <4>5. Owed(p)' <= Remaining(p)'
        BY <1>2, <3>1, <4>4 DEF Settled
      <4> QED BY <2>1, <3>3, <4>5 DEF Settled
    <3> QED BY <3>2, <3>3
  <2> QED BY <2>1, <2>2, <2>3
<1>10. ASSUME NEW o \in Orders, AcceptOrder(o)
      PROVE  monitor' # "new" /\ stage' # "monitor" /\ \A p \in active' : Settled(p)'
  <2>1. /\ UNCHANGED <<active, rest, trades, orphaned, processed, adoptedAt, startedAt, monitor>>
        /\ stage = "accept" /\ stage' \in {"accept", "accepted"}
        /\ order' \in {order, [order EXCEPT ![o].state = "ACCEPTED"]}
    BY <1>10 DEF AcceptOrder, exchange, history, thread
  <2>2. monitor # "new" /\ stage' # "monitor" /\ stage \in Running
    BY <2>1 DEF Control, StartStages, FinalStages, Running, Stages
  <2>3. ASSUME NEW p \in active PROVE Settled(p)'
    <3>1. order'[p].quantity = order[p].quantity /\ order'[p].filled = order[p].filled /\ p \in Orders
      BY <1>1, <2>1 DEF OrderRecords
    <3>2. Remaining(p)' = Remaining(p) /\ Owed(p)' = Owed(p)
      BY <2>1, <3>1, OwedStays, RemainingStays
    <3> QED BY <1>0, <2>1, <2>2, <2>3, <3>2 DEF Settled
  <2> QED BY <2>1, <2>2, <2>3
<1>11. CASE SkipTrade \/ ApplyTrade
  <2>1. /\ batch # <<>> /\ processed' = Head(batch) /\ stage = "apply"
        /\ UNCHANGED <<rest, trades, orphaned, adoptedAt, startedAt, monitor>>
    BY <1>11 DEF SkipTrade, ApplyTrade, thread, exchange
  <2>2. monitor # "new" /\ processed' = processed + 1 /\ processed + 1 \in DOMAIN trades /\ stage \in Running
    BY <2>1, BatchHead DEF Running, Stages
  <2>3. \A p \in Orders :
          Owed(p)' = Owed(p) - IF trades[processed + 1].order = p THEN trades[processed + 1].quantity ELSE 0
    BY <2>1, <2>2, TakenUp
  <2>4. CASE SkipTrade
    <3>1. UNCHANGED <<stage, order, active>> /\ trades[processed + 1].order \notin active
      BY <2>1, <2>2, <2>4 DEF SkipTrade
    <3>2. \A p \in active : Owed(p)' = Owed(p) /\ Remaining(p)' = Remaining(p)
      BY <1>1, <1>2, <2>3, <3>1, RemainingStays
    <3> QED BY <1>0, <2>1, <2>2, <3>1, <3>2 DEF Settled
  <2>5. CASE ApplyTrade
    <3>1. PICK o \in active, n \in Nat \ {0} :
           /\ trades[processed + 1].order = o /\ trades[processed + 1].quantity = n
           /\ \/ /\ stage' = "filled"
                 /\ order' = [order EXCEPT ![o] = WithFill(o, n)]
                 /\ active' = IF n = Remaining(o) THEN active \ {o} ELSE active
              \/ /\ stage' = "stop" /\ active' = active
                 /\ order' = [order EXCEPT ![o] = RefusedFill(o, n)]
              \/ /\ stage' = "stop" /\ UNCHANGED <<order, active>>
      BY <2>5, AppliedTrade
    <3>2. active' \subseteq active /\ stage' # "monitor"
      BY <3>1
    <3>3. ASSUME NEW p \in active \ {o} PROVE Settled(p)'
      <4>1. order'[p] = order[p] /\ p \in Orders
        BY <1>1, <3>1, <3>3
      <4>2. Remaining(p)' = Remaining(p) /\ Owed(p)' = Owed(p)
        BY <1>2, <2>3, <3>1, <3>3, <4>1, RemainingStays
      <4> QED BY <1>0, <2>1, <2>2, <3>3, <4>2 DEF Settled
    <3>4. Settled(o)'
      <4>1. o \in Orders /\ Settled(o) /\ Owed(o)' = Owed(o) - n /\ order[o] \in OrderRecords
        BY <1>0, <1>1, <2>2, <2>3, <3>1
      <4>2. \/ Remaining(o)' = Remaining(o) - n
            \/ stage' = "stop" /\ Remaining(o)' = Remaining(o)
        <5>1. \/ order'[o].quantity = order[o].quantity /\ order'[o].filled = order[o].filled + n
              \/ stage' = "stop" /\ order'[o] = order[o]
          <6>1. /\ WithFill(o, n).quantity = order[o].quantity /\ WithFill(o, n).filled = order[o].filled + n
                /\ RefusedFill(o, n).quantity = order[o].quantity /\ RefusedFill(o, n).filled = order[o].filled + n
            BY <4>1 DEF WithFill, RefusedFill, OrderRecords
          <6>2. order'[o] \in {WithFill(o, n), RefusedFill(o, n)} \/ (stage' = "stop" /\ order'[o] = order[o])
            BY <1>1, <3>1, <4>1
          <6> QED BY <6>1, <6>2
        <5> QED BY <1>2, <4>1, <5>1 DEF Remaining
      <4>3. Owed(o) <= Remaining(o) /\ (o \notin orphaned => Remaining(o) = Owed(o))
        BY <2>2, <4>1 DEF Settled
      <4>4. Owed(o)' <= Remaining(o)'
        BY <1>2, <4>1, <4>2, <4>3
      <4>5. stage' \in Running /\ o \notin orphaned => Remaining(o)' = Owed(o)'
        BY <1>2, <4>1, <4>2, <4>3 DEF Running, Stages
      <4> QED BY <2>1, <4>4, <4>5 DEF Settled
    <3> QED BY <3>2, <3>3, <3>4
  <2> QED BY <1>11, <2>1, <2>2, <2>4, <2>5
<1>12. ASSUME NEW x \in Markets, Execute(x)
       PROVE  /\ stage' = "monitor" => \A o \in active' : Adopting(o)'
              /\ monitor' # "new" => \A o \in active' : Settled(o)'
  <2>1. UNCHANGED <<order, active, orphaned, stage, monitor, processed, adoptedAt, startedAt>>
    BY <1>12 DEF Execute, main, history, thread
  <2>2. ASSUME NEW o \in active
        PROVE  /\ Remaining(o)' = Remaining(o)
               /\ rest'[o] + ExecutedIn(o, adoptedAt + 1, Len(trades))' = rest[o] + ExecutedIn(o, adoptedAt + 1, Len(trades))
               /\ monitor # "new" => Owed(o)' = Owed(o)
    <3>1. o \in Orders /\ o \in Markets /\ rest[o] \in Nat
      BY <1>1
    <3>2. PICK n \in 1 .. rest[x] :
           /\ rest' = [rest EXCEPT ![x] = @ - n] /\ n \in Nat
           /\ \A a, b \in Nat : b <= Len(trades) => ExecutedIn(o, a + 1, b)' = ExecutedIn(o, a + 1, b)
           /\ \A a \in Nat : a <= Len(trades) =>
                ExecutedIn(o, a + 1, Len(trades))' = ExecutedIn(o, a + 1, Len(trades)) + IF o = x THEN n ELSE 0
      BY <1>12, StretchGrows
    <3>3. /\ adoptedAt \in Nat /\ startedAt \in Nat /\ processed \in Nat /\ Len(trades) \in Nat
          /\ adoptedAt <= Len(trades) /\ startedAt <= Len(trades) /\ Len(trades) <= Len(trades)
      BY DEF TypeOK, Control
    <3>4. rest'[o] = rest[o] - IF o = x THEN n ELSE 0
      BY <1>1, <3>1, <3>2
    <3>5. /\ ExecutedIn(o, adoptedAt + 1, Len(trades)) \in Nat
          /\ ExecutedIn(o, adoptedAt + 1, Len(trades))' = ExecutedIn(o, adoptedAt + 1, Len(trades)) + IF o = x THEN n ELSE 0
      <4>1. ExecutedIn(o, adoptedAt + 1, Len(trades)) \in Nat
        BY <3>3, Stretch, Zenon
      <4> QED BY <2>1, <3>2, <3>3, <4>1, Zenon
    <3>6. ASSUME monitor # "new" PROVE Owed(o)' = Owed(o)
      <4>1. processed <= Len(trades)
        <5>1. PICK cut \in [0 .. Len(queue) -> Nat] : Chained(cut)
          BY <3>6 DEF Chain
        <5>2. PICK a, b \in Nat : processed <= a /\ a <= b /\ b <= lastTradeId /\ lastTradeId <= Len(trades)
          BY <5>1, Cuts
        <5>3. lastTradeId \in Nat
          BY DEF TypeOK
        <5> QED BY <3>3, <5>2, <5>3
      <4>2. /\ ExecutedIn(o, processed + 1, Len(trades)) \in Nat
            /\ ExecutedIn(o, processed + 1, Len(trades))' = ExecutedIn(o, processed + 1, Len(trades)) + IF o = x THEN n ELSE 0
        <5>1. ExecutedIn(o, processed + 1, Len(trades)) \in Nat
          BY <3>3, Stretch, Zenon
        <5> QED BY <2>1, <3>2, <3>3, <4>1, <5>1, Zenon
      <4>3. Missed(o)' = Missed(o)
        BY <2>1, <3>2, <3>3 DEF Missed
      <4>4. Owed(o)' = rest'[o] + ExecutedIn(o, processed + 1, Len(trades))' + Missed(o)'
        BY DEF Owed, Missed
      <4> QED BY <3>1, <3>2, <3>4, <4>2, <4>3, <4>4, OwedIs
    <3>7. Remaining(o)' = Remaining(o)
      BY <2>1, <3>1, RemainingStays
    <3> QED BY <3>1, <3>2, <3>4, <3>5, <3>6, <3>7
  <2> QED BY <1>0, <2>1, <2>2 DEF Adopting, Settled
<1> QED BY <1>4, <1>5, <1>6, <1>7, <1>8, <1>9, <1>10, <1>11, <1>12, Steps

-----------------------------------------------------------------------------
(* The theorems *)

(* The invariant is inductive.                                             *)
LEMMA StepIInv ==
  IInv /\ [Next]_vars => IInv'
<1> SUFFICES ASSUME IInv, [Next]_vars PROVE IInv'
  OBVIOUS
<1>1. TypeOK /\ Control /\ OrdersOK /\ Chain /\ Accounted
  BY DEF IInv
<1>2. TypeOK'
  BY <1>1, TypeStep
<1>3. Control'
  BY <1>1, <1>2, ControlStep
<1>4. OrdersOK' /\ Chain'
  BY <1>1, <1>2, OrdersOKStep, ChainStep
<1>5. Accounted'
  BY <1>1, <1>2, <1>3, AccountedStep
<1> QED BY <1>2, <1>3, <1>4, <1>5 DEF IInv

(* In every reachable state of LiveBroker the variables hold values of     *)
(* their kinds, the trades on their way to the broker lie end to end from  *)
(* the last one taken up to the last one polled, and no active order has   *)
(* less remaining than the exchange may yet execute or has executed.       *)
THEOREM Invariance == Spec => []IInv
BY InitIInv, StepIInv, PTL DEF Spec

(* What is in flight is every trade after the last one that the broker     *)
(* took up, in order and once: polls, batches, queue and loop of           *)
(* _onUserTrades lose, repeat and reorder nothing.                         *)
THEOREM EachTradeOnceCorrect == Spec => []EachTradeOnce
<1>1. IInv => EachTradeOnce
  <2> SUFFICES ASSUME IInv, monitor # "new"
               PROVE  /\ InFlight = [i \in 1 .. Len(trades) - processed |-> processed + i]
                      /\ stage = "filled" => processed <= balanceAt
    BY DEF EachTradeOnce
  <2>1. TypeOK /\ Control /\ Chain
    BY DEF IInv
  <2>2. PICK cut \in [0 .. Len(queue) -> Nat] : Chained(cut)
    BY <2>1 DEF Chain
  <2>3. PICK a, b \in Nat :
          /\ a = cut[0] /\ b = cut[Len(queue)]
          /\ processed <= a /\ a <= b /\ b <= lastTradeId /\ lastTradeId <= Len(trades)
          /\ FlattenSeq(queue) = Ids(a, b)
    BY <2>1, <2>2, Cuts
  <2>4. PICK p, l, n \in Nat : p = processed /\ l = lastTradeId /\ n = Len(trades)
    <3>1. processed \in Nat /\ lastTradeId \in Nat /\ Len(trades) \in Nat
      BY <2>1 DEF TypeOK
    <3> QED BY <3>1
  <2>5. batch = Ids(p, a) /\ found = Ids(b, l) /\ NewTrades = Ids(l, n)
    BY <2>1, <2>2, <2>3, <2>4, NewTradesAre DEF Chained
  <2>6. p <= a /\ a <= b /\ b <= l /\ l <= n /\ p <= b /\ p <= l
    BY <2>3, <2>4
  <2>7. Ids(p, a) \o Ids(a, b) = Ids(p, b)
    BY <2>6, IdsConcat
  <2>8. Ids(p, b) \o Ids(b, l) = Ids(p, l)
    BY <2>6, IdsConcat
  <2>9. Ids(p, l) \o Ids(l, n) = Ids(p, n)
    BY <2>6, IdsConcat
  <2>10. InFlight = Ids(p, n)
    BY <2>3, <2>5, <2>7, <2>8, <2>9 DEF InFlight
  <2> QED BY <2>1, <2>4, <2>10 DEF Ids, Control
<1> QED BY <1>1, Invariance, PTL

(* While the broker runs, what it believes to be left of an active order   *)
(* is what the exchange has still to execute plus what is in flight, and   *)
(* for an order of an earlier session what was executed between the        *)
(* reading of the open orders and the start of the monitor: for every      *)
(* number of orders, trades and failed calls.                              *)
THEOREM RemainingCorrect == Spec => []RemainingAccountedFor
<1>1. IInv => RemainingAccountedFor
  BY DEF IInv, Accounted, RemainingAccountedFor
<1> QED BY <1>1, Invariance, PTL

-----------------------------------------------------------------------------
(* Orders are accepted in time *)

(* The trades of a batch are trades of the exchange.                       *)
LEMMA BatchIds ==
  ASSUME TypeOK, Control, Chain
  PROVE  \A k \in DOMAIN batch : batch[k] \in DOMAIN trades
<1>1. CASE monitor = "new"
  BY <1>1 DEF Control
<1>2. CASE monitor # "new"
  <2>1. PICK cut \in [0 .. Len(queue) -> Nat] : Chained(cut)
    BY <1>2 DEF Chain
  <2>2. PICK a, b \in Nat :
          /\ a = cut[0] /\ processed <= a /\ a <= b /\ b <= lastTradeId /\ lastTradeId <= Len(trades)
    BY <2>1, Cuts
  <2>3. /\ processed \in Nat /\ lastTradeId \in Nat /\ Len(trades) \in Nat /\ DOMAIN trades = 1 .. Len(trades)
        /\ batch = [i \in 1 .. a - processed |-> processed + i]
    BY <2>1, <2>2 DEF TypeOK, Chained, Ids
  <2> QED BY <2>2, <2>3
<1> QED BY <1>1, <1>2

(* Where Early speaks of an order it goes on to, if the step is none of    *)
(* those below.                                                            *)
EarlyStays ==
  /\ UNCHANGED refused
  /\ stage' \in {"accept", "accepted"} => stage \in {"accept", "accepted"} /\ UNCHANGED todo
  /\ stage' \in {"apply", "filled"} => stage \in {"apply", "filled"} /\ UNCHANGED batch
  /\ stage' \in {"accept", "accepted", "apply", "filled"} => UNCHANGED <<order, active, trades>>

(* No step lets a trade overtake the acceptance of its order.              *)
LEMMA EarlyStep ==
  ASSUME "accepted" \notin SubmitsIn
  PROVE  IInv /\ Early /\ [Next]_vars => Early'
<1> SUFFICES ASSUME IInv, Early, [Next]_vars PROVE Early'
  OBVIOUS
<1>0. TypeOK /\ Control /\ OrdersOK /\ Chain
  BY DEF IInv
<1>1. /\ active \subseteq Orders /\ order \in [Orders -> OrderRecords]
  BY <1>0 DEF TypeOK
<1>2. CASE EarlyStays
  BY <1>2 DEF EarlyStays, Early
<1>3. ASSUME NEW o \in Orders, NEW n \in Quantities, SubmitOrder(o, n)
      PROVE  Early'
  <2>1. /\ stage \in {"events", "filled"} /\ stage' = stage /\ o \in Own /\ order[o].state = "INITIAL"
        /\ UNCHANGED <<batch, trades, refused>> /\ active' \subseteq active \cup {o}
        /\ \A p \in Orders \ {o} : order'[p] = order[p]
    BY <1>1, <1>3, LiveBrokerAssumption DEF SubmitOrder, Own, HandlerStages, history
  <2>2. \A id \in DOMAIN trades : trades[id].order # o
    BY <1>0, <2>1 DEF OrdersOK
  <2>3. \A k \in DOMAIN batch : trades[batch[k]].order # o
    BY <1>0, <2>2, BatchIds
  <2> QED BY <1>1, <2>1, <2>3 DEF Early
<1>4. ASSUME NEW o \in Orders, CancelOrder(o)
      PROVE  Early'
  <2>1. /\ UNCHANGED <<stage, todo, batch, trades, refused>> /\ active' = active \ {o}
        /\ order' = [order EXCEPT ![o].state = "CANCELED"]
    BY <1>4 DEF CancelOrder, Unregister, history
  <2>2. \A p \in active' : p \in active /\ order'[p] = order[p]
    BY <1>1, <2>1
  <2> QED BY <2>1, <2>2 DEF Early
<1>5. CASE BeginDispatch
  <2>1. stage' = "accept" /\ todo' = {o \in active : order[o].state = "SUBMITTED"} /\ UNCHANGED <<order, active, refused>>
    BY <1>5 DEF BeginDispatch, IsSubmitted, history
  <2> QED BY <2>1 DEF Early
<1>6. ASSUME NEW o \in Orders, AcceptOrder(o)
      PROVE  Early'
  <2>1. /\ UNCHANGED <<active, refused>> /\ todo' = todo \ {o} /\ stage = "accept" /\ stage' \in {"accept", "accepted"}
        /\ \/ IsSubmitted(o) /\ order' = [order EXCEPT ![o].state = "ACCEPTED"]
           \/ ~IsSubmitted(o) /\ order' = order
    BY <1>6 DEF AcceptOrder, history
  <2>2. order'[o].state # "SUBMITTED" /\ \A p \in Orders \ {o} : order'[p] = order[p]
    BY <1>1, <2>1 DEF IsSubmitted, OrderRecords
  <2> QED BY <1>1, <2>1, <2>2 DEF Early
<1>7. CASE GetTrades
  BY <1>7 DEF GetTrades, Early, history, exchange
<1>8. ASSUME SkipTrade \/ ApplyTrade
      PROVE  batch # <<>> /\ Head(batch) = batch[1] /\ 1 \in DOMAIN batch /\ batch' = Tail(batch)
             /\ (\A k \in DOMAIN batch' : k + 1 \in DOMAIN batch /\ batch'[k] = batch[k + 1])
             /\ stage = "apply" /\ UNCHANGED trades
  <2>1. batch # <<>> /\ batch' = Tail(batch) /\ batch \in Seq(Nat) /\ stage = "apply" /\ UNCHANGED trades
    BY <1>0, <1>8 DEF SkipTrade, ApplyTrade, TypeOK, exchange
  <2>2. /\ Tail(batch) \in Seq(Nat) /\ Len(Tail(batch)) = Len(batch) - 1 /\ Head(batch) = batch[1]
        /\ \A k \in 1 .. Len(Tail(batch)) : Tail(batch)[k] = batch[k + 1]
        /\ Len(batch) \in Nat \ {0} /\ DOMAIN batch = 1 .. Len(batch) /\ DOMAIN Tail(batch) = 1 .. Len(Tail(batch))
    BY <2>1, HeadTailProperties
  <2> QED BY <2>1, <2>2
<1>9. CASE SkipTrade
  <2>1. UNCHANGED <<stage, order, active, refused>>
    BY <1>9 DEF SkipTrade
  <2> QED BY <1>8, <1>9, <2>1 DEF Early
<1>10. CASE ApplyTrade
  <2>1. PICK o \in active, n \in Nat \ {0} :
           /\ trades[processed + 1].order = o
           /\ \/ /\ CanFill(o) /\ stage' = "filled" /\ refused' = refused
                 /\ order' = [order EXCEPT ![o] = WithFill(o, n)]
                 /\ active' = IF n = Remaining(o) THEN active \ {o} ELSE active
              \/ ~CanFill(o)
              \/ /\ stage' = "stop" /\ UNCHANGED refused
    BY <1>0, <1>10, AppliedTrade
  <2>2. Head(batch) = processed + 1
    BY <1>0, <1>8, <1>10, BatchHead
  <2>3. order[o].state # "SUBMITTED"
    BY <1>8, <1>10, <2>1, <2>2 DEF Early
  <2>4. CanFill(o)
    BY <1>0, <2>1, <2>3 DEF OrdersOK, CanFill
  <2>5. CASE stage' = "filled"
    <3>1. order'[o].state # "SUBMITTED" /\ \A p \in Orders \ {o} : order'[p] = order[p]
      <4>1. order' = [order EXCEPT ![o] = WithFill(o, n)] /\ o \in Orders /\ order[o] \in OrderRecords
        BY <1>1, <2>1, <2>4, <2>5
      <4>2. WithFill(o, n).state # "SUBMITTED"
        BY <4>1 DEF WithFill, StateAfter, OrderRecords
      <4> QED BY <1>1, <4>1, <4>2
    <3>2. active' \subseteq active /\ UNCHANGED refused
      BY <2>1, <2>4, <2>5
    <3> QED BY <1>1, <1>8, <1>10, <2>5, <3>1, <3>2 DEF Early
  <2>6. CASE stage' # "filled"
    BY <2>1, <2>4, <2>6 DEF Early
  <2> QED BY <2>5, <2>6
<1>11. ASSUME NEW x \in Markets, Execute(x)
       PROVE  Early'
  <2>1. UNCHANGED <<stage, order, active, todo, batch, refused>>
    BY <1>11 DEF Execute, main, history
  <2>2. \A id \in DOMAIN trades : trades'[id] = trades[id]
    BY <1>0, <1>11, AppendedTrade
  <2>3. \A k \in DOMAIN batch : trades'[batch[k]] = trades[batch[k]]
    BY <1>0, <2>2, BatchIds
  <2> QED BY <2>1, <2>3 DEF Early
<1>12. \/ EarlyStays \/ BeginDispatch \/ GetTrades \/ SkipTrade \/ ApplyTrade
       \/ \E o \in Orders, n \in Quantities : SubmitOrder(o, n)
       \/ \E o \in Orders : CancelOrder(o) \/ AcceptOrder(o)
       \/ \E o \in Markets : Execute(o)
  BY DEF Next, Start, Strategy, Dispatch, Monitor, GetBalance, RefreshOpenOrders, StartTradeMonitor, RefreshFails,
         CancelAnswerLost, AskToStop, HandlerRaises, EndRun, DispatchEnds, HandlersReturn, Stop, Join, CheckStop,
         Poll, PollFails, Report, EarlyStays, Markets, vars, main, thread, exchange, history
<1> QED BY <1>2, <1>3, <1>4, <1>5, <1>6, <1>7, <1>9, <1>10, <1>11, <1>12

(* If no order is submitted while dispatch accepts orders, an order is     *)
(* accepted before any of its trades is taken up.                          *)
THEOREM AcceptedFirst ==
  ASSUME "accepted" \notin SubmitsIn
  PROVE  Spec => []Early
<1>1. Init => Early
  BY DEF Init, Early
<1>2. IInv /\ Early /\ [Next]_vars => Early'
  BY EarlyStep
<1> QED BY <1>1, <1>2, Invariance, PTL DEF Spec

(* So Order.switchState never raises in _onUserTrades.  Without the        *)
(* hypothesis it may: the run LiveBrokerAcceptDoc shows it.                *)
THEOREM NoRefusal ==
  ASSUME "accepted" \notin SubmitsIn
  PROVE  Spec => []NoTransitionRefused
<1>1. Early => NoTransitionRefused
  BY DEF Early, NoTransitionRefused
<1> QED BY <1>1, AcceptedFirst, PTL

-----------------------------------------------------------------------------
(* Refinement *)

(* The transitions of the table that the live broker takes.                *)
LEMMA Transitions ==
  /\ "SUBMITTED" \in Lifecycle!ValidTransitions["INITIAL"]
  /\ "ACCEPTED" \in Lifecycle!ValidTransitions["SUBMITTED"]
  /\ \A s \in {"ACCEPTED", "PARTIALLY_FILLED"} : \A t \in {"PARTIALLY_FILLED", "FILLED"} :
       t \in Lifecycle!ValidTransitions[s]
  /\ \A s \in {"SUBMITTED", "ACCEPTED", "PARTIALLY_FILLED"} : "CANCELED" \in Lifecycle!ValidTransitions[s]
BY DEF Lifecycle!ValidTransitions, Lifecycle!States

(* How a step of one order looks in the abstract module.                   *)
LEMMA Abstracted ==
  ASSUME NEW o \in Own, \A p \in Own \ {o} : order'[p] = order[p]
  PROVE  /\ [p \in Own |-> order'[p].state] = [[p \in Own |-> order[p].state] EXCEPT ![o] = order'[o].state]
         /\ [p \in Own |-> order'[p].quantity] =
              [[p \in Own |-> order[p].quantity] EXCEPT ![o] = order'[o].quantity]
         /\ [p \in Own |-> order'[p].filled] = [[p \in Own |-> order[p].filled] EXCEPT ![o] = order'[o].filled]
OBVIOUS

(* A step that touches no own order is none in the abstract module.        *)
LEMMA AbstractStutter ==
  ASSUME \A p \in Own : order'[p] = order[p]
  PROVE  UNCHANGED Lifecycle!vars
BY DEF Lifecycle!vars

(* Every step is a step of the state chart, or none.                       *)
LEMMA StepLifecycle ==
  ASSUME "accepted" \notin SubmitsIn
  PROVE  IInv /\ Early /\ [Next]_vars => [Lifecycle!Next]_Lifecycle!vars
<1> SUFFICES ASSUME IInv, Early, [Next]_vars PROVE [Lifecycle!Next]_Lifecycle!vars
  OBVIOUS
<1> USE DEF Lifecycle!Next, Lifecycle!SwitchState
<1>0. TypeOK /\ Control /\ OrdersOK /\ Chain /\ Accounted
  BY DEF IInv
<1>1. /\ active \subseteq Orders /\ order \in [Orders -> OrderRecords] /\ Own \subseteq Orders /\ Own \cap Adopted = {}
  BY <1>0 DEF TypeOK, Own
<1>2. CASE Quiet \/ StartTradeMonitor \/ SkipTrade
  BY <1>2, AbstractStutter DEF Quiet, StartTradeMonitor, SkipTrade
<1>3. CASE RefreshOpenOrders
  BY <1>1, <1>3, AbstractStutter DEF RefreshOpenOrders
<1>4. ASSUME NEW o \in Orders, NEW n \in Quantities, SubmitOrder(o, n)
      PROVE  [Lifecycle!Next]_Lifecycle!vars
  <2>1. CASE order' = order
    BY <2>1, AbstractStutter
  <2>2. CASE order' = [order EXCEPT ![o].state = "SUBMITTED", ![o].quantity = n]
    <3>1. o \in Own /\ order[o].state = "INITIAL" /\ \A p \in Own \ {o} : order'[p] = order[p]
      BY <1>1, <1>4, <2>2 DEF SubmitOrder, Own
    <3>2. order'[o].state = "SUBMITTED" /\ order'[o].quantity = n /\ order'[o].filled = order[o].filled
      BY <1>1, <2>2 DEF OrderRecords
    <3>3. [p \in Own |-> order'[p].filled] = [p \in Own |-> order[p].filled]
      BY <3>1, <3>2
    <3>4. Lifecycle!Submit(o)
      BY <3>1, <3>2, <3>3, Abstracted, Transitions DEF Lifecycle!Submit
    <3> QED BY <3>1, <3>4
  <2> QED BY <1>4, <2>1, <2>2 DEF SubmitOrder
<1>5. ASSUME NEW o \in Orders, CancelOrder(o)
      PROVE  [Lifecycle!Next]_Lifecycle!vars
  <2>1. order' = [order EXCEPT ![o].state = "CANCELED"] /\ o \in active
    BY <1>5 DEF CancelOrder
  <2>2. order[o].state \in {"SUBMITTED", "ACCEPTED", "PARTIALLY_FILLED"} /\ \A p \in Own \ {o} : order'[p] = order[p]
    BY <1>0, <1>1, <2>1 DEF OrdersOK
  <2>3. CASE o \in Own
    <3>1. order'[o].state = "CANCELED" /\ order'[o].quantity = order[o].quantity /\ order'[o].filled = order[o].filled
      BY <1>1, <2>1 DEF OrderRecords
    <3>2. /\ [p \in Own |-> order'[p].filled] = [p \in Own |-> order[p].filled]
          /\ [p \in Own |-> order'[p].quantity] = [p \in Own |-> order[p].quantity]
      BY <2>2, <3>1
    <3>3. Lifecycle!Cancel(o)
      BY <2>2, <2>3, <3>1, <3>2, Abstracted, Transitions DEF Lifecycle!Cancel
    <3> QED BY <2>3, <3>3
  <2>4. CASE o \notin Own
    BY <2>2, <2>4, AbstractStutter
  <2> QED BY <2>3, <2>4
<1>6. ASSUME NEW o \in Orders, CancelAnswerLost(o)
      PROVE  [Lifecycle!Next]_Lifecycle!vars
  BY <1>6, AbstractStutter DEF CancelAnswerLost, main
<1>7. ASSUME NEW o \in Orders, AcceptOrder(o)
      PROVE  [Lifecycle!Next]_Lifecycle!vars
  <2>1. CASE order' = order
    BY <2>1, AbstractStutter
  <2>2. CASE order' = [order EXCEPT ![o].state = "ACCEPTED"] /\ IsSubmitted(o)
    <3>1. \A p \in Own \ {o} : order'[p] = order[p]
      BY <1>1, <2>2
    <3>2. CASE o \in Own
      <4>1. order'[o].state = "ACCEPTED" /\ order'[o].quantity = order[o].quantity
            /\ order'[o].filled = order[o].filled /\ order[o].state = "SUBMITTED"
        BY <1>1, <2>2 DEF OrderRecords, IsSubmitted
      <4>2. /\ [p \in Own |-> order'[p].filled] = [p \in Own |-> order[p].filled]
            /\ [p \in Own |-> order'[p].quantity] = [p \in Own |-> order[p].quantity]
        BY <3>1, <4>1
      <4>3. Lifecycle!Accept(o)
        BY <3>1, <3>2, <4>1, <4>2, Abstracted, Transitions DEF Lifecycle!Accept
      <4> QED BY <3>2, <4>3
    <3>3. CASE o \notin Own
      BY <3>1, <3>3, AbstractStutter
    <3> QED BY <3>2, <3>3
  <2> QED BY <1>7, <2>1, <2>2 DEF AcceptOrder
<1>8. CASE ApplyTrade
  <2>1. PICK o \in active, n \in Nat \ {0} :
           /\ trades[processed + 1].order = o /\ trades[processed + 1].quantity = n
           /\ \/ CanFill(o) /\ order' = [order EXCEPT ![o] = WithFill(o, n)]
              \/ ~CanFill(o)
              \/ order' = order
    BY <1>0, <1>8, AppliedTrade
  <2>2. batch # <<>> /\ stage = "apply" /\ 1 \in DOMAIN batch /\ batch[1] = processed + 1
        /\ processed + 1 \in DOMAIN trades /\ monitor # "new"
    <3>1. batch # <<>> /\ stage = "apply" /\ batch \in Seq(Nat)
      BY <1>0, <1>8 DEF ApplyTrade, TypeOK
    <3>2. Head(batch) = batch[1] /\ 1 \in DOMAIN batch
      BY <3>1, HeadTailProperties
    <3> QED BY <1>0, <3>1, <3>2, BatchHead
  <2>3. order[o].state # "SUBMITTED"
    BY <2>1, <2>2 DEF Early
  <2>4. CanFill(o)
    BY <1>0, <2>1, <2>3 DEF OrdersOK, CanFill
  <2>5. CASE order' = order
    BY <2>5, AbstractStutter
  <2>6. CASE order' = [order EXCEPT ![o] = WithFill(o, n)] /\ o \notin Own
    BY <1>1, <2>6, AbstractStutter
  <2>7. CASE order' = [order EXCEPT ![o] = WithFill(o, n)] /\ o \in Own
    <3>1. /\ order'[o].state = StateAfter(o, n) /\ order'[o].quantity = order[o].quantity
          /\ order'[o].filled = order[o].filled + n
          /\ \A p \in Own \ {o} : order'[p] = order[p]
      BY <1>1, <2>1, <2>7 DEF WithFill, OrderRecords
    <3>2. n <= Remaining(o)
      <4>1. Owed(o) <= Remaining(o)
        BY <1>0, <2>1, <2>2 DEF Accounted
      <4>2. n <= Owed(o)
        <5>1. /\ processed \in Nat /\ Len(trades) \in Nat /\ processed < Len(trades) /\ Len(trades) <= Len(trades)
              /\ (processed + 1) + 1 = processed + 2 /\ processed + 1 \in Nat
          BY <1>0, <2>2 DEF TypeOK
        <5>2. /\ ExecutedIn(o, processed + 1, Len(trades)) = Executed(o)[processed + 1] + ExecutedIn(o, processed + 2, Len(trades))
              /\ ExecutedIn(o, (processed + 1) + 1, Len(trades)) \in Nat
          BY <1>0, <5>1, Stretch, Zenon
        <5>3. Executed(o)[processed + 1] = n
          BY <2>1, <2>2 DEF Executed
        <5>4. /\ Owed(o) = rest[o] + ExecutedIn(o, processed + 1, Len(trades)) + Missed(o)
              /\ rest[o] \in Nat /\ Missed(o) \in Nat
          BY <1>0, <1>1, <2>1, OwedIs
        <5>5. ExecutedIn(o, processed + 2, Len(trades)) \in Nat
          BY <5>1, <5>2
        <5> QED BY <5>2, <5>3, <5>4, <5>5
      <4>3. Owed(o) \in Int /\ Remaining(o) \in Int
        <5>1. order[o].quantity \in Nat /\ order[o].filled \in Nat
          BY <1>1, <2>1 DEF OrderRecords
        <5>2. o \in Orders
          BY <1>1
        <5>3. Owed(o) \in Int
          BY <1>0, <5>2, OwedIs
        <5> QED BY <5>1, <5>3 DEF Remaining
      <4> QED BY <4>1, <4>2, <4>3
    <3>3. Remaining(o) \in Int
      BY <1>1, <2>1 DEF OrderRecords, Remaining
    <3>4. n \in 1 .. Remaining(o)
      BY <3>2, <3>3
    <3>5. Lifecycle!Remaining(o) = Remaining(o)
      BY <2>7 DEF Lifecycle!Remaining, Remaining
    <3>6. StateAfter(o, n) = (IF n = Remaining(o) THEN "FILLED" ELSE "PARTIALLY_FILLED")
          /\ StateAfter(o, n) \in {"PARTIALLY_FILLED", "FILLED"}
      BY DEF StateAfter
    <3>7. StateAfter(o, n) \in Lifecycle!ValidTransitions[order[o].state]
      BY <2>4, <3>6, Transitions DEF CanFill
    <3>8. /\ [p \in Own |-> order'[p].state] = [[p \in Own |-> order[p].state] EXCEPT ![o] = StateAfter(o, n)]
          /\ [p \in Own |-> order'[p].filled] = [[p \in Own |-> order[p].filled] EXCEPT ![o] = order[o].filled + n]
          /\ [p \in Own |-> order'[p].quantity] = [p \in Own |-> order[p].quantity]
      <4>1. /\ [p \in Own |-> order'[p].state] = [[p \in Own |-> order[p].state] EXCEPT ![o] = order'[o].state]
            /\ [p \in Own |-> order'[p].filled] = [[p \in Own |-> order[p].filled] EXCEPT ![o] = order'[o].filled]
        BY <2>7, <3>1, Abstracted
      <4>2. [p \in Own |-> order'[p].quantity] = [p \in Own |-> order[p].quantity]
        BY <3>1
      <4>3. order'[o].state = StateAfter(o, n) /\ order'[o].filled = order[o].filled + n
        BY <3>1
      <4> QED BY <4>1, <4>2, <4>3, Zenon
    <3>9. Lifecycle!Execute(o)
      BY <2>7, <3>4, <3>5, <3>6, <3>7, <3>8 DEF Lifecycle!Execute
    <3> QED BY <2>7, <3>9
  <2> QED BY <2>1, <2>4, <2>5, <2>6, <2>7
<1>9. ASSUME NEW x \in Markets, Execute(x)
      PROVE  [Lifecycle!Next]_Lifecycle!vars
  BY <1>9, AbstractStutter DEF Execute, main
<1> HIDE DEF Lifecycle!Next
<1> QED BY <1>0, <1>2, <1>3, <1>4, <1>5, <1>6, <1>7, <1>8, <1>9, Steps

(* Under the same hypothesis every step of the live broker is, for the     *)
(* orders submitted through it, a step of the state chart or none: an      *)
(* order is submitted, accepted and filled in this order, and never by     *)
(* more than what remains of it.                                           *)
THEOREM LifecycleRefinement ==
  ASSUME "accepted" \notin SubmitsIn
  PROVE  Spec => ImplementsLifecycle
<1>1. Init => Lifecycle!Init
  BY DEF Init, Lifecycle!Init, NewOrder, Own
<1>2. IInv /\ Early /\ [Next]_vars => [Lifecycle!Next]_Lifecycle!vars
  BY StepLifecycle
<1> QED BY <1>1, <1>2, Invariance, AcceptedFirst, PTL DEF Spec, ImplementsLifecycle, Lifecycle!Spec

=============================================================================
