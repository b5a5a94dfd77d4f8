---------------------------- MODULE DataTheorems ----------------------------
(***************************************************************************)
(* Facts about SumFunctionOnSet, the sum of f[x] over the elements x of a  *)
(* finite set, for the modules whose accounts add up over orders or over   *)
(* executions; about numbers and sequences, for the proofs about queues;   *)
(* and about what sorting a list and picking from it return (Sorting), for *)
(* the feeds.                                                              *)
(*                                                                         *)
(* The sum is defined by recursion over subsets.  An induction theorem     *)
(* over a predicate cannot be cited here, but its contraposition can: a    *)
(* set of subsets that is not empty has a minimal element.                 *)
(***************************************************************************)
EXTENDS Sorting, FiniteSetsExt, FiniteSetTheorems, SequenceTheorems, TLAPS

(* A set of subsets of a finite set, if it has any element, has one that   *)
(* is minimal: of its strict subsets none belongs to it.                   *)
LEMMA MinimalSubset ==
  ASSUME NEW S, IsFiniteSet(S), NEW B \in SUBSET (SUBSET S), B # {}
  PROVE  \E T \in B : \A U \in SUBSET T : U # T => U \notin B
<1>1. IsWellFoundedOn(StrictSubsetOrdering(S), SUBSET S)
  BY FS_StrictSubsetOrderingWellFounded, FS_FiniteSubsetsOfFinite
<1>2. \E T \in B : \A U \in B : ~ (<<U, T>> \in StrictSubsetOrdering(S))
  BY <1>1, WFMin
<1> QED BY <1>2 DEF StrictSubsetOrdering

(* A set of natural numbers that is not empty has a least element.         *)
LEMMA LeastNatural ==
  ASSUME NEW B \in SUBSET Nat, B # {}
  PROVE  \E m \in B : \A k \in B : m <= k
<1> DEFINE less == {ss \in Nat \X Nat : ss[1] < ss[2]}
<1>1. IsWellFoundedOn(less, Nat)
  BY NatLessThanWellFounded DEF OpToRel
<1>2. \A k, m \in Nat : k < m => <<k, m>> \in less
  OBVIOUS
<1> HIDE DEF less
<1>3. PICK m \in B : \A k \in B : ~ (<<k, m>> \in less)
  BY <1>1, WFMin
<1>4. ASSUME NEW k \in B PROVE m <= k
  <2>1. k \in Nat /\ m \in Nat
    OBVIOUS
  <2>2. ~ (k < m)
    BY <1>2, <1>3, <2>1, Zenon
  <2> QED BY <2>1, <2>2
<1> QED BY <1>4

-----------------------------------------------------------------------------
(* The recursion that defines the sum *)

Pick(s) == CHOOSE x \in s : TRUE

IsSum(f, S, it) ==
  it = [s \in SUBSET S |-> IF s = {} THEN 0 ELSE f[Pick(s)] + it[s \ {Pick(s)}]]

(* What Pick takes from a set is one of its elements.                      *)
LEMMA PickIn == \A s : s # {} => Pick(s) \in s
BY DEF Pick

(* At most one function satisfies the recursion, on common subsets too.    *)
LEMMA SumUnique ==
  ASSUME NEW f, NEW S, IsFiniteSet(S), NEW U \in SUBSET S,
         NEW it, IsSum(f, S, it), NEW jt, IsSum(f, U, jt)
  PROVE  \A s \in SUBSET U : it[s] = jt[s]
<1> DEFINE B == {s \in SUBSET U : it[s] # jt[s]}
<1>1. SUFFICES ASSUME B # {} PROVE FALSE
  OBVIOUS
<1>2. IsFiniteSet(U)
  BY FS_Subset
<1>3. PICK T \in B : \A V \in SUBSET T : V # T => V \notin B
  <2> HIDE DEF B
  <2>1. B \in SUBSET (SUBSET U)
    BY DEF B
  <2> QED BY <1>1, <1>2, <2>1, MinimalSubset
<1>4. it[T] = IF T = {} THEN 0 ELSE f[Pick(T)] + it[T \ {Pick(T)}]
  BY DEF IsSum
<1>5. jt[T] = IF T = {} THEN 0 ELSE f[Pick(T)] + jt[T \ {Pick(T)}]
  BY DEF IsSum
<1>6. T # {} => it[T \ {Pick(T)}] = jt[T \ {Pick(T)}]
  BY <1>3, PickIn
<1> QED BY <1>4, <1>5, <1>6

(* Some function does.                                                     *)
LEMMA SumExists ==
  ASSUME NEW f, NEW S, IsFiniteSet(S)
  PROVE  \E it : IsSum(f, S, it)
<1> DEFINE B == {T \in SUBSET S : ~ \E it : IsSum(f, T, it)}
<1>1. SUFFICES ASSUME B # {} PROVE FALSE
  OBVIOUS
<1>2. PICK T \in B : \A U \in SUBSET T : U # T => U \notin B
  <2> HIDE DEF B
  <2>1. B \in SUBSET (SUBSET S)
    BY DEF B
  <2> QED BY <1>1, <2>1, MinimalSubset
<1> DEFINE part(U) == CHOOSE it : IsSum(f, U, it)
           step(s) == IF s = {} THEN 0 ELSE f[Pick(s)] + part(s \ {Pick(s)})[s \ {Pick(s)}]
           whole   == [s \in SUBSET T |-> step(s)]
<1>3. \A U \in SUBSET T : U # T => IsSum(f, U, part(U))
  BY <1>2
<1> HIDE DEF part
<1>4. \A u \in SUBSET T : u # T => part(u)[u] = step(u)
  <2> SUFFICES ASSUME NEW u \in SUBSET T, u # T PROVE part(u)[u] = step(u)
    OBVIOUS
  <2>1. IsSum(f, u, part(u))
    BY <1>3
  <2>2. part(u)[u] = IF u = {} THEN 0 ELSE f[Pick(u)] + part(u)[u \ {Pick(u)}]
    BY <2>1 DEF IsSum
  <2>3. CASE u = {}
    BY <2>2, <2>3
  <2>4. CASE u # {}
    <3> DEFINE v == u \ {Pick(u)}
    <3>1. v \in SUBSET u /\ v \in SUBSET T /\ v # T
      BY <2>4, PickIn
    <3>2. IsSum(f, v, part(v))
      BY <3>1, <1>3
    <3>3. IsFiniteSet(u)
      BY FS_Subset
    <3>4. part(u)[v] = part(v)[v]
      BY <2>1, <3>1, <3>2, <3>3, SumUnique
    <3> QED BY <2>2, <2>4, <3>4
  <2> QED BY <2>3, <2>4
<1>5. \A s \in SUBSET T : s # {} => s \ {Pick(s)} \in SUBSET T /\ s \ {Pick(s)} # T
  BY PickIn
<1>6. \A s \in SUBSET T : step(s) = IF s = {} THEN 0 ELSE f[Pick(s)] + whole[s \ {Pick(s)}]
  <2> SUFFICES ASSUME NEW s \in SUBSET T, s # {}
               PROVE  part(s \ {Pick(s)})[s \ {Pick(s)}] = whole[s \ {Pick(s)}]
    OBVIOUS
  <2> QED BY <1>4, <1>5
<1>7. IsSum(f, T, whole)
  BY <1>6 DEF IsSum
<1> QED BY <1>7

-----------------------------------------------------------------------------
(* The sum itself *)

(* The recursion holds of the sum.                                         *)
LEMMA SumDefined ==
  ASSUME NEW f, NEW S, IsFiniteSet(S)
  PROVE  SumFunctionOnSet(f, S) =
           IF S = {} THEN 0 ELSE f[Pick(S)] + SumFunctionOnSet(f, S \ {Pick(S)})
<1> DEFINE sum(T) == CHOOSE it : IsSum(f, T, it)
<1>1. \A T : SumFunctionOnSet(f, T) = sum(T)[T]
  BY DEF SumFunctionOnSet, FoldFunctionOnSet, MapThenFoldSet, IsSum, Pick
<1>2. \A T \in SUBSET S : IsSum(f, T, sum(T))
  BY FS_Subset, SumExists
<1> HIDE DEF sum
<1>3. sum(S)[S] = IF S = {} THEN 0 ELSE f[Pick(S)] + sum(S)[S \ {Pick(S)}]
  BY <1>2 DEF IsSum
<1>4. ASSUME S # {} PROVE sum(S)[S \ {Pick(S)}] = sum(S \ {Pick(S)})[S \ {Pick(S)}]
  <2>1. S \ {Pick(S)} \in SUBSET S
    OBVIOUS
  <2>2. IsSum(f, S, sum(S)) /\ IsSum(f, S \ {Pick(S)}, sum(S \ {Pick(S)}))
    BY <1>2, <2>1
  <2> QED BY <2>1, <2>2, SumUnique
<1> QED BY <1>1, <1>3, <1>4

(* The empty sum.                                                          *)
LEMMA SumEmpty ==
  ASSUME NEW f
  PROVE  SumFunctionOnSet(f, {}) = 0
BY SumDefined, FS_EmptySet

(* A sum of integers is an integer.                                        *)
LEMMA SumType ==
  ASSUME NEW f, NEW S, IsFiniteSet(S), \A x \in S : f[x] \in Int
  PROVE  SumFunctionOnSet(f, S) \in Int
<1> DEFINE B == {T \in SUBSET S : SumFunctionOnSet(f, T) \notin Int}
<1>1. SUFFICES ASSUME B # {} PROVE FALSE
  OBVIOUS
<1>2. PICK T \in B : \A U \in SUBSET T : U # T => U \notin B
  <2> HIDE DEF B
  <2>1. B \in SUBSET (SUBSET S)
    BY DEF B
  <2> QED BY <1>1, <2>1, MinimalSubset
<1>3. IsFiniteSet(T)
  BY FS_Subset
<1>4. SumFunctionOnSet(f, T) =
        IF T = {} THEN 0 ELSE f[Pick(T)] + SumFunctionOnSet(f, T \ {Pick(T)})
  BY <1>3, SumDefined
<1>5. T # {} => f[Pick(T)] \in Int /\ SumFunctionOnSet(f, T \ {Pick(T)}) \in Int
  BY <1>2, PickIn
<1> QED BY <1>4, <1>5

(* Any element may be taken out of the sum.                                *)
LEMMA SumRemove ==
  ASSUME NEW f, NEW S, IsFiniteSet(S), \A x \in S : f[x] \in Int, NEW a \in S
  PROVE  SumFunctionOnSet(f, S) = f[a] + SumFunctionOnSet(f, S \ {a})
<1> DEFINE Sum(T) == SumFunctionOnSet(f, T)
           B == {T \in SUBSET S : \E x \in T : Sum(T) # f[x] + Sum(T \ {x})}
<1> HIDE DEF Sum
<1>1. SUFFICES B = {}
  BY DEF Sum
<1>2. SUFFICES ASSUME B # {} PROVE FALSE
  OBVIOUS
<1>3. PICK T \in B : \A U \in SUBSET T : U # T => U \notin B
  <2> HIDE DEF B
  <2>1. B \in SUBSET (SUBSET S)
    BY DEF B
  <2> QED BY <1>2, <2>1, MinimalSubset
<1>4. PICK x \in T : Sum(T) # f[x] + Sum(T \ {x})
  OBVIOUS
<1> DEFINE c == Pick(T)
<1>5. c \in T /\ Sum(T) = f[c] + Sum(T \ {c})
  <2>1. IsFiniteSet(T)
    BY FS_Subset
  <2> QED BY <2>1, <1>4, SumDefined, PickIn DEF Sum
<1> HIDE DEF c
<1>6. c # x
  BY <1>4, <1>5
<1>7. Sum(T \ {c}) = f[x] + Sum((T \ {c}) \ {x})
  BY <1>3, <1>4, <1>5, <1>6
<1>8. Sum(T \ {x}) = f[c] + Sum((T \ {x}) \ {c})
  BY <1>3, <1>4, <1>5, <1>6
<1>9. (T \ {c}) \ {x} = (T \ {x}) \ {c}
  OBVIOUS
<1>10. Sum((T \ {x}) \ {c}) \in Int
  BY FS_Subset, SumType DEF Sum
<1>11. f[x] \in Int /\ f[c] \in Int
  BY <1>5
<1>12. Sum(T) = f[c] + (f[x] + Sum((T \ {x}) \ {c}))
  BY <1>5, <1>7, <1>9
<1>13. f[c] + (f[x] + Sum((T \ {x}) \ {c})) = f[x] + (f[c] + Sum((T \ {x}) \ {c}))
  BY <1>10, <1>11
<1> QED BY <1>4, <1>8, <1>12, <1>13

(* The sum over one element more.                                          *)
LEMMA SumAdd ==
  ASSUME NEW f, NEW S, IsFiniteSet(S), NEW a, a \notin S, \A x \in S \cup {a} : f[x] \in Int
  PROVE  SumFunctionOnSet(f, S \cup {a}) = SumFunctionOnSet(f, S) + f[a]
<1>1. IsFiniteSet(S \cup {a}) /\ (S \cup {a}) \ {a} = S
  BY FS_AddElement
<1>2. SumFunctionOnSet(f, S \cup {a}) = f[a] + SumFunctionOnSet(f, S)
  BY <1>1, SumRemove
<1> QED BY <1>2, SumType

(* A sum of natural numbers is one.                                        *)
LEMMA SumNat ==
  ASSUME NEW f, NEW S, IsFiniteSet(S), \A x \in S : f[x] \in Nat
  PROVE  SumFunctionOnSet(f, S) \in Nat
<1> DEFINE B == {T \in SUBSET S : SumFunctionOnSet(f, T) \notin Nat}
<1>1. SUFFICES ASSUME B # {} PROVE FALSE
  OBVIOUS
<1>2. PICK T \in B : \A U \in SUBSET T : U # T => U \notin B
  <2>1. B \in SUBSET (SUBSET S)
    OBVIOUS
  <2> HIDE DEF B
  <2> QED BY <1>1, <2>1, MinimalSubset
<1>3. IsFiniteSet(T)
  BY FS_Subset
<1>4. SumFunctionOnSet(f, T) =
        IF T = {} THEN 0 ELSE f[Pick(T)] + SumFunctionOnSet(f, T \ {Pick(T)})
  BY <1>3, SumDefined
<1>5. T # {} => Pick(T) \in T /\ SumFunctionOnSet(f, T \ {Pick(T)}) \in Nat
  BY <1>2, PickIn
<1> QED BY <1>2, <1>4, <1>5

(* The sum depends on nothing but what is summed.                          *)
LEMMA SumEqual ==
  ASSUME NEW f, NEW g, NEW S, IsFiniteSet(S), \A x \in S : f[x] = g[x]
  PROVE  SumFunctionOnSet(f, S) = SumFunctionOnSet(g, S)
<1> DEFINE B == {T \in SUBSET S : SumFunctionOnSet(f, T) # SumFunctionOnSet(g, T)}
<1>1. SUFFICES ASSUME B # {} PROVE FALSE
  OBVIOUS
<1>2. PICK T \in B : \A U \in SUBSET T : U # T => U \notin B
  <2> HIDE DEF B
  <2>1. B \in SUBSET (SUBSET S)
    BY DEF B
  <2> QED BY <1>1, <2>1, MinimalSubset
<1>3. IsFiniteSet(T)
  BY FS_Subset
<1>4. /\ SumFunctionOnSet(f, T) =
           IF T = {} THEN 0 ELSE f[Pick(T)] + SumFunctionOnSet(f, T \ {Pick(T)})
      /\ SumFunctionOnSet(g, T) =
           IF T = {} THEN 0 ELSE g[Pick(T)] + SumFunctionOnSet(g, T \ {Pick(T)})
  BY <1>3, SumDefined
<1>5. T # {} => f[Pick(T)] = g[Pick(T)]
      /\ SumFunctionOnSet(f, T \ {Pick(T)}) = SumFunctionOnSet(g, T \ {Pick(T)})
  BY <1>2, PickIn
<1> QED BY <1>4, <1>5

(* A sum of nothing but zeros.                                             *)
LEMMA SumZero ==
  ASSUME NEW f, NEW S, IsFiniteSet(S), \A x \in S : f[x] = 0
  PROVE  SumFunctionOnSet(f, S) = 0
<1> DEFINE B == {T \in SUBSET S : SumFunctionOnSet(f, T) # 0}
<1>1. SUFFICES ASSUME B # {} PROVE FALSE
  OBVIOUS
<1>2. PICK T \in B : \A U \in SUBSET T : U # T => U \notin B
  <2> HIDE DEF B
  <2>1. B \in SUBSET (SUBSET S)
    BY DEF B
  <2> QED BY <1>1, <2>1, MinimalSubset
<1>3. IsFiniteSet(T)
  BY FS_Subset
<1>4. SumFunctionOnSet(f, T) =
        IF T = {} THEN 0 ELSE f[Pick(T)] + SumFunctionOnSet(f, T \ {Pick(T)})
  BY <1>3, SumDefined
<1>5. T # {} => f[Pick(T)] = 0 /\ SumFunctionOnSet(f, T \ {Pick(T)}) = 0
  BY <1>2, PickIn
<1> QED BY <1>4, <1>5

(* One summand changes.                                                    *)
LEMMA SumChange ==
  ASSUME NEW f, NEW g, NEW S, IsFiniteSet(S), NEW a \in S,
         \A x \in S : f[x] \in Int /\ g[x] \in Int, \A x \in S \ {a} : f[x] = g[x]
  PROVE  SumFunctionOnSet(g, S) = SumFunctionOnSet(f, S) + g[a] - f[a]
<1>1. IsFiniteSet(S \ {a})
  BY FS_Subset
<1>2. SumFunctionOnSet(f, S \ {a}) = SumFunctionOnSet(g, S \ {a})
  BY <1>1, SumEqual
<1>3. SumFunctionOnSet(f, S) = f[a] + SumFunctionOnSet(f, S \ {a})
  BY SumRemove
<1>4. SumFunctionOnSet(g, S) = g[a] + SumFunctionOnSet(g, S \ {a})
  BY SumRemove
<1>5. SumFunctionOnSet(f, S \ {a}) \in Int
  BY <1>1, SumType
<1> QED BY <1>2, <1>3, <1>4, <1>5

-----------------------------------------------------------------------------
(* Numbers and sequences *)

(* The smallest of some numbers.                                           *)
LEMMA MinIs ==
  ASSUME NEW S \in SUBSET Nat, S # {}
  PROVE  Min(S) \in S /\ \A t \in S : Min(S) <= t
<1>1. \E m \in S : \A t \in S : m <= t
  BY LeastNatural
<1> QED BY <1>1 DEF Min

(* Positions with one more.                                                *)
LEMMA OneMore ==
  ASSUME NEW n \in Nat
  PROVE  /\ 1 .. n + 1 = (1 .. n) \cup {n + 1}
         /\ \A j, k \in 1 .. n + 1 : j < k => j \in 1 .. n
OBVIOUS

(* An element added to the second of two sequences is added to both.       *)
LEMMA AppendToBoth ==
  ASSUME NEW S, NEW e \in Seq(S), NEW v \in Seq(S), NEW g \in S
  PROVE  e \o Append(v, g) = Append(e \o v, g)
<1>1. <<g>> \in Seq(S)
  OBVIOUS
<1>2. Append(v, g) = v \o <<g>>
  BY AppendIsConcat
<1>3. e \o v \in Seq(S)
  BY ConcatProperties
<1>4. Append(e \o v, g) = (e \o v) \o <<g>>
  BY <1>3, AppendIsConcat
<1> QED BY <1>1, <1>2, <1>4, ConcatAssociative

(* Where the elements of two sequences are when they are put together.     *)
LEMMA Joined ==
  ASSUME NEW S, NEW s \in Seq(S), NEW t \in Seq(S)
  PROVE  /\ Len(s) \in Nat /\ Len(t) \in Nat
         /\ s \o t \in Seq(S) /\ Len(s \o t) = Len(s) + Len(t)
         /\ \A k \in 1 .. Len(s) : (s \o t)[k] = s[k]
         /\ \A k \in 1 .. Len(t) : (s \o t)[Len(s) + k] = t[k]
<1>1. PICK m \in Nat, n \in Nat : m = Len(s) /\ n = Len(t)
  BY LenProperties
<1>2. PICK x \in Seq(S) :
        /\ x = s \o t /\ Len(x) = m + n
        /\ \A i \in 1 .. m + n : x[i] = IF i <= m THEN s[i] ELSE t[i - m]
  <2>1. /\ s \o t \in Seq(S) /\ Len(s \o t) = Len(s) + Len(t)
        /\ \A i \in 1 .. Len(s) + Len(t) : (s \o t)[i] = IF i <= Len(s) THEN s[i] ELSE t[i - Len(s)]
    BY ConcatProperties
  <2> QED BY <1>1, <2>1
<1>3. \A k \in 1 .. m : x[k] = s[k]
  BY <1>2
<1>4. ASSUME NEW k \in 1 .. n PROVE x[m + k] = t[k]
  <2>1. m + k \in 1 .. m + n /\ ~(m + k <= m) /\ (m + k) - m = k
    OBVIOUS
  <2> QED BY <1>2, <2>1
<1> QED BY <1>1, <1>2, <1>3, <1>4

(* The first of one sequence becomes the last of the one before it.        *)
LEMMA MoveHead ==
  ASSUME NEW S, NEW e \in Seq(S), NEW v \in Seq(S), v # <<>>
  PROVE  Append(e, Head(v)) \o Tail(v) = e \o v
<1>1. Head(v) \in S /\ Tail(v) \in Seq(S) /\ Len(Tail(v)) = Len(v) - 1
      /\ \A i \in 1 .. Len(Tail(v)) : Tail(v)[i] = v[i + 1]
  BY HeadTailProperties
<1>2. PICK h \in S, t \in Seq(S) : h = Head(v) /\ t = Tail(v)
  BY <1>1
<1>3. PICK m \in Nat, n \in Nat : m = Len(e) /\ n = Len(t)
  BY LenProperties
<1>4. Len(v) = n + 1 /\ \A i \in 1 .. n : t[i] = v[i + 1] /\ h = v[1]
  <2>1. Len(v) \in Nat /\ Len(v) # 0
    BY LenProperties, EmptySeq
  <2> QED BY <1>1, <1>2, <1>3, <2>1
<1>5. PICK a \in Seq(S) : /\ a = Append(e, h) /\ Len(a) = m + 1 /\ a[m + 1] = h
                               /\ \A i \in 1 .. m : a[i] = e[i]
  <2>1. /\ Append(e, h) \in Seq(S) /\ Len(Append(e, h)) = Len(e) + 1 /\ Append(e, h)[Len(e) + 1] = h
        /\ \A i \in 1 .. Len(e) : Append(e, h)[i] = e[i]
    BY AppendProperties
  <2> QED BY <1>3, <2>1
<1>6. PICK x \in Seq(S) : /\ x = a \o t /\ Len(x) = m + 1 + n
                               /\ \A i \in 1 .. m + 1 + n : x[i] = IF i <= m + 1 THEN a[i] ELSE t[i - (m + 1)]
  <2>1. /\ a \o t \in Seq(S) /\ Len(a \o t) = Len(a) + Len(t)
        /\ \A i \in 1 .. Len(a) + Len(t) : (a \o t)[i] = IF i <= Len(a) THEN a[i] ELSE t[i - Len(a)]
    BY ConcatProperties
  <2>2. Len(a) = m + 1 /\ Len(t) = n
    BY <1>3, <1>5
  <2> QED BY ZenonT(60), <2>1, <2>2
<1>7. PICK y \in Seq(S) : /\ y = e \o v /\ Len(y) = m + (n + 1)
                               /\ \A i \in 1 .. m + (n + 1) : y[i] = IF i <= m THEN e[i] ELSE v[i - m]
  <2>1. /\ e \o v \in Seq(S) /\ Len(e \o v) = Len(e) + Len(v)
        /\ \A i \in 1 .. Len(e) + Len(v) : (e \o v)[i] = IF i <= Len(e) THEN e[i] ELSE v[i - Len(e)]
    BY ConcatProperties
  <2>2. Len(e) = m /\ Len(v) = n + 1
    BY <1>3, <1>4
  <2> QED BY <2>1, <2>2
<1>8. ASSUME NEW i \in 1 .. m + 1 + n PROVE x[i] = y[i]
  <2>1. CASE i <= m
    <3>1. x[i] = a[i] /\ a[i] = e[i] /\ y[i] = e[i]
      BY <1>3, <1>5, <1>6, <1>7, <2>1
    <3> QED BY <3>1
  <2>2. CASE i = m + 1
    <3>1. x[i] = a[m + 1] /\ y[i] = v[1]
      <4>1. /\ m + 1 - m = 1 /\ ~(m + 1 <= m) /\ m + 1 <= m + 1
            /\ m + 1 \in 1 .. m + 1 + n /\ m + 1 \in 1 .. m + (n + 1)
        BY <1>3
      <4>2. x[m + 1] = a[m + 1]
        BY <1>6, <4>1
      <4>3. y[m + 1] = v[1]
        <5>1. PICK k \in 1 .. m + (n + 1) : k = m + 1 /\ ~(k <= m) /\ k - m = 1
          BY <1>3, <4>1
        <5>2. y[k] = v[k - m]
          BY <1>7, <5>1
        <5> QED BY <5>1, <5>2
      <4> QED BY <2>2, <4>2, <4>3
    <3>2. h = v[1]
      BY <1>2, <1>4
    <3> QED BY <1>5, <3>1, <3>2
  <2>3. CASE i > m + 1
    <3>1. PICK j \in 1 .. n : i - (m + 1) = j /\ i - m = j + 1 /\ ~(i <= m + 1) /\ ~(i <= m)
      <4>1. i - (m + 1) \in 1 .. n /\ i - m = (i - (m + 1)) + 1 /\ ~(i <= m + 1) /\ ~(i <= m)
        BY <1>3, <2>3
      <4> QED BY <4>1
    <3>2. x[i] = t[j] /\ y[i] = v[j + 1]
      <4>1. i \in 1 .. m + (n + 1)
        BY <1>3
      <4> QED BY <1>6, <1>7, <3>1, <4>1
    <3> QED BY <1>4, <3>1, <3>2
  <2> QED BY <1>3, <2>1, <2>2, <2>3
<1>9. Len(x) = Len(y)
  BY <1>3, <1>6, <1>7
<1>10. x = y
  BY <1>6, <1>8, <1>9, SeqEqual
<1> QED BY <1>2, <1>5, <1>6, <1>7, <1>10

-----------------------------------------------------------------------------
(* Sorting *)

(* Of two finite sets, the one within the other has fewer elements.        *)
LEMMA FewerElements ==
  ASSUME NEW T, IsFiniteSet(T), NEW U \in SUBSET T, NEW x \in T, x \notin U
  PROVE  IsFiniteSet(U) /\ Cardinality(U) \in Nat /\ Cardinality(T) \in Nat
         /\ Cardinality(U) < Cardinality(T)
<1>1. IsFiniteSet(U) /\ Cardinality(U) <= Cardinality(T) /\ Cardinality(U) # Cardinality(T)
  BY FS_Subset
<1>2. Cardinality(U) \in Nat /\ Cardinality(T) \in Nat
  BY <1>1, FS_CardinalityType
<1> QED BY <1>1, <1>2

(* R orders the elements of S one after another.                           *)
PutsInOrder(R, S) ==
  /\ \A a \in S : <<a, a>> \notin R
  /\ \A a, b, c \in S : <<a, b>> \in R /\ <<b, c>> \in R => <<a, c>> \in R
  /\ \A a, b \in S : a # b => <<a, b>> \in R \/ <<b, a>> \in R

Rank(R, S, a) == Cardinality({b \in S : <<b, a>> \in R})
EveryRank(R, S) == \A k \in 1 .. Cardinality(S) : \E a \in S : Rank(R, S, a) = k - 1

(* The elements before a are fewer than those before b exactly if a is     *)
(* before b, and there is one element for every number of elements before. *)
LEMMA Ranks ==
  ASSUME NEW S, IsFiniteSet(S), NEW R, PutsInOrder(R, S)
  PROVE  /\ Cardinality(S) \in Nat
         /\ \A a \in S : Rank(R, S, a) \in 0 .. Cardinality(S) - 1
         /\ \A a, b \in S : <<a, b>> \in R <=> Rank(R, S, a) < Rank(R, S, b)
         /\ \A a, b \in S : Rank(R, S, a) = Rank(R, S, b) => a = b
         /\ EveryRank(R, S)
<1> DEFINE before(a) == {b \in S : <<b, a>> \in R}
<1>1. PICK n \in Nat : n = Cardinality(S)
  BY FS_CardinalityType
<1>2. ASSUME NEW a \in S PROVE Rank(R, S, a) \in Nat /\ Rank(R, S, a) < n
  <2>1. before(a) \in SUBSET S /\ a \notin before(a)
    BY DEF PutsInOrder
  <2> HIDE DEF before
  <2>2. Cardinality(before(a)) \in Nat /\ Cardinality(before(a)) < n
    BY <1>1, <2>1, FewerElements
  <2> QED BY <2>2 DEF Rank, before
<1>3. ASSUME NEW a \in S, NEW b \in S, <<a, b>> \in R PROVE Rank(R, S, a) < Rank(R, S, b)
  <2>1. before(a) \in SUBSET before(b) /\ a \in before(b) /\ a \notin before(a)
    BY <1>3 DEF PutsInOrder
  <2>2. before(b) \in SUBSET S
    OBVIOUS
  <2> HIDE DEF before
  <2>3. IsFiniteSet(before(b))
    BY <2>2, FS_Subset
  <2>4. Cardinality(before(a)) < Cardinality(before(b))
    BY <2>1, <2>3, FewerElements
  <2> QED BY <2>4 DEF Rank, before
<1>4. ASSUME NEW a \in S, NEW b \in S, a # b PROVE Rank(R, S, a) # Rank(R, S, b)
  <2>1. <<a, b>> \in R \/ <<b, a>> \in R
    BY <1>4 DEF PutsInOrder
  <2> QED BY <2>1, <1>2, <1>3
<1>5. ASSUME NEW a \in S, NEW b \in S, Rank(R, S, a) < Rank(R, S, b) PROVE <<a, b>> \in R
  <2>1. a # b /\ ~(Rank(R, S, b) < Rank(R, S, a))
    BY <1>2, <1>5
  <2> QED BY <2>1, <1>3 DEF PutsInOrder
<1>6. ASSUME NEW k \in 1 .. n PROVE \E a \in S : Rank(R, S, a) = k - 1
  <2>1. PICK r : r = [a \in S |-> Rank(R, S, a)]
    OBVIOUS
  <2>2. r \in [S -> 0 .. n - 1]
    BY <1>2, <2>1
  <2>3. r \in Injection(S, 0 .. n - 1)
    BY <1>4, <2>1, <2>2 DEF Injection, IsInjective
  <2>4. IsFiniteSet(0 .. n - 1) /\ Cardinality(0 .. n - 1) = n
    BY FS_Interval
  <2>5. r \in Surjection(S, 0 .. n - 1)
    BY <1>1, <2>3, <2>4, FS_Injection
  <2>6. k - 1 \in 0 .. n - 1
    OBVIOUS
  <2>7. \E a \in S : r[a] = k - 1
    BY <2>5, <2>6 DEF Surjection
  <2> QED BY <2>1, <2>7
<1> QED BY <1>1, <1>2, <1>3, <1>4, <1>5, <1>6 DEF EveryRank

(* InOrder by R, of elements that R orders, and what it is.                *)
IsInOrder(q, R, S) ==
  /\ q \in [1 .. Cardinality(S) -> S]
  /\ \A j, k \in 1 .. Cardinality(S) : j < k <=> <<q[j], q[k]>> \in R
  /\ \A a \in S : \E k \in 1 .. Cardinality(S) : q[k] = a

LEMMA InOrderIs ==
  ASSUME NEW S, IsFiniteSet(S), NEW R, PutsInOrder(R, S),
         NEW q \in [1 .. Cardinality(S) -> S],
         \A k \in 1 .. Cardinality(S) : Rank(R, S, q[k]) = k - 1
  PROVE  IsInOrder(q, R, S)
<1>1. PICK n \in Nat : n = Cardinality(S)
  BY FS_CardinalityType
<1>2. \A k \in 1 .. n : q[k] \in S /\ Rank(R, S, q[k]) = k - 1
  BY <1>1
<1>3. q \in [1 .. n -> S]
  BY <1>1
<1>4. ASSUME NEW j \in 1 .. n, NEW k \in 1 .. n PROVE j < k <=> <<q[j], q[k]>> \in R
  <2>1. <<q[j], q[k]>> \in R <=> Rank(R, S, q[j]) < Rank(R, S, q[k])
    BY <1>2, Ranks
  <2>2. Rank(R, S, q[j]) = j - 1 /\ Rank(R, S, q[k]) = k - 1
    BY <1>2
  <2>3. j - 1 < k - 1 <=> j < k
    OBVIOUS
  <2> QED BY <2>1, <2>2, <2>3
<1>5. ASSUME NEW a \in S PROVE \E k \in 1 .. n : q[k] = a
  <2>1. PICK k \in 1 .. n : k - 1 = Rank(R, S, a)
    <3>1. Rank(R, S, a) \in 0 .. n - 1
      BY <1>1, Ranks
    <3>2. Rank(R, S, a) + 1 \in 1 .. n /\ (Rank(R, S, a) + 1) - 1 = Rank(R, S, a)
      BY <3>1
    <3> QED BY <3>2
  <2>2. q[k] \in S /\ Rank(R, S, q[k]) = Rank(R, S, a)
    BY <1>2, <2>1
  <2>3. q[k] = a
    BY <2>2, Ranks
  <2> QED BY <2>3
<1> QED BY <1>1, <1>3, <1>4, <1>5 DEF IsInOrder

(* There is one such order.                                                *)
LEMMA InOrderUnique ==
  ASSUME NEW S, IsFiniteSet(S), NEW R, PutsInOrder(R, S),
         NEW q, IsInOrder(q, R, S), NEW p, IsInOrder(p, R, S)
  PROVE  p = q
<1>1. PICK n \in Nat : n = Cardinality(S)
  BY FS_CardinalityType
<1>2. p \in [1 .. n -> S] /\ q \in [1 .. n -> S]
  BY <1>1 DEF IsInOrder
<1> DEFINE B == {k \in 1 .. n : p[k] # q[k]}
<1>3. SUFFICES ASSUME B # {} PROVE FALSE
  BY <1>2
<1>4. PICK m \in B : \A k \in B : m <= k
  <2>1. B \in SUBSET Nat
    OBVIOUS
  <2> QED BY <1>3, <2>1, LeastNatural
<1>5. \A k \in 1 .. m - 1 : p[k] = q[k]
  BY <1>4
<1>6. m \in 1 .. n /\ p[m] # q[m]
  BY <1>4
<1>7. PICK j \in 1 .. n : q[j] = p[m]
  BY <1>1, <1>2, <1>6 DEF IsInOrder
<1>8. PICK k \in 1 .. n : p[k] = q[m]
  BY <1>1, <1>2, <1>6 DEF IsInOrder
<1>9. j > m /\ k > m
  <2>1. j # m /\ k # m
    BY <1>6, <1>7, <1>8
  <2>2. ~(j < m)
    <3>1. SUFFICES ASSUME j < m PROVE FALSE
      OBVIOUS
    <3>2. p[j] = p[m]
      BY <1>5, <1>7, <3>1
    <3>3. <<p[j], p[m]>> \in R
      BY <1>1, <1>6, <3>1 DEF IsInOrder
    <3> QED BY <1>2, <1>6, <3>2, <3>3 DEF PutsInOrder
  <2>3. ~(k < m)
    <3>1. SUFFICES ASSUME k < m PROVE FALSE
      OBVIOUS
    <3>2. q[k] = q[m]
      BY <1>5, <1>8, <3>1
    <3>3. <<q[k], q[m]>> \in R
      BY <1>1, <1>6, <3>1 DEF IsInOrder
    <3> QED BY <1>2, <1>6, <3>2, <3>3 DEF PutsInOrder
  <2> QED BY <1>6, <2>1, <2>2, <2>3
<1>10. <<q[m], q[j]>> \in R
  BY <1>1, <1>6, <1>9 DEF IsInOrder
<1>11. <<p[m], p[k]>> \in R
  BY <1>1, <1>6, <1>9 DEF IsInOrder
<1>12. <<q[m], p[m]>> \in R /\ <<p[m], q[m]>> \in R
  BY <1>7, <1>8, <1>10, <1>11
<1> QED BY <1>2, <1>6, <1>12 DEF PutsInOrder

(* The numbers of a set, each after those below it.                        *)
Ascending(p, c, S) ==
  /\ p \in [1 .. c -> S]
  /\ \A j, k \in 1 .. c : j < k <=> p[j] < p[k]
  /\ \A a \in S : \E k \in 1 .. c : p[k] = a

(* InOrder is ascending.                                                   *)
LEMMA Increasing ==
  ASSUME NEW S \in SUBSET Int, IsFiniteSet(S)
  PROVE  Cardinality(S) \in Nat /\ Ascending(InOrder(S), Cardinality(S), S)
<1> DEFINE R == {ab \in S \X S : ab[1] < ab[2]}
<1>1. \A a, b \in S : <<a, b>> \in R <=> a < b
  OBVIOUS
<1> HIDE DEF R
<1>2. PutsInOrder(R, S)
  BY <1>1 DEF PutsInOrder
<1>3. \A a \in S : {b \in S : b < a} = {b \in S : <<b, a>> \in R}
  BY <1>1
<1>4. PICK q : q = InOrder(S)
  OBVIOUS
<1>5. q = [k \in 1 .. Cardinality(S) |-> CHOOSE a \in S : Cardinality({b \in S : b < a}) = k - 1]
  BY <1>4 DEF InOrder
<1>6. \A k \in 1 .. Cardinality(S) : q[k] \in S /\ Rank(R, S, q[k]) = k - 1
  <2>1. SUFFICES ASSUME NEW k \in 1 .. Cardinality(S) PROVE q[k] \in S /\ Rank(R, S, q[k]) = k - 1
    OBVIOUS
  <2>2. \E a \in S : Rank(R, S, a) = k - 1
    <3>1. EveryRank(R, S)
      BY <1>2, Ranks
    <3> QED BY <3>1 DEF EveryRank
  <2>3. \A a \in S : Rank(R, S, a) = Cardinality({b \in S : b < a})
    BY <1>3 DEF Rank
  <2>4. \E a \in S : Cardinality({b \in S : b < a}) = k - 1
    BY <2>2, <2>3
  <2>5. q[k] = CHOOSE a \in S : Cardinality({b \in S : b < a}) = k - 1
    BY <1>5
  <2>6. q[k] \in S /\ Cardinality({b \in S : b < q[k]}) = k - 1
    BY <2>4, <2>5
  <2> QED BY <2>3, <2>6
<1>7. q \in [1 .. Cardinality(S) -> S]
  BY <1>5, <1>6
<1>8. IsInOrder(q, R, S)
  BY <1>2, <1>6, <1>7, InOrderIs
<1>9. Cardinality(S) \in Nat
  BY FS_CardinalityType
<1>10. \A j, k \in 1 .. Cardinality(S) : j < k <=> q[j] < q[k]
  BY <1>1, <1>8 DEF IsInOrder
<1>11. Ascending(q, Cardinality(S), S)
  BY <1>8, <1>10 DEF IsInOrder, Ascending
<1> QED BY <1>4, <1>9, <1>11

(* The only one.                                                           *)
LEMMA IncreasingUnique ==
  ASSUME NEW S \in SUBSET Int, IsFiniteSet(S), NEW p, Ascending(p, Cardinality(S), S)
  PROVE  p = InOrder(S)
<1> DEFINE R == {ab \in S \X S : ab[1] < ab[2]}
<1>1. \A a, b \in S : <<a, b>> \in R <=> a < b
  OBVIOUS
<1> HIDE DEF R
<1>2. PutsInOrder(R, S)
  BY <1>1 DEF PutsInOrder
<1>3. IsInOrder(p, R, S)
  BY <1>1 DEF IsInOrder, Ascending
<1>4. IsInOrder(InOrder(S), R, S)
  <2>1. PICK q : q = InOrder(S)
    OBVIOUS
  <2>2. Ascending(q, Cardinality(S), S)
    BY <2>1, Increasing
  <2>3. IsInOrder(q, R, S)
    BY <1>1, <2>2 DEF IsInOrder, Ascending
  <2> QED BY <2>1, <2>3
<1> QED BY <1>2, <1>3, <1>4, InOrderUnique

(* What is picked from a sequence at some positions.                       *)
LEMMA PickedIs ==
  ASSUME NEW E, NEW s \in Seq(E), NEW at \in SUBSET (1 .. Len(s))
  PROVE  /\ IsFiniteSet(at) /\ Cardinality(at) \in Nat
         /\ Picked(s, at) \in Seq(E) /\ Len(Picked(s, at)) = Cardinality(at)
         /\ \E p : /\ Ascending(p, Cardinality(at), at)
                  /\ \A k \in 1 .. Cardinality(at) : Picked(s, at)[k] = s[p[k]]
<1>1. PICK n \in Nat : n = Len(s)
  BY LenProperties
<1>2. IsFiniteSet(at)
  <2>1. IsFiniteSet(1 .. n)
    BY FS_Interval
  <2> QED BY <1>1, <2>1, FS_Subset
<1>3. PICK c \in Nat : c = Cardinality(at)
  BY <1>2, FS_CardinalityType
<1>4. PICK p : p = InOrder(at)
  OBVIOUS
<1>5. Ascending(p, c, at)
  <2>1. at \in SUBSET Int
    OBVIOUS
  <2> QED BY <1>2, <1>3, <1>4, <2>1, Increasing
<1>6. PICK q : q = Picked(s, at)
  OBVIOUS
<1>7. q = [k \in 1 .. c |-> s[p[k]]]
  BY <1>3, <1>4, <1>6 DEF Picked
<1>8. \A a \in at : s[a] \in E
  BY <1>1, ElementOfSeq
<1>9. q \in Seq(E) /\ Len(q) = c
  <2>1. q \in [1 .. c -> E]
    BY <1>5, <1>7, <1>8 DEF Ascending
  <2> QED BY <2>1
<1>10. \A k \in 1 .. c : q[k] = s[p[k]]
  BY <1>7
<1> QED BY <1>2, <1>3, <1>5, <1>6, <1>9, <1>10

(* What is picked is determined by where it is, in increasing order.       *)
LEMMA PickedUnique ==
  ASSUME NEW E, NEW s \in Seq(E), NEW at \in SUBSET (1 .. Len(s)),
         NEW c \in Nat, NEW p, Ascending(p, c, at)
  PROVE  Cardinality(at) = c /\ Picked(s, at) = [k \in 1 .. c |-> s[p[k]]]
<1>0. /\ p \in [1 .. c -> at] /\ \A j, k \in 1 .. c : j < k <=> p[j] < p[k]
      /\ \A a \in at : \E k \in 1 .. c : p[k] = a
  BY DEF Ascending
<1>1. p \in Bijection(1 .. c, at)
  <2>1. \A j, k \in 1 .. c : p[j] = p[k] => j = k
    <3>1. SUFFICES ASSUME NEW j \in 1 .. c, NEW k \in 1 .. c, p[j] = p[k] PROVE j = k
      OBVIOUS
    <3>2. p[j] \in Int /\ p[k] \in Int
      <4>1. \A a \in at : a \in Int
        OBVIOUS
      <4> QED BY <1>0, <4>1
    <3>3. ~(j < k) /\ ~(k < j)
      BY <1>0, <3>1, <3>2
    <3> QED BY <3>3
  <2> QED BY <1>0, <2>1 DEF Bijection, Injection, Surjection, IsInjective
<1>2. Cardinality(at) = c
  <2>1. ExistsBijection(1 .. c, at)
    BY <1>1 DEF ExistsBijection
  <2> QED BY <2>1, FS_CountingElements
<1>3. at \in SUBSET Int /\ IsFiniteSet(at)
  BY PickedIs
<1>4. p = InOrder(at)
  BY <1>2, <1>3, IncreasingUnique
<1> QED BY <1>2, <1>4 DEF Picked

(* More elements at the end of which none is picked.                       *)
LEMMA PickedSame ==
  ASSUME NEW E, NEW s \in Seq(E), NEW t \in Seq(E), Len(s) <= Len(t),
         \A k \in 1 .. Len(s) : t[k] = s[k], NEW at \in SUBSET (1 .. Len(s))
  PROVE  Picked(t, at) = Picked(s, at)
<1>1. PICK p : p = InOrder(at)
  OBVIOUS
<1>2. PICK c \in Nat : c = Cardinality(at)
  BY PickedIs
<1>3. p \in [1 .. c -> at]
  <2>1. at \in SUBSET Int /\ IsFiniteSet(at)
    BY PickedIs
  <2>2. Ascending(p, c, at)
    BY <1>1, <1>2, <2>1, Increasing
  <2> QED BY <2>2 DEF Ascending
<1>4. \A k \in 1 .. c : t[p[k]] = s[p[k]]
  BY <1>3
<1>5. [k \in 1 .. c |-> t[p[k]]] = [k \in 1 .. c |-> s[p[k]]]
  BY <1>4
<1> QED BY <1>1, <1>2, <1>5 DEF Picked

(* One more element that is picked.                                        *)
LEMMA PickedOneMore ==
  ASSUME NEW E, NEW s \in Seq(E), NEW e \in E, NEW at \in SUBSET (1 .. Len(s))
  PROVE  Picked(Append(s, e), at \cup {Len(s) + 1}) = Append(Picked(s, at), e)
<1>1. PICK n \in Nat : n = Len(s)
  BY LenProperties
<1>2. PICK t \in Seq(E) : t = Append(s, e) /\ Len(t) = n + 1 /\ t[n + 1] = e
                          /\ \A i \in 1 .. n : t[i] = s[i]
  <2>1. /\ Append(s, e) \in Seq(E) /\ Len(Append(s, e)) = Len(s) + 1 /\ Append(s, e)[Len(s) + 1] = e
        /\ \A i \in 1 .. Len(s) : Append(s, e)[i] = s[i]
    BY AppendProperties
  <2> QED BY <1>1, <2>1
<1>3. PICK c \in Nat : c = Cardinality(at)
  BY PickedIs
<1>4. PICK q \in Seq(E) : q = Picked(s, at) /\ Len(q) = c
  BY <1>3, PickedIs
<1>5. PICK p : Ascending(p, c, at) /\ \A k \in 1 .. c : q[k] = s[p[k]]
  BY SMTT(20), <1>3, <1>4, PickedIs
<1>51. /\ p \in [1 .. c -> at] /\ \A j, k \in 1 .. c : j < k <=> p[j] < p[k]
       /\ \A a \in at : \E k \in 1 .. c : p[k] = a
  BY <1>5 DEF Ascending
<1>6. PICK more : more = at \cup {n + 1}
  OBVIOUS
<1>7. more \in SUBSET (1 .. n + 1) /\ \A a \in at : a \in 1 .. n
  <2>1. \A a \in at : a \in 1 .. n
    BY <1>1
  <2>2. \A a \in 1 .. n : a \in 1 .. n + 1
    OBVIOUS
  <2>3. n + 1 \in 1 .. n + 1
    OBVIOUS
  <2> QED BY <1>6, <2>1, <2>2, <2>3
<1>8. PICK r : r = [k \in 1 .. c + 1 |-> IF k = c + 1 THEN n + 1 ELSE p[k]]
  OBVIOUS
<1>9. r \in [1 .. c + 1 -> more]
  <2>1. \A k \in 1 .. c + 1 : k # c + 1 => k \in 1 .. c
    OBVIOUS
  <2> QED BY <1>51, <1>6, <1>8, <2>1
<1>10. \A j, k \in 1 .. c + 1 : j < k <=> r[j] < r[k]
  <2>1. SUFFICES ASSUME NEW j \in 1 .. c + 1, NEW k \in 1 .. c + 1 PROVE j < k <=> r[j] < r[k]
    OBVIOUS
  <2>2. CASE j = c + 1 /\ k = c + 1
    BY <1>8, <2>2
  <2>3. CASE j = c + 1 /\ k # c + 1
    <3>1. k \in 1 .. c /\ k < j /\ r[k] = p[k] /\ r[j] = n + 1
      BY <1>8, <2>3
    <3>2. p[k] \in 1 .. n
      BY <1>51, <1>7, <3>1
    <3> QED BY <3>1, <3>2
  <2>4. CASE j # c + 1 /\ k = c + 1
    <3>1. j \in 1 .. c /\ j < k /\ r[j] = p[j] /\ r[k] = n + 1
      BY <1>8, <2>4
    <3>2. p[j] \in 1 .. n
      BY <1>51, <1>7, <3>1
    <3> QED BY <3>1, <3>2
  <2>5. CASE j # c + 1 /\ k # c + 1
    <3>1. j \in 1 .. c /\ k \in 1 .. c /\ r[j] = p[j] /\ r[k] = p[k]
      BY <1>8, <2>5
    <3> QED BY <1>51, <3>1
  <2> QED BY <2>2, <2>3, <2>4, <2>5
<1>11. \A a \in more : \E k \in 1 .. c + 1 : r[k] = a
  <2>1. SUFFICES ASSUME NEW a \in more PROVE \E k \in 1 .. c + 1 : r[k] = a
    OBVIOUS
  <2>2. CASE a = n + 1
    <3>1. c + 1 \in 1 .. c + 1 /\ r[c + 1] = n + 1
      BY <1>8
    <3> QED BY <2>2, <3>1
  <2>3. CASE a # n + 1
    <3>1. PICK k \in 1 .. c : p[k] = a
      BY <1>51, <1>6, <2>3
    <3>2. k \in 1 .. c + 1 /\ k # c + 1
      OBVIOUS
    <3> QED BY <1>8, <3>1, <3>2
  <2> QED BY <2>2, <2>3
<1>12. Picked(t, more) = [k \in 1 .. c + 1 |-> t[r[k]]]
  <2>1. c + 1 \in Nat /\ more \in SUBSET (1 .. Len(t))
    BY <1>2, <1>7
  <2>2. Ascending(r, c + 1, more)
    BY <1>9, <1>10, <1>11 DEF Ascending
  <2> QED BY <2>1, <2>2, PickedUnique
<1>13. PICK x \in Seq(E) : x = Picked(t, more) /\ Len(x) = c + 1 /\ x[c + 1] = e
                           /\ \A k \in 1 .. c : x[k] = q[k]
  <2>1. \A k \in 1 .. c : k \in 1 .. c + 1 /\ r[k] = p[k] /\ t[r[k]] = s[p[k]]
    <3>1. SUFFICES ASSUME NEW k \in 1 .. c
                   PROVE  k \in 1 .. c + 1 /\ r[k] = p[k] /\ t[r[k]] = s[p[k]]
      OBVIOUS
    <3>2. k \in 1 .. c + 1 /\ k # c + 1
      OBVIOUS
    <3>3. r[k] = p[k] /\ p[k] \in 1 .. n
      BY <1>51, <1>7, <1>8, <3>2
    <3> QED BY <1>2, <3>2, <3>3
  <2>2. c + 1 \in 1 .. c + 1 /\ t[r[c + 1]] = e
    BY <1>2, <1>8
  <2>3. \A k \in 1 .. c + 1 : t[r[k]] \in E
    <3>1. SUFFICES ASSUME NEW k \in 1 .. c + 1 PROVE t[r[k]] \in E
      OBVIOUS
    <3>2. r[k] \in 1 .. n + 1
      BY <1>7, <1>9
    <3> QED BY <1>2, <3>2, ElementOfSeq
  <2>4. PICK x : x = [k \in 1 .. c + 1 |-> t[r[k]]]
    OBVIOUS
  <2>5. x \in [1 .. c + 1 -> E]
    BY <2>3, <2>4
  <2>6. x \in Seq(E) /\ Len(x) = c + 1
    BY <2>5
  <2>7. x[c + 1] = e /\ \A k \in 1 .. c : x[k] = q[k]
    BY <1>5, <2>1, <2>2, <2>4
  <2> QED BY <1>12, <2>4, <2>6, <2>7
<1>14. PICK y \in Seq(E) : y = Append(q, e) /\ Len(y) = c + 1 /\ y[c + 1] = e
                           /\ \A i \in 1 .. c : y[i] = q[i]
  <2>1. /\ Append(q, e) \in Seq(E) /\ Len(Append(q, e)) = Len(q) + 1 /\ Append(q, e)[Len(q) + 1] = e
        /\ \A i \in 1 .. Len(q) : Append(q, e)[i] = q[i]
    BY AppendProperties
  <2> QED BY <1>4, <2>1
<1>15. x = y
  <2>1. \A i \in 1 .. c + 1 : x[i] = y[i]
    <3>1. \A i \in 1 .. c + 1 : i = c + 1 \/ i \in 1 .. c
      OBVIOUS
    <3> QED BY <1>13, <1>14, <3>1
  <2> QED BY <1>13, <1>14, <2>1, SeqEqual
<1> QED BY <1>1, <1>2, <1>4, <1>6, <1>13, <1>14, <1>15

(* The order of a stable sort by the keys of positions.                    *)
SortsBy(p, key, n) ==
  /\ p \in [1 .. n -> 1 .. n]
  /\ \A j, k \in 1 .. n : j < k => key[p[j]] < key[p[k]] \/ (key[p[j]] = key[p[k]] /\ p[j] < p[k])
  /\ \A a \in 1 .. n : \E k \in 1 .. n : p[k] = a

StableOrder(key, n) ==
  {ab \in (1 .. n) \X (1 .. n) :
     key[ab[1]] < key[ab[2]] \/ (key[ab[1]] = key[ab[2]] /\ ab[1] < ab[2])}

(* It puts positions one after another.                                    *)
LEMMA StableOrderIs ==
  ASSUME NEW n \in Nat, NEW key \in [1 .. n -> Int]
  PROVE  /\ \A a, b \in 1 .. n : <<a, b>> \in StableOrder(key, n) <=>
                                   key[a] < key[b] \/ (key[a] = key[b] /\ a < b)
         /\ PutsInOrder(StableOrder(key, n), 1 .. n)
<1>1. \A a, b \in 1 .. n : <<a, b>> \in StableOrder(key, n) <=>
                             key[a] < key[b] \/ (key[a] = key[b] /\ a < b)
  BY DEF StableOrder
<1>2. \A a \in 1 .. n : key[a] \in Int
  OBVIOUS
<1> QED BY <1>1, <1>2 DEF PutsInOrder

(* The order that SortedBy takes.                                          *)
LEMMA SortOrder ==
  ASSUME NEW n \in Nat, NEW key \in [1 .. n -> Int]
  PROVE  IsInOrder(OrderBy(key), StableOrder(key, n), 1 .. n)
<1> DEFINE S == 1 .. n
           R == StableOrder(key, n)
<1>1. IsFiniteSet(S) /\ Cardinality(S) = n
  BY FS_Interval
<1>2. /\ \A a, b \in S : <<a, b>> \in R <=> key[a] < key[b] \/ (key[a] = key[b] /\ a < b)
      /\ PutsInOrder(R, S)
  BY StableOrderIs
<1>3. PICK q : q = OrderBy(key)
  OBVIOUS
<1>4. q = [k \in 1 .. Cardinality(S) |->
             CHOOSE a \in S : Cardinality({b \in S : key[b] < key[a] \/ (key[b] = key[a] /\ b < a)}) = k - 1]
  <2>1. DOMAIN key = S
    OBVIOUS
  <2>2. 1 .. Cardinality(S) = S
    BY <1>1
  <2> HIDE DEF S
  <2> QED BY <1>3, <2>1, <2>2 DEF OrderBy
<1> HIDE DEF S, R
<1>5. \A a \in S : Rank(R, S, a) = Cardinality({b \in S : key[b] < key[a] \/ (key[b] = key[a] /\ b < a)})
  <2>1. \A a \in S : {b \in S : key[b] < key[a] \/ (key[b] = key[a] /\ b < a)} = {b \in S : <<b, a>> \in R}
    BY <1>2
  <2> QED BY <2>1 DEF Rank
<1>6. \A k \in 1 .. Cardinality(S) : q[k] \in S /\ Rank(R, S, q[k]) = k - 1
  <2>1. SUFFICES ASSUME NEW k \in 1 .. Cardinality(S) PROVE q[k] \in S /\ Rank(R, S, q[k]) = k - 1
    OBVIOUS
  <2>2. EveryRank(R, S)
    BY <1>1, <1>2, Ranks
  <2>3. \E a \in S : Rank(R, S, a) = k - 1
    BY <2>2 DEF EveryRank
  <2>4. \E a \in S : Cardinality({b \in S : key[b] < key[a] \/ (key[b] = key[a] /\ b < a)}) = k - 1
    BY <1>5, <2>3
  <2>5. q[k] = CHOOSE a \in S : Cardinality({b \in S : key[b] < key[a] \/ (key[b] = key[a] /\ b < a)}) = k - 1
    BY <1>4
  <2>6. q[k] \in S /\ Cardinality({b \in S : key[b] < key[q[k]] \/ (key[b] = key[q[k]] /\ b < q[k])}) = k - 1
    BY <2>4, <2>5
  <2> QED BY <1>5, <2>6
<1>7. q \in [1 .. Cardinality(S) -> S]
  BY <1>4, <1>6
<1>8. IsInOrder(q, R, S)
  BY <1>1, <1>2, <1>6, <1>7, InOrderIs
<1> QED BY <1>3, <1>8 DEF S, R

(* What sorting returns.                                                   *)
LEMMA SortedByIs ==
  ASSUME NEW E, NEW s \in Seq(E), NEW key \in [1 .. Len(s) -> Int]
  PROVE  /\ SortedBy(s, key) \in Seq(E) /\ Len(SortedBy(s, key)) = Len(s)
         /\ \E p : /\ SortsBy(p, key, Len(s))
                  /\ \A k \in 1 .. Len(s) : SortedBy(s, key)[k] = s[p[k]]
<1>1. PICK n \in Nat : n = Len(s) /\ DOMAIN s = 1 .. n
  BY LenProperties
<1>2. key \in [1 .. n -> Int]
  BY <1>1
<1>3. PICK p : p = OrderBy(key)
  OBVIOUS
<1>4. IsInOrder(p, StableOrder(key, n), 1 .. n)
  BY <1>2, <1>3, SortOrder
<1>5. Cardinality(1 .. n) = n
  BY FS_Interval
<1>6. /\ p \in [1 .. n -> 1 .. n]
      /\ \A j, k \in 1 .. n : j < k <=> <<p[j], p[k]>> \in StableOrder(key, n)
      /\ \A a \in 1 .. n : \E k \in 1 .. n : p[k] = a
  BY <1>4, <1>5 DEF IsInOrder
<1>7. SortsBy(p, key, n)
  <2>1. \A a, b \in 1 .. n : <<a, b>> \in StableOrder(key, n) <=>
                                   key[a] < key[b] \/ (key[a] = key[b] /\ a < b)
    BY <1>2, StableOrderIs
  <2>2. \A k \in 1 .. n : p[k] \in 1 .. n
    BY <1>6
  <2> QED BY <1>6, <2>1, <2>2 DEF SortsBy
<1>8. PICK t : t = SortedBy(s, key)
  OBVIOUS
<1>9. t = [k \in 1 .. n |-> s[p[k]]]
  BY <1>1, <1>3, <1>8 DEF SortedBy
<1>10. \A k \in 1 .. n : s[p[k]] \in E
  BY <1>1, <1>6, ElementOfSeq
<1>11. t \in Seq(E) /\ Len(t) = n
  <2>1. t \in [1 .. n -> E]
    BY <1>9, <1>10
  <2> QED BY <2>1
<1>12. \A k \in 1 .. n : t[k] = s[p[k]]
  BY <1>9
<1> QED BY <1>1, <1>7, <1>8, <1>11, <1>12

(* What is sorted already stays as it is.                                  *)
LEMMA SortedAlready ==
  ASSUME NEW E, NEW s \in Seq(E), NEW key \in [1 .. Len(s) -> Int],
         \A j, k \in 1 .. Len(s) : j < k => key[j] <= key[k]
  PROVE  SortedBy(s, key) = s
<1>1. PICK n \in Nat : n = Len(s) /\ DOMAIN s = 1 .. n
  BY LenProperties
<1>2. key \in [1 .. n -> Int] /\ \A j, k \in 1 .. n : j < k => key[j] <= key[k]
  BY <1>1
<1>3. PICK p : p = OrderBy(key)
  OBVIOUS
<1>4. IsInOrder(p, StableOrder(key, n), 1 .. n)
  BY <1>2, <1>3, SortOrder
<1>5. PICK q : q = [k \in 1 .. n |-> k]
  OBVIOUS
<1>6. IsInOrder(q, StableOrder(key, n), 1 .. n)
  <2>1. Cardinality(1 .. n) = n
    BY FS_Interval
  <2>2. \A a, b \in 1 .. n : <<a, b>> \in StableOrder(key, n) <=>
                               key[a] < key[b] \/ (key[a] = key[b] /\ a < b)
    BY <1>2, StableOrderIs
  <2>3. \A k \in 1 .. n : q[k] = k /\ key[k] \in Int
    BY <1>2, <1>5
  <2>4. \A j, k \in 1 .. n : j < k <=> <<q[j], q[k]>> \in StableOrder(key, n)
    <3>1. SUFFICES ASSUME NEW j \in 1 .. n, NEW k \in 1 .. n
                   PROVE  j < k <=> key[j] < key[k] \/ (key[j] = key[k] /\ j < k)
      BY <2>2, <2>3
    <3>2. key[j] \in Int /\ key[k] \in Int
      BY <2>3
    <3>3. k < j => key[k] <= key[j]
      BY <1>2
    <3>4. j < k => key[j] <= key[k]
      BY <1>2
    <3> QED BY <3>2, <3>3, <3>4
  <2>5. q \in [1 .. n -> 1 .. n] /\ \A a \in 1 .. n : \E k \in 1 .. n : q[k] = a
    BY <1>5
  <2> QED BY <2>1, <2>4, <2>5 DEF IsInOrder
<1>7. p = q
  <2>1. IsFiniteSet(1 .. n)
    BY FS_Interval
  <2>2. PutsInOrder(StableOrder(key, n), 1 .. n)
    BY <1>2, StableOrderIs
  <2> QED BY <1>4, <1>6, <2>1, <2>2, InOrderUnique
<1>8. PICK t : t = SortedBy(s, key)
  OBVIOUS
<1>9. t = [k \in 1 .. n |-> s[p[k]]]
  BY <1>1, <1>3, <1>8 DEF SortedBy
<1>10. t = [k \in 1 .. n |-> s[k]]
  <2>1. \A k \in 1 .. n : s[p[k]] = s[k]
    BY <1>5, <1>7
  <2> QED BY <1>9, <2>1
<1>11. s = [k \in 1 .. n |-> s[k]]
  BY <1>1
<1> QED BY <1>8, <1>10, <1>11

(* The least element of some integers that are finitely many.              *)
LEMMA MinOfInts ==
  ASSUME NEW S \in SUBSET Int, IsFiniteSet(S), S # {}
  PROVE  Min(S) \in S /\ \A t \in S : Min(S) <= t
<1>1. PICK c \in Nat : c = Cardinality(S)
  BY FS_CardinalityType
<1>2. c # 0
  BY <1>1, FS_EmptySet
<1>3. PICK p : Ascending(p, c, S)
  BY <1>1, Increasing
<1>4. p[1] \in S /\ \A t \in S : p[1] <= t
  <2>1. 1 \in 1 .. c
    BY <1>2
  <2>2. p[1] \in S
    BY <1>3, <2>1 DEF Ascending
  <2>3. ASSUME NEW t \in S PROVE p[1] <= t
    <3>1. PICK k \in 1 .. c : p[k] = t
      BY <1>3 DEF Ascending
    <3>2. k = 1 \/ p[1] < p[k]
      BY <1>3, <2>1 DEF Ascending
    <3>3. p[1] \in Int /\ p[k] \in Int
      BY <2>2, <3>1
    <3> QED BY <3>1, <3>2, <3>3
  <2> QED BY <2>2, <2>3
<1> QED BY <1>4 DEF Min

=============================================================================
