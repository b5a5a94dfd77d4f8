------------------------------ MODULE Sorting ------------------------------
(***************************************************************************)
(* Lists of Python that are sorted, or of which a part is taken.           *)
(***************************************************************************)
EXTENDS Integers, FiniteSets, Sequences

(* The numbers of a finite set, each after those below it.                 *)
InOrder(S) ==
  [k \in 1 .. Cardinality(S) |-> CHOOSE a \in S : Cardinality({b \in S : b < a}) = k - 1]

(* Positions by their keys; of those with the same key the first is first. *)
OrderBy(key) ==
  LET before(a) == {b \in DOMAIN key : key[b] < key[a] \/ (key[b] = key[a] /\ b < a)}
  IN [k \in DOMAIN key |-> CHOOSE a \in DOMAIN key : Cardinality(before(a)) = k - 1]

(* list.sort with a key, which is stable: key is one of every position.    *)
SortedBy(s, key) == LET order == OrderBy(key) IN [k \in DOMAIN s |-> s[order[k]]]

(* What a list has at some of its positions: a comprehension with a        *)
(* condition.                                                              *)
Picked(s, at) ==
  LET order == InOrder(at) IN [k \in 1 .. Cardinality(at) |-> s[order[k]]]

=============================================================================
