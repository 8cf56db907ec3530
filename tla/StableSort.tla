------------------------------ MODULE StableSort ------------------------------
(***************************************************************************)
(* What Python's sorted and list.sort do, which every listing ends in: the *)
(* elements ascend by their keys, and of two with equal keys the one that  *)
(* came first still does.                                                  *)
(*                                                                         *)
(* A sort is given by the order it puts the positions 1..n in; before has  *)
(* the pairs of positions of which the first one has the lesser key.       *)
(***************************************************************************)
EXTENDS Integers, FiniteSets

StableOrders(n, before) ==
  {order \in [1..n -> 1..n] :
    /\ \A k \in 1..n : \E i \in 1..n : order[i] = k
    /\ \A i, j \in 1..n : i < j =>
         /\ <<order[j], order[i]>> \notin before
         /\ <<order[i], order[j]>> \in before \/ order[i] < order[j]}

\* There is exactly one.
StableOrder(n, before) == CHOOSE order \in StableOrders(n, before) : TRUE

\* A finite set of numbers as a sequence: all of them, ascending.
Ascending(S) ==
  CHOOSE s \in [1..Cardinality(S) -> S] :
    /\ \A x \in S : \E i \in 1..Cardinality(S) : s[i] = x
    /\ \A i, j \in 1..Cardinality(S) : i < j => s[i] < s[j]
=============================================================================
