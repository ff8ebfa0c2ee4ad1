------------------------------ MODULE Positions ------------------------------
(***************************************************************************)
(* Elements of a sequence by their positions: those at the positions of a  *)
(* set, in their order, and positions in the order of a weight, equal ones *)
(* staying as they are, as the stable sorts of the code leave them.  A     *)
(* position comes n-th when n of the set come no later.                    *)
(***************************************************************************)
EXTENDS Integers, FiniteSets

\* What comes no later than i in K: the heavier, and equal ones before it.
NoLater(K, weight, i) ==
  {j \in K : weight[j] > weight[i] \/ (weight[j] = weight[i] /\ j <= i)}

\* sorted(K, key=weight, reverse=True)
Ranked(K, weight) ==
  [n \in 1..Cardinality(K) |-> CHOOSE i \in K : Cardinality(NoLater(K, weight, i)) = n]

Sorted(K) == Ranked(K, [i \in K |-> 0])

Those(s, K) == [n \in 1..Cardinality(K) |-> s[Sorted(K)[n]]]

=============================================================================
