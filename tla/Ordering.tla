------------------------------- MODULE Ordering -------------------------------
(***************************************************************************)
(* Sorted lists. Python's sort is stable, where SortSeq of module TLC is   *)
(* defined only for elements that the comparison tells apart.              *)
(***************************************************************************)
EXTENDS Integers, Sequences, FiniteSets

\* The elements of DOMAIN before, by how many of them come before each.
Listed(before) ==
  [n \in 1..Cardinality(DOMAIN before) |-> CHOOSE x \in DOMAIN before : before[x] = n - 1]

Ascending(S) == Listed([x \in S |-> Cardinality({y \in S : y < x})])

\* Which element comes first, second, ... when a list is sorted by its keys, a
\* function on its positions: of equal keys, the one that was first.
Order(key) ==
  Listed([k \in DOMAIN key |->
    Cardinality({j \in DOMAIN key : key[j] < key[k] \/ (key[j] = key[k] /\ j < k)})])

SortedBy(seq, key) == LET o == Order(key) IN [k \in DOMAIN seq |-> seq[o[k]]]
=============================================================================
