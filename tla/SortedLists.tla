----------------------------- MODULE SortedLists -----------------------------
(* The lists the accuracy scripts work through: the files of a class, the     *)
(* clips of a split, always in the order of their names.  What is listed is   *)
(* numbered in that order.                                                    *)
EXTENDS Naturals, FiniteSets

InOrder(H) == CHOOSE s \in [1..Cardinality(H) -> H] : \A i, j \in DOMAIN s : i < j => s[i] < s[j]
=============================================================================
