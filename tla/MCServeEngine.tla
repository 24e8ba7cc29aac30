---------------------------- MODULE MCServeEngine ----------------------------
(* ServeEngine on small instances. *)
EXTENDS ServeEngine, TLC

Symmetry == Permutations(Clients) \cup Permutations(Workers) \cup Permutations(Shapes)
=============================================================================
