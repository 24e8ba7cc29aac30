------------------------------ MODULE MCEncodeBatch ------------------------------
(* EncodeBatch on small instances. *)
EXTENDS EncodeBatch, TLC

Symmetry == Permutations(Contexts)
=============================================================================
