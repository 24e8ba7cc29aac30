------------------------------- MODULE MCPyModel -------------------------------
(* PyModel on small instances. *)
EXTENDS PyModel
=============================================================================
