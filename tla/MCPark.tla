------------------------------- MODULE MCPark -------------------------------
(* Instances of Park for TLC. *)
EXTENDS Park
=============================================================================
