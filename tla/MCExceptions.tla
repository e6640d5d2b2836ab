---------------------------- MODULE MCExceptions ----------------------------
(* Instances of Exceptions for TLC. *)
EXTENDS Exceptions, TLC

CONSTANTS v1, v2, r1, r2

Symmetry == Permutations({v1, v2}) \cup Permutations({r1, r2})
=============================================================================
