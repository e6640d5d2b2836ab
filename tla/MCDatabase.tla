----------------------------- MODULE MCDatabase -----------------------------
(* Instances of Database for TLC. *)
EXTENDS Database, TLC

CONSTANTS c1, c2

ConnSymmetry == Permutations({c1, c2})
=============================================================================
