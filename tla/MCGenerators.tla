---------------------------- MODULE MCGenerators ----------------------------
(* Instances of Generators for TLC.                                        *)
EXTENDS Generators, TLC

CONSTANTS g1, g2, v1

Symmetric == Permutations(Gens)
=============================================================================
