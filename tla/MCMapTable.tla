----------------------------- MODULE MCMapTable -----------------------------
(* A small instance of MapTable.                                           *)
EXTENDS MapTable

CONSTANTS i1, i10, ka, kb

MCTextOrder == <<i1, i10, ka, kb>>
MCValues == [k \in Keys |-> IF k = ka THEN {1, 2} ELSE {3}]
\* Hashes that collide in 4 slots, in 8, or on the way of a probe with a step of 3;
\* the first key starts at slot 0.
MCHashes == {h \in [Keys -> {0, 3, 4}] : h[i1] = 0}
=============================================================================
