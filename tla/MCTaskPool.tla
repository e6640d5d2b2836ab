----------------------------- MODULE MCTaskPool -----------------------------
(* Small instances of TaskPool.                                            *)
EXTENDS TaskPool

CONSTANTS t1, t2, t3

\* t1 awaits t2: a handle it captured, or (Internal) one it creates itself.
MCAwaits == [t \in Tasks |-> IF t = t1 THEN <<t2>> ELSE <<>>]
=============================================================================
