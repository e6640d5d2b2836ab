----------------------------- MODULE OrderedMap -----------------------------
(* What a map of Ocara is for a program: pairs in the order in which their   *)
(* keys were first put, at most one for each key.                            *)
EXTENDS Naturals, Sequences

CONSTANTS Keys, Values, None,
          TextOrder   \* the keys, sorted by their text

VARIABLES pairs,      \* the sequence of [key, value]
          answer      \* the value that the last put or remove gave back

vars == <<pairs, answer>>

Init == pairs = <<>> /\ answer = None

Holds(k) == \E i \in 1..Len(pairs) : pairs[i].key = k
Index(k) == CHOOSE i \in 1..Len(pairs) : pairs[i].key = k

Put(k, v) ==
  IF Holds(k)
  THEN /\ pairs' = [pairs EXCEPT ![Index(k)].value = v]
       /\ answer' = pairs[Index(k)].value
  ELSE /\ pairs' = Append(pairs, [key |-> k, value |-> v])
       /\ answer' = None

\* The others keep their order.
Remove(k) ==
  /\ pairs' = SelectSeq(pairs, LAMBDA p : p.key # k)
  /\ answer' = IF Holds(k) THEN pairs[Index(k)].value ELSE None

\* JSON::decode: the pairs in the order of their keys.
Sort ==
  LET held == SelectSeq(TextOrder, Holds) IN
  /\ pairs' = [i \in 1..Len(held) |-> pairs[Index(held[i])]]
  /\ answer' = None

Clear == pairs' = <<>> /\ answer' = None

\* A reading changes nothing.
Read == UNCHANGED pairs /\ answer' = None

Next ==
  \/ \E k \in Keys, v \in Values : Put(k, v)
  \/ \E k \in Keys : Remove(k)
  \/ Sort \/ Clear \/ Read

Spec == Init /\ [][Next]_vars
=============================================================================
