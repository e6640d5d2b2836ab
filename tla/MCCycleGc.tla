----------------------------- MODULE MCCycleGc -----------------------------
(* Instances of CycleGc for TLC: what a program built before the first     *)
(* collection.                                                             *)
EXTENDS CycleGc, TLC

CONSTANTS a, b, t, u

\* Two containers in a cycle, in a chain, or below one that contains itself;
Cycle == a :> {b} @@ b :> {a}
Chain == a :> {b} @@ b :> {}
Loop  == a :> {a, b} @@ b :> {}

\* held by both threads, by one each, by one thread (at either end), or garbage;
Both  == t :> {a} @@ u :> {a}
Each  == t :> {a} @@ u :> {b}
One   == t :> {a} @@ u :> {}
Below == t :> {b} @@ u :> {}
Lost  == t :> {} @@ u :> {}

\* with both in the buffer of roots, or none.  One operation follows, of t
\* where u could do the same; in MCHeaps also two at once, each thread giving
\* back a value of its own and so putting it into the buffer.
Heap(edges, owners, candidates, active) ==
  [elems |-> edges, local |-> owners, roots |-> candidates, ops |-> active]

SmallHeaps ==
  {Heap(Chain, Both, {}, {t}), Heap(Loop, Both, {}, {t})}
  \cup {Heap(Cycle, owners, {a, b}, {t}) : owners \in {Both, Each, One, Lost}}
  \cup {Heap(Loop, owners, {a, b}, {t}) : owners \in {One, Below, Lost}}

MCHeaps == SmallHeaps \cup {Heap(Loop, Each, {}, {t, u})}
=============================================================================
