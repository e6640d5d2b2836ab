------------------------------ MODULE Memory ------------------------------
(***************************************************************************)
(* What the memory management of runtime/src/rc.rs promises to a program:  *)
(* blocks are given back behind its back, but never one that a thread can  *)
(* still reach.  Both collectors (CycleGc, TrialDeletion) implement this   *)
(* module: they differ in when they give back what, and say it nowhere     *)
(* here.                                                                   *)
(***************************************************************************)
CONSTANTS
  Values,     \* the blocks
  Mutators    \* threads that run Ocara code

VARIABLES
  elems,      \* elems[v]: the values that v references
  local,      \* local[th]: the values that th holds
  freed       \* freed[v]: the block of v is not allocated

vars == <<elems, local, freed>>

TypeOK ==
  /\ elems \in [Values -> SUBSET Values]
  /\ local \in [Mutators -> SUBSET Values]
  /\ freed \in [Values -> BOOLEAN]

\* A set that holds what the threads hold and what its members reference.
Closed(S) ==
  /\ \A th \in Mutators : local[th] \subseteq S
  /\ \A v \in S : elems[v] \subseteq S

\* What a thread gets to by following references: the least closed set.
Reachable == {v \in Values : \A S \in SUBSET Values : Closed(S) => v \in S}

\* A value that a thread can reach has its block.
ReachableAlive == \A v \in Reachable : ~freed[v]

Init == TypeOK /\ ReachableAlive

-----------------------------------------------------------------------------
\* The thread reads an element of a value that it holds.
Copy(th) == \E v \in local[th] : \E w \in elems[v] :
  /\ local' = [local EXCEPT ![th] = @ \cup {w}]
  /\ UNCHANGED <<elems, freed>>

\* It stores a value that it holds in another...
Put(th) == \E v, w \in local[th] :
  /\ elems' = [elems EXCEPT ![v] = @ \cup {w}]
  /\ UNCHANGED <<local, freed>>

\* ...moves an element out...
Take(th) == \E v \in local[th] : \E w \in elems[v] :
  /\ elems' = [elems EXCEPT ![v] = @ \ {w}]
  /\ local' = [local EXCEPT ![th] = @ \cup {w}]
  /\ UNCHANGED freed

\* ...overwrites it...
Overwrite(th) == \E v \in local[th] : \E w \in elems[v] :
  /\ elems' = [elems EXCEPT ![v] = @ \ {w}]
  /\ UNCHANGED <<local, freed>>

\* ...lets go of a value...
Drop(th) == \E v \in local[th] :
  /\ local' = [local EXCEPT ![th] = @ \ {v}]
  /\ UNCHANGED <<elems, freed>>

\* ...or gets a block, perhaps one that was given back.
New(th) == \E v \in Values :
  /\ freed[v]
  /\ freed' = [freed EXCEPT ![v] = FALSE]
  /\ elems' = [elems EXCEPT ![v] = {}]
  /\ local' = [local EXCEPT ![th] = @ \cup {v}]

\* Blocks that no thread can reach are given back.
Reclaim == \E S \in SUBSET (Values \ Reachable) :
  /\ freed' = [v \in Values |-> freed[v] \/ v \in S]
  /\ UNCHANGED <<elems, local>>

Program(th) == \/ Copy(th) \/ Put(th) \/ Take(th) \/ Overwrite(th)
               \/ Drop(th) \/ New(th)

Next == Reclaim \/ \E th \in Mutators : Program(th)

Spec == Init /\ [][Next]_vars

-----------------------------------------------------------------------------
\* A thread never comes to hold again what it lost: only the allocator hands
\* out a block that no thread could reach.
NoResurrection == [][\A v \in Values : v \in Reachable' /\ v \notin Reachable => freed[v]]_vars
=============================================================================
