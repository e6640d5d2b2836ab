-------------------------- MODULE MCTrialDeletion --------------------------
(* Instances of TrialDeletion for TLC: every heap that a program can have  *)
(* built, so that an instance also shows that one operation, or one        *)
(* collection, leads from any such heap to another.                        *)
EXTENDS TrialDeletion

CONSTANTS Pair,    \* the objects of the heaps that operations start from
          Wide     \* those of the heaps that a collection starts from

\* Every graph of the objects S, up to MaxElems references per object.
Graphs(S, L) == {[v \in Values |-> IF v \in S THEN f[v] ELSE <<>>] :
                   f \in [S -> BoundedSeq(S \cup L, MaxElems)]}

\* Two objects and a leaf, in every state, and one operation from there.
EveryHeap ==
  {h \in UNION {[elems : Graphs(Pair, Leaves), local : SUBSET (Pair \cup Leaves),
                 roots : {R}, dead : SUBSET R, freed : {F \cup (Values \ (Pair \cup Leaves)) :
                 F \in SUBSET ((Pair \cup Leaves) \ R)}, ops : {1}] : R \in SUBSET Pair} : IsHeap(h)}

\* Three objects, none twice in another, none dead, at most one in a variable;
\* the names of the objects do not matter, so the first ones hold the most.
Simple == {g \in Graphs(Wide, {}) :
             /\ \A v \in Wide : IsInjective(g[v])
             /\ LET w == SetToSeq(Wide)
                IN \A i \in 1..(Len(w) - 1) : Len(g[w[i]]) >= Len(g[w[i + 1]])}

WideHeap ==
  {h \in [elems : Simple, local : {L \in SUBSET Wide : Cardinality(L) <= 1},
          roots : SUBSET Wide, dead : {{}}, freed : {Values \ Wide}, ops : {0}] : IsHeap(h)}

MCHeaps == EveryHeap \cup WideHeap
=============================================================================
