--------------------------- MODULE TrialDeletion ---------------------------
(***************************************************************************)
(* Counted values and the collection of cycles by trial deletion           *)
(* (runtime/src/rc.rs, collect_exclusive).                                 *)
(*                                                                         *)
(* The thread that collects is the only one that runs (see Park), so the   *)
(* module has one thread: it copies, stores and drops references, and      *)
(* collects when the buffer of roots is full.  A collection takes the      *)
(* references between the values that the roots reach out of the counts;   *)
(* what still has a count is referenced from elsewhere, gets the counts    *)
(* back and stays; the rest is garbage.                                    *)
(*                                                                         *)
(* One action is one turn of a loop of the code: a reference released, a   *)
(* value popped from the stack of a traversal.                             *)
(***************************************************************************)
EXTENDS Naturals, Sequences, FiniteSets, SequencesExt

CONSTANTS
  Objects,     \* values that may hold references (may_hold_references)
  Leaves,      \* counted values that hold none: strings, boxed numbers
  Null,
  Heaps,       \* what the program may have built so far
  MaxElems,    \* bound: references that a value holds
  Threshold    \* ROOTS_THRESHOLD (10 000 in the code)

Values == Objects \cup Leaves

ASSUME ValuesAssumption ==
  /\ IsFiniteSet(Values) /\ Objects \cap Leaves = {} /\ Null \notin Values
ASSUME BoundsAssumption == {MaxElems, Threshold} \subseteq Nat /\ Threshold > 0

VARIABLES
  elems,     \* elems[v]: the references that v holds
  count,     \* count[v]
  color,     \* color[v]
  buffered,  \* BUFFERED
  dead,      \* DEAD
  freed,     \* freed[v]: the block is not allocated (ghost)
  roots,     \* ROOTS
  limit,     \* ROOTS_LIMIT
  due,       \* COLLECT_DUE
  local,     \* the values that the thread holds
  ops,       \* bound: operations that the program may still start
  pc,        \* where the thread is
  kids,      \* the references it has still to release
  cur,       \* the value it is destroying
  dying,     \* the stack of `destroy`
  todo,      \* the roots that the current phase has still to look at
  kept,      \* collect_exclusive: `kept`
  stack,     \* the stack of the current traversal
  black,     \* the stack of `scan_black`
  garbage    \* collect_white: `garbage`

heap    == <<elems, count, color, buffered, dead, freed>>
buffer  == <<roots, limit, due>>
prog    == <<local, ops>>
destroy == <<kids, cur, dying>>
collect == <<todo, kept, stack, black, garbage>>
vars    == <<elems, count, color, buffered, dead, freed, roots, limit, due, local,
             ops, pc, kids, cur, dying, todo, kept, stack, black, garbage>>

Colors == {"black", "gray", "white", "purple"}

TypeOK ==
  /\ elems \in [Values -> Seq(Values)] /\ count \in [Values -> Nat]
  /\ color \in [Values -> Colors]
  /\ buffered \in [Values -> BOOLEAN] /\ dead \in [Values -> BOOLEAN]
  /\ freed \in [Values -> BOOLEAN]
  /\ roots \in Seq(Objects) /\ limit \in Nat /\ due \in BOOLEAN
  /\ local \subseteq Values /\ ops \in Nat
  /\ pc \in {"code", "release", "gray", "scan", "white", "wild"}
  /\ kids \in Seq(Values) /\ cur \in Objects \cup {Null} /\ dying \in Seq(Objects)
  /\ todo \in Seq(Objects) /\ kept \in Seq(Objects) /\ stack \in Seq(Objects)
  /\ black \in Seq(Objects) /\ garbage \in Seq(Objects)

Times(s, v) == Cardinality({i \in DOMAIN s : s[i] = v})

\* A set with all that its members reference, those that are gone excepted.
Closed(edges, gone, S) == \A v \in S \ gone : ToSet(edges[v]) \subseteq S

\* What the values of S reach, but not through those that are gone: the least
\* closed set.
Reach(edges, gone, S) ==
  {v \in Values : \A C \in SUBSET Values : S \subseteq C /\ Closed(edges, gone, C) => v \in C}

\* cyclic_children
CyclicChildren(v) ==
  LET I == {i \in DOMAIN elems[v] : elems[v][i] \in Objects}
  IN [n \in 1..Cardinality(I) |->
        elems[v][CHOOSE i \in I : Cardinality({j \in I : j <= i}) = n]]

\* The references to v that the program and the values which are alive hold.
References(edges, gone, S, v) ==
  (IF v \in S THEN 1 ELSE 0)
  + Cardinality({p \in (Values \ gone) \X (1..MaxElems) :
                   p[2] \in DOMAIN edges[p[1]] /\ edges[p[1]][p[2]] = v})

\* A heap of a program between two operations.  Earlier releases left some
\* values in the buffer of roots, of which some were destroyed since: what
\* nothing references any more is there, or can be reached from there.
IsHeap(h) ==
  /\ h.elems \in [Values -> Seq(Values)] /\ h.local \subseteq Values
  /\ h.dead \subseteq h.roots /\ h.roots \subseteq Objects /\ h.freed \subseteq Values
  /\ h.freed \cap (h.local \cup h.roots) = {} /\ h.ops \in Nat
  /\ \A v \in Values :
       /\ v \in h.freed \cup h.dead <=> References(h.elems, h.freed \cup h.dead, h.local, v) = 0
       /\ v \in h.freed \cup Leaves => h.elems[v] = <<>>
       /\ Len(h.elems[v]) <= MaxElems
       /\ v \in h.freed \/ v \in Reach(h.elems, h.dead, h.local \cup h.roots)

ASSUME HeapsAssumption == \A h \in Heaps : IsHeap(h)

Init ==
  /\ \E h \in Heaps :
       /\ elems = h.elems /\ local = h.local /\ ops = h.ops
       /\ dead = [v \in Values |-> v \in h.dead] /\ freed = [v \in Values |-> v \in h.freed]
       /\ count = [v \in Values |-> References(h.elems, h.freed \cup h.dead, h.local, v)]
       /\ buffered = [v \in Values |-> v \in h.roots] /\ roots = SetToSeq(h.roots)
       /\ color = [v \in Values |-> IF v \in h.roots THEN "purple" ELSE "black"]
  /\ limit \in {Threshold, 2 * Cardinality(Objects)} /\ Len(roots) < limit
  /\ due = FALSE /\ pc = "code"
  /\ kids = <<>> /\ cur = Null /\ dying = <<>>
  /\ todo = <<>> /\ kept = <<>> /\ stack = <<>> /\ black = <<>> /\ garbage = <<>>

-----------------------------------------------------------------------------
(* The program                                                             *)

Operates == pc = "code" /\ ops > 0 /\ ops' = ops - 1

\* alloc_block: the header word of a new value is a count of 1.
New == \E v \in Values :
  /\ Operates /\ freed[v]
  /\ freed' = [freed EXCEPT ![v] = FALSE]
  /\ count' = [count EXCEPT ![v] = 1]
  /\ color' = [color EXCEPT ![v] = "black"]
  /\ buffered' = [buffered EXCEPT ![v] = FALSE] /\ dead' = [dead EXCEPT ![v] = FALSE]
  /\ elems' = [elems EXCEPT ![v] = <<>>]
  /\ local' = local \cup {v}
  /\ UNCHANGED <<buffer, pc, destroy, collect>>

\* __array_get, then retain.
Get == \E v \in local : \E w \in ToSet(elems[v]) \ local :
  /\ Operates
  /\ count' = [count EXCEPT ![w] = @ + 1]
  /\ local' = local \cup {w}
  /\ UNCHANGED <<elems, color, buffered, dead, freed, buffer, pc, destroy, collect>>

\* retain, then __array_push.
Push == \E v \in local \cap Objects, w \in local :
  /\ Operates /\ Len(elems[v]) < MaxElems
  /\ count' = [count EXCEPT ![w] = @ + 1]
  /\ elems' = [elems EXCEPT ![v] = Append(@, w)]
  /\ UNCHANGED <<color, buffered, dead, freed, buffer, local, pc, destroy, collect>>

\* __array_take: the reference moves, no count changes.
Pop == \E v \in local : \E i \in DOMAIN elems[v] :
  /\ Operates /\ elems[v][i] \notin local
  /\ elems' = [elems EXCEPT ![v] = RemoveAt(@, i)]
  /\ local' = local \cup {elems[v][i]}
  /\ UNCHANGED <<count, color, buffered, dead, freed, buffer, pc, destroy, collect>>

\* __array_set: the old element leaves the container, then is released.
Overwrite == \E v \in local : \E i \in DOMAIN elems[v] :
  /\ Operates /\ pc' = "release"
  /\ elems' = [elems EXCEPT ![v] = RemoveAt(@, i)]
  /\ kids' = <<elems[v][i]>>
  /\ UNCHANGED <<count, color, buffered, dead, freed, buffer, local, cur, dying, collect>>

\* A variable goes out of scope.
Drop == \E w \in local :
  /\ Operates /\ pc' = "release"
  /\ local' = local \ {w}
  /\ kids' = <<w>>
  /\ UNCHANGED <<heap, buffer, cur, dying, collect>>

-----------------------------------------------------------------------------
(* release_counted, decrement, destroy                                     *)

Shared(t) == t \in Objects /\ count[t] > 1

\* possible_root: a shared value that loses a reference is a candidate.
PossibleRoot(t) ==
  /\ color' = [color EXCEPT ![t] = "purple"]
  /\ buffered' = [buffered EXCEPT ![t] = TRUE]
  /\ IF buffered[t]
       THEN UNCHANGED <<roots, due>>
       ELSE roots' = Append(roots, t) /\ due' = (due \/ Len(roots') >= limit)

GiveBack(t) ==
  /\ kids' = Tail(kids)
  /\ count' = [count EXCEPT ![t] = @ - 1]
  /\ dying' = IF count[t] = 1 /\ t \in Objects THEN Append(dying, t) ELSE dying
  /\ freed' = [freed EXCEPT ![t] = @ \/ (count[t] = 1 /\ t \in Leaves)]
  /\ UNCHANGED <<elems, dead, limit, prog, pc, cur, collect>>

\* decrement, then the value waits to be destroyed, a leaf excepted.
ReleaseOne ==
  /\ pc = "release" /\ kids # <<>>
  /\ IF Shared(Head(kids)) THEN PossibleRoot(Head(kids))
     ELSE UNCHANGED <<color, buffered, roots, due>>
  /\ GiveBack(Head(kids))

\* destroy: the next value of the stack releases its children...
Destroy ==
  /\ pc = "release" /\ kids = <<>> /\ cur = Null /\ dying # <<>>
  /\ cur' = Last(dying) /\ dying' = Front(dying)
  /\ kids' = elems[Last(dying)]
  /\ UNCHANGED <<heap, buffer, prog, pc, collect>>

\* ...then goes; one that is in the buffer of roots waits for the collection.
Bury ==
  /\ pc = "release" /\ kids = <<>> /\ cur # Null /\ cur' = Null
  /\ dead' = [dead EXCEPT ![cur] = TRUE]
  /\ freed' = [freed EXCEPT ![cur] = ~buffered[cur]]
  /\ UNCHANGED <<elems, count, color, buffered, buffer, prog, pc, kids, dying, collect>>

\* take_roots
TakeRoots == pc' = "gray" /\ todo' = roots /\ roots' = <<>>

\* A collection that is due starts once the reference is given back.
Released ==
  /\ pc = "release" /\ kids = <<>> /\ cur = Null /\ dying = <<>>
  /\ due' = FALSE
  /\ IF due THEN TakeRoots ELSE pc' = "code" /\ UNCHANGED <<todo, roots>>
  /\ UNCHANGED <<heap, limit, prog, destroy, kept, stack, black, garbage>>

\* __rc_collect_cycles
CollectNow ==
  /\ pc = "code" /\ TakeRoots
  /\ UNCHANGED <<heap, limit, due, prog, destroy, kept, stack, black, garbage>>

-----------------------------------------------------------------------------
(* collect_exclusive                                                       *)

At(phase) == pc = phase /\ stack = <<>> /\ black = <<>> /\ garbage = <<>>

\* A candidate starts a traversal; any other root leaves the buffer, and its
\* block goes if it was destroyed in there (unbuffer).
NextRoot ==
  /\ At("gray") /\ todo # <<>> /\ todo' = Tail(todo)
  /\ LET s == Head(todo) IN
       IF color[s] = "purple" /\ count[s] > 0
         THEN /\ stack' = <<s>> /\ kept' = Append(kept, s)
              /\ UNCHANGED <<buffered, freed>>
         ELSE /\ buffered' = [buffered EXCEPT ![s] = FALSE]
              /\ freed' = [freed EXCEPT ![s] = @ \/ dead[s]]
              /\ UNCHANGED <<stack, kept>>
  /\ UNCHANGED <<elems, count, color, dead, buffer, prog, pc, destroy, black, garbage>>

Popped == Front(stack)

\* The references that x holds are taken out of the counts.
TakeOut(x) ==
  /\ color' = [color EXCEPT ![x] = "gray"]
  /\ count' = [v \in Values |-> IF v \in Objects THEN count[v] - Times(elems[x], v) ELSE count[v]]
  /\ stack' = Popped \o CyclicChildren(x)

MarkGray ==
  /\ pc = "gray" /\ stack # <<>>
  /\ IF color[Last(stack)] = "gray" THEN stack' = Popped /\ UNCHANGED <<color, count>>
                                    ELSE TakeOut(Last(stack))
  /\ UNCHANGED <<elems, buffered, dead, freed, buffer, prog, pc, destroy, todo, kept, black, garbage>>

BeginScan ==
  /\ At("gray") /\ todo = <<>>
  /\ pc' = "scan" /\ todo' = kept
  /\ UNCHANGED <<heap, buffer, prog, destroy, kept, stack, black, garbage>>

ScanRoot ==
  /\ At("scan") /\ todo # <<>>
  /\ stack' = <<Head(todo)>> /\ todo' = Tail(todo)
  /\ UNCHANGED <<heap, buffer, prog, pc, destroy, kept, black, garbage>>

Paint(x, c) == color' = [color EXCEPT ![x] = c]

\* Fault: a white value is scanned again.
Fault_Scan_Again ==
  /\ pc = "scan" /\ stack # <<>> /\ black = <<>>
  /\ LET x == Last(stack) IN
       IF count[x] > 0
         THEN Paint(x, "black") /\ black' = <<x>> /\ stack' = Popped
         ELSE Paint(x, "white") /\ stack' = Popped \o CyclicChildren(x) /\ UNCHANGED black
  /\ UNCHANGED <<elems, count, buffered, dead, freed, buffer, prog, pc, destroy, todo, kept, garbage>>

\* Fault: what a live value references is not spared.
Fault_Scan_Alone ==
  /\ pc = "scan" /\ stack # <<>> /\ black = <<>>
  /\ LET x == Last(stack) IN
       IF color[x] # "gray" THEN stack' = Popped /\ UNCHANGED color
       ELSE /\ Paint(x, IF count[x] > 0 THEN "black" ELSE "white")
            /\ stack' = Popped \o CyclicChildren(x)
  /\ UNCHANGED <<elems, count, buffered, dead, freed, buffer, prog, pc, destroy, todo, kept, black, garbage>>

\* A gray value that has still a count is alive, with all that it reaches;
\* one that has none is white, for the moment.
Scan ==
  /\ pc = "scan" /\ stack # <<>> /\ black = <<>>
  /\ LET x == Last(stack) IN
       CASE color[x] # "gray" -> stack' = Popped /\ UNCHANGED <<color, black>>
         [] color[x] = "gray" /\ count[x] > 0 ->
              Paint(x, "black") /\ black' = <<x>> /\ stack' = Popped
         [] OTHER ->
              Paint(x, "white") /\ stack' = Popped \o CyclicChildren(x) /\ UNCHANGED black
  /\ UNCHANGED <<elems, count, buffered, dead, freed, buffer, prog, pc, destroy, todo, kept, garbage>>

\* The children that scan_black has still to visit, once each.
Revived(x) == SetToSeq({w \in ToSet(CyclicChildren(x)) : color[w] # "black"})

\* Fault: only a value that was given up gets its counts back.
Fault_ScanBlack_Partial ==
  /\ pc = "scan" /\ black # <<>>
  /\ LET x == Last(black) IN
       /\ count' = [v \in Values |-> IF v \in Objects /\ color[v] # "black"
                                       THEN count[v] + Times(elems[x], v) ELSE count[v]]
       /\ color' = [v \in Values |-> IF Contains(Revived(x), v) THEN "black" ELSE color[v]]
       /\ black' = Front(black) \o Revived(x)
  /\ UNCHANGED <<elems, buffered, dead, freed, buffer, prog, pc, destroy, todo, kept, stack, garbage>>

\* scan_black: the references that x holds are counted again.
ScanBlack ==
  /\ pc = "scan" /\ black # <<>>
  /\ LET x == Last(black) IN
       /\ count' = [v \in Values |-> IF v \in Objects THEN count[v] + Times(elems[x], v) ELSE count[v]]
       /\ color' = [v \in Values |-> IF Contains(Revived(x), v) THEN "black" ELSE color[v]]
       /\ black' = Front(black) \o Revived(x)
  /\ UNCHANGED <<elems, buffered, dead, freed, buffer, prog, pc, destroy, todo, kept, stack, garbage>>

Survivors == Cardinality({i \in DOMAIN kept : color[kept[i]] = "black"})

\* The buffer is empty from here on; its limit follows the roots alive.
EndScan ==
  /\ At("scan") /\ todo = <<>>
  /\ pc' = "white" /\ todo' = kept
  /\ buffered' = [v \in Values |-> buffered[v] /\ ~Contains(kept, v)]
  /\ limit' = IF 2 * Survivors > Threshold THEN 2 * Survivors ELSE Threshold
  /\ UNCHANGED <<elems, count, color, dead, freed, roots, due, prog, destroy, kept, stack, black, garbage>>

WhiteRoot ==
  /\ At("white") /\ todo # <<>>
  /\ stack' = <<Head(todo)>> /\ todo' = Tail(todo)
  /\ UNCHANGED <<heap, buffer, prog, pc, destroy, kept, black, garbage>>

LooksWhite(x) == color[x] = "white" /\ ~buffered[x]

\* Fault: what a white value references is not visited.
Fault_CollectWhite_Alone ==
  /\ pc = "white" /\ stack # <<>> /\ stack' = Popped
  /\ LET x == Last(stack) IN
       IF LooksWhite(x) THEN Paint(x, "black") /\ garbage' = Append(garbage, x)
                        ELSE UNCHANGED <<color, garbage>>
  /\ UNCHANGED <<elems, count, buffered, dead, freed, buffer, prog, pc, destroy, todo, kept, black>>

\* collect_white: a white value is garbage; the leaves that it holds are
\* released, the rest is visited in turn.  A block that an earlier root gave
\* back is looked at again; whatever is on its word by then, unless that
\* looks white it is passed over.
CollectWhite ==
  /\ pc = "white" /\ stack # <<>>
  /\ LET x == Last(stack) IN
       \/ /\ freed[x] \/ ~LooksWhite(x)
          /\ stack' = Popped /\ UNCHANGED <<color, count, freed, garbage>>
       \/ /\ LooksWhite(x)
          /\ Paint(x, "black")
          /\ stack' = Popped \o CyclicChildren(x)
          /\ count' = [v \in Values |-> IF v \in Leaves THEN count[v] - Times(elems[x], v) ELSE count[v]]
          /\ freed' = [v \in Values |-> freed[v] \/ (v \in Leaves /\ Times(elems[x], v) > 0 /\ count'[v] = 0)]
          /\ garbage' = Append(garbage, x)
  /\ UNCHANGED <<elems, buffered, dead, buffer, prog, pc, destroy, todo, kept, black>>

\* The allocator, or the next owner of the block, wrote a word there that looks
\* white (link, alloc_cache.rs): the collector takes the references from a
\* block that is gone.  Nothing is known of what the program does from here on.
Misread ==
  /\ pc = "white" /\ stack # <<>> /\ freed[Last(stack)]
  /\ pc' = "wild"
  /\ UNCHANGED <<heap, buffer, prog, destroy, collect>>

\* The blocks of the values that one root led to.
FreeGarbage ==
  /\ pc = "white" /\ stack = <<>> /\ garbage # <<>>
  /\ freed' = [v \in Values |-> freed[v] \/ Contains(garbage, v)]
  /\ garbage' = <<>>
  /\ UNCHANGED <<elems, count, color, buffered, dead, buffer, prog, pc, destroy, todo, kept, stack, black>>

EndCollection ==
  /\ At("white") /\ todo = <<>>
  /\ pc' = "code" /\ kept' = <<>>
  /\ UNCHANGED <<heap, buffer, prog, destroy, todo, stack, black, garbage>>

-----------------------------------------------------------------------------
Program == New \/ Get \/ Push \/ Pop \/ Overwrite \/ Drop \/ CollectNow

Release == ReleaseOne \/ Destroy \/ Bury \/ Released

Collection == \/ NextRoot \/ MarkGray \/ BeginScan \/ ScanRoot \/ Scan \/ ScanBlack
              \/ EndScan \/ WhiteRoot \/ CollectWhite \/ FreeGarbage \/ EndCollection

Next == Program \/ Release \/ Collection \/ Misread

Spec == Init /\ [][Next]_vars

\* The thread finishes what it is in the middle of.
FairSpec == Spec /\ WF_vars(Release \/ Collection)

-----------------------------------------------------------------------------
(* Properties                                                              *)

\* Blocks that the program can reach are never given back, and a collection
\* does nothing else that the program could see.
Main == "main"

Promise == INSTANCE Memory WITH Mutators <- {Main}, local <- [th \in {Main} |-> local],
                                elems <- [v \in Values |-> ToSet(elems[v])]

KeepsPromise == Promise!Spec

Quiet == pc = "code"
Gone  == {v \in Values : freed[v] \/ dead[v]}

\* Trial deletion leaves no trace: between operations the counts are again
\* those of the references, also after values that hold each other twice.
CountsExact ==
  Quiet => \A v \in Values \ Gone : count[v] = References(elems, Gone, local, v)

\* ...no color of the traversals is left behind, and BUFFERED says which
\* values are in the buffer, once each; those are the candidates.
BufferExact ==
  Quiet => /\ IsInjective(roots)
           /\ \A v \in Values : ~freed[v] =>
                /\ buffered[v] <=> Contains(roots, v)
                /\ color[v] = IF buffered[v] THEN "purple" ELSE "black"

\* No cycle is lost: between operations, what the program cannot reach was
\* given back or can be reached from a root that the next collection takes;
\* after a collection there is none, so all that was garbage is gone.
NoCycleLost ==
  Quiet => \A v \in Values :
             freed[v] \/ v \in Reach(elems, Gone, local \cup ToSet(roots))

\* Candidates do not pile up: a collection that is due does take place.
BufferBounded == Quiet => Len(roots) < limit /\ ~due

\* The counts are taken apart and put back on blocks that are there, and a
\* block that collect_white comes back to does not look white: it is taken for
\* garbage again only if someone has written over its word since.
ReadsExact ==
  /\ pc = "gray" /\ todo # <<>> => ~freed[Head(todo)]
  /\ pc \in {"gray", "scan"} => \A v \in ToSet(stack) \cup ToSet(black) : ~freed[v]
  /\ pc = "white" => \A v \in ToSet(stack) : freed[v] => ~LooksWhite(v)

\* Between operations counts, colors, flags and the buffer of roots agree, and
\* what a collection took out of them was put back.
HeapExact == TypeOK /\ CountsExact /\ BufferExact /\ BufferBounded /\ ReadsExact

\* The collector only looks at blocks that are there ("le collecteur ne lit
\* jamais de memoire liberee", docs/roadmap.d/memoire-refcount.md).
CollectorAlive == pc \in {"gray", "scan", "white"} /\ stack # <<>> => ~freed[Last(stack)]

\* A release and a collection come to an end, whatever the shape of the heap.
OperationEnds == pc # "code" ~> pc \in {"code", "wild"}
=============================================================================
