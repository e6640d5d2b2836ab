------------------------------ MODULE CycleGc ------------------------------
(***************************************************************************)
(* Counted values and the concurrent collector of cycles (runtime/src/rc.rs*)
(* and rc_concurrent.rs).                                                  *)
(*                                                                         *)
(* Threads copy, store and drop references to containers while one of them *)
(* collects.  The collector never changes a count: it reads the counts and *)
(* the edges of the values it reaches from the roots, and frees those that *)
(* are only referenced by each other, unless `touch` marked them meanwhile.*)
(*                                                                         *)
(* One action is one access to a header word, to the elements of a         *)
(* container (under its lock), or to ROOTS, DEFERRED or EPOCH.  Two        *)
(* threads that use the same container do so under a lock of the program.  *)
(***************************************************************************)
EXTENDS Naturals, Sequences, FiniteSets, SequencesExt

CONSTANTS
  Values,      \* containers, all of a kind that can form cycles
  Mutators,    \* threads that run Ocara code
  Gc,          \* the thread that is in collect_concurrent
  Null,
  Heaps,       \* what the program may have built so far; `ops` bounds what follows
  Epochs       \* number of epochs (255 in the code)

Threads == Mutators \cup {Gc}

ASSUME ThreadsAssumption == Gc \notin Mutators /\ Null \notin Values
ASSUME EpochsAssumption  == Epochs \in Nat \ {0}

VARIABLES
  elems,     \* elems[v]: the elements of v
  count,     \* count[v]
  buffered,  \* BUFFERED
  dead,      \* DEAD
  mark,      \* mark[v]: the epoch in which v was last touched, 0 if none
  freed,     \* freed[v]: the block was given back (ghost)
  roots,     \* ROOTS
  deferred,  \* DEFERRED
  epoch,     \* EPOCH, 0 when no collection is under way
  last,      \* LAST_EPOCH
  local,     \* local[th]: the values th owns a reference to
  ops,       \* the mutators that may still start an operation (bound)
  pc,        \* where each thread is
  arg,       \* arg[th]: the value th works on
  into,      \* into[th]: the container th is about to push arg[th] in
  kids,      \* kids[th]: the references th has still to give back
  cur,       \* cur[th]: the value th is destroying
  dying,     \* dying[th]: the stack of `destroy`
  todo,      \* the roots taken, then the roots to keep
  start,     \* Node.root
  nodes,     \* Graph.nodes
  noted,     \* Node.count
  out,       \* Node.children
  seen,      \* the nodes `trace` has visited
  stack,     \* the stack of `trace`
  live,      \* Node.live
  fresh,     \* mark_live: found alive by the current pass
  left,      \* the nodes the current pass has still to visit
  rest       \* free_garbage: the elements of a dead node still to release

heap   == <<elems, count, buffered, dead, mark, freed>>
shared == <<roots, deferred, epoch, last>>
prog   == <<local, ops, into>>
work   == <<arg, kids, cur, dying>>
graph  == <<todo, start, nodes, noted, out, seen, stack, live, fresh, left, rest>>
vars   == <<elems, count, buffered, dead, mark, freed, roots, deferred, epoch,
            last, local, ops, pc, arg, into, kids, cur, dying, todo, start,
            nodes, noted, out, seen, stack, live, fresh, left, rest>>

PCs == {"code",                          \* between two operations
        "got", "pushing",                \* retained, to touch
        "insert",                        \* to store in the container
        "release",                       \* release_counted, destroy
        "flag", "root", "dec", "touch",  \* decrement
        "bury", "dealloc", "defer",      \* destroy
        "off", "take", "dead", "node", "trace", "kids", "mark", "free",
        "sweep", "keep", "close", "drain", "requeue"}   \* collect_concurrent

TypeOK ==
  /\ elems \in [Values -> SUBSET Values] /\ count \in [Values -> Nat]
  /\ buffered \in [Values -> BOOLEAN] /\ dead \in [Values -> BOOLEAN]
  /\ freed \in [Values -> BOOLEAN] /\ mark \in [Values -> 0..Epochs]
  /\ roots \in Seq(Values) /\ deferred \in Seq(Values)
  /\ epoch \in 0..Epochs /\ last \in 0..Epochs
  /\ local \in [Mutators -> SUBSET Values] /\ ops \subseteq Mutators
  /\ pc \in [Threads -> PCs]
  /\ arg \in [Threads -> Values \cup {Null}] /\ into \in [Threads -> Values \cup {Null}]
  /\ kids \in [Threads -> SUBSET Values] /\ cur \in [Threads -> Values \cup {Null}]
  /\ dying \in [Threads -> Seq(Values)]
  /\ todo \in Seq(Values) /\ stack \in Seq(Values)
  /\ start \subseteq Values /\ nodes \subseteq Values /\ seen \subseteq Values
  /\ live \subseteq Values /\ fresh \subseteq Values
  /\ left \subseteq Values /\ rest \subseteq Values
  /\ noted \in [Values -> Nat] /\ out \in [Values -> SUBSET Values]

\* What the values of S reach through the edges of `edges`.
ReachBy(edges, S) ==
  LET reach[n \in 0..Cardinality(Values)] ==
        IF n = 0 THEN S ELSE reach[n - 1] \cup UNION {edges[v] : v \in reach[n - 1]}
  IN reach[Cardinality(Values)]

Owned     == UNION {local[th] : th \in Mutators}
Reachable == ReachBy(elems, Owned)

\* The references to v: one per thread that owns it, one per container.
Owners(v) == {th \in Mutators : v \in local[th]}
Within(v) == {u \in Values : ~dead[u] /\ ~freed[u] /\ v \in elems[u]}

\* A program that has already run: a heap, of which earlier releases put
\* some values in the buffer of roots, the unreachable ones at least.
HeapsAssumption == \A h \in Heaps :
  /\ h.elems \in [Values -> SUBSET Values] /\ h.local \in [Mutators -> SUBSET Values]
  /\ h.roots \subseteq Values /\ h.ops \subseteq Mutators
  /\ ReachBy(h.elems, h.roots \cup UNION {h.local[th] : th \in Mutators}) = Values
ASSUME HeapsAssumption

Init ==
  /\ \E h \in Heaps :
       /\ elems = h.elems /\ local = h.local /\ ops = h.ops
       /\ buffered = [v \in Values |-> v \in h.roots]
       /\ roots = SetToSeq(h.roots)
  /\ dead = [v \in Values |-> FALSE] /\ freed = dead
  /\ count = [v \in Values |-> Cardinality(Owners(v)) + Cardinality(Within(v))]
  /\ \A v \in Values : count[v] > 0
  /\ mark = [v \in Values |-> 0]
  /\ deferred = <<>> /\ epoch = 0 /\ last = 0
  /\ pc = [th \in Threads |-> IF th = Gc THEN "off" ELSE "code"]
  /\ arg = [th \in Threads |-> Null] /\ into = arg /\ cur = arg
  /\ kids = [th \in Threads |-> {}] /\ dying = [th \in Threads |-> <<>>]
  /\ todo = <<>> /\ stack = <<>>
  /\ start = {} /\ nodes = {} /\ seen = {} 
  /\ live = {} /\ fresh = {} /\ left = {} /\ rest = {}
  /\ noted = mark /\ out = [v \in Values |-> {}]

-----------------------------------------------------------------------------
(* Counts                                                                  *)

\* touch: during a collection, the value is marked with its epoch.
Marked(v) == IF epoch = 0 THEN mark ELSE [mark EXCEPT ![v] = epoch]

\* add_count, several threads: the count first...
Count(th, v, n, touching) ==
  /\ count' = [count EXCEPT ![v] = n]
  /\ pc' = [pc EXCEPT ![th] = touching]

AfterTouch == [got |-> "code", pushing |-> "insert", touch |-> "release"]

\* ...then its mark.
Touch(th) ==
  /\ pc[th] \in DOMAIN AfterTouch
  /\ mark' = Marked(arg[th])
  /\ pc' = [pc EXCEPT ![th] = AfterTouch[pc[th]]]
  /\ UNCHANGED <<elems, count, buffered, dead, freed, shared, prog, work, graph>>

-----------------------------------------------------------------------------
(* Operations of the program                                               *)

Operates(th) == pc[th] = "code" /\ th \in ops /\ ops' = ops \ {th}

\* The containers in use: a push is an operation of several steps.
InUse == {into[th] : th \in {t \in Mutators : pc[t] \in {"pushing", "insert"}}}

\* __array_get, then retain: the thread gets a reference to an element.  The
\* two are one step: no thread overwrites an element that another one reads.
Get(th) == \E v \in local[th] \ InUse : \E w \in elems[v] \ local[th] :
  /\ Operates(th)
  /\ Count(th, w, count[w] + 1, "got")
  /\ local' = [local EXCEPT ![th] = @ \cup {w}]
  /\ arg' = [arg EXCEPT ![th] = w]
  /\ UNCHANGED <<elems, buffered, dead, mark, freed, shared, into, kids, cur, dying, graph>>

\* __array_push: the element is retained, then stored.
Push(th) == \E v \in local[th] \ InUse, w \in local[th] :
  /\ Operates(th) /\ w \notin elems[v]
  /\ Count(th, w, count[w] + 1, "pushing")
  /\ arg' = [arg EXCEPT ![th] = w] /\ into' = [into EXCEPT ![th] = v]
  /\ UNCHANGED <<elems, buffered, dead, mark, freed, shared, local, kids, cur, dying, graph>>

Insert(th) ==
  /\ pc[th] = "insert"
  /\ elems' = [elems EXCEPT ![into[th]] = @ \cup {arg[th]}]
  /\ pc' = [pc EXCEPT ![th] = "code"]
  /\ UNCHANGED <<count, buffered, dead, mark, freed, shared, prog, work, graph>>

\* __array_take: the reference moves to the thread, no count changes.
Pop(th) == \E v \in local[th] \ InUse : \E w \in elems[v] \ local[th] :
  /\ Operates(th)
  /\ elems' = [elems EXCEPT ![v] = @ \ {w}]
  /\ local' = [local EXCEPT ![th] = @ \cup {w}]
  /\ UNCHANGED <<count, buffered, dead, mark, freed, shared, into, pc, work, graph>>

\* __array_set: the old element leaves the container, then is released.
Overwrite(th) == \E v \in local[th] \ InUse : \E w \in elems[v] :
  /\ Operates(th)
  /\ elems' = [elems EXCEPT ![v] = @ \ {w}]
  /\ kids' = [kids EXCEPT ![th] = {w}]
  /\ pc' = [pc EXCEPT ![th] = "release"]
  /\ UNCHANGED <<count, buffered, dead, mark, freed, shared, local, into, arg,
                 cur, dying, graph>>

\* A variable goes out of scope.
Drop(th) == \E w \in local[th] :
  /\ Operates(th)
  /\ local' = [local EXCEPT ![th] = @ \ {w}]
  /\ kids' = [kids EXCEPT ![th] = {w}]
  /\ pc' = [pc EXCEPT ![th] = "release"]
  /\ UNCHANGED <<heap, shared, into, arg, cur, dying, graph>>
-----------------------------------------------------------------------------
(* release_counted, decrement, destroy                                     *)

\* decrement: a shared value is a candidate root...
Look(th) == \E t \in kids[th] :
  /\ pc[th] = "release"
  /\ kids' = [kids EXCEPT ![th] = @ \ {t}]
  /\ arg' = [arg EXCEPT ![th] = t]
  /\ pc' = [pc EXCEPT ![th] = IF count[t] > 1 THEN "flag" ELSE "dec"]
  /\ UNCHANGED <<heap, shared, prog, cur, dying, graph>>

\* ...possible_root: registered once...
Flag(th) ==
  /\ pc[th] = "flag"
  /\ buffered' = [buffered EXCEPT ![arg[th]] = TRUE]
  /\ pc' = [pc EXCEPT ![th] = IF buffered[arg[th]] THEN "dec" ELSE "root"]
  /\ UNCHANGED <<elems, count, dead, mark, freed, shared, prog, work, graph>>

PushRoot(th) ==
  /\ pc[th] = "root"
  /\ roots' = Append(roots, arg[th])
  /\ pc' = [pc EXCEPT ![th] = "dec"]
  /\ UNCHANGED <<heap, deferred, epoch, last, prog, work, graph>>

\* ...before its reference is given back.
Dec(th) ==
  /\ pc[th] = "dec"
  /\ Count(th, arg[th], count[arg[th]] - 1, "touch")
  /\ dying' = [dying EXCEPT ![th] = IF count[arg[th]] = 1 THEN Append(@, arg[th]) ELSE @]
  /\ UNCHANGED <<elems, buffered, dead, mark, freed, shared, prog, arg, kids, cur, graph>>

\* destroy: the next value of the stack gives its elements back...
Destroy(th) ==
  /\ pc[th] = "release" /\ kids[th] = {} /\ cur[th] = Null /\ dying[th] # <<>>
  /\ cur' = [cur EXCEPT ![th] = Last(dying[th])]
  /\ kids' = [kids EXCEPT ![th] = elems[Last(dying[th])]]
  /\ dying' = [dying EXCEPT ![th] = Front(@)]
  /\ UNCHANGED <<heap, shared, prog, pc, arg, graph>>

\* ...then says that it is dead; the collection frees it if it is a root.
Bury(th) ==
  /\ pc[th] = "release" /\ kids[th] = {} /\ cur[th] # Null
  /\ dead' = [dead EXCEPT ![cur[th]] = TRUE]
  /\ IF buffered[cur[th]]
       THEN cur' = [cur EXCEPT ![th] = Null] /\ UNCHANGED pc
       ELSE pc' = [pc EXCEPT ![th] = "dealloc"] /\ UNCHANGED cur
  /\ UNCHANGED <<elems, count, buffered, mark, freed, shared, prog, arg, kids,
                 dying, graph>>

\* dealloc_block: at once, unless a collection may still read the block.
Dealloc(th) ==
  /\ pc[th] = "dealloc"
  /\ IF epoch = 0
       THEN /\ freed' = [freed EXCEPT ![cur[th]] = TRUE]
            /\ cur' = [cur EXCEPT ![th] = Null]
            /\ pc' = [pc EXCEPT ![th] = "release"]
       ELSE pc' = [pc EXCEPT ![th] = "defer"] /\ UNCHANGED <<freed, cur>>
  /\ UNCHANGED <<elems, count, buffered, dead, mark, shared, prog, arg, kids,
                 dying, graph>>

Defer(th) ==
  /\ pc[th] = "defer"
  /\ deferred' = Append(deferred, cur[th])
  /\ cur' = [cur EXCEPT ![th] = Null]
  /\ pc' = [pc EXCEPT ![th] = "release"]
  /\ UNCHANGED <<heap, roots, epoch, last, prog, arg, kids, dying, graph>>

Released(th) ==
  /\ pc[th] = "release" /\ kids[th] = {} /\ cur[th] = Null /\ dying[th] = <<>>
  /\ pc' = [pc EXCEPT ![th] = IF th = Gc THEN "free" ELSE "code"]
  /\ UNCHANGED <<heap, shared, prog, work, graph>>

-----------------------------------------------------------------------------
(* collect_concurrent                                                      *)

At(from)   == pc[Gc] = from
Phase(to)  == pc' = [pc EXCEPT ![Gc] = to]
GcArg(v)   == arg' = [arg EXCEPT ![Gc] = v]

\* The epoch is published before the roots are taken.
Publish ==
  /\ At("off") /\ Phase("take")
  /\ epoch' = (last % Epochs) + 1 /\ last' = epoch'
  /\ UNCHANGED <<heap, roots, deferred, prog, work, graph>>

\* Fault: off by one, the first candidate is dropped.
Fault_TakeRoots_OffByOne ==
  /\ At("take") /\ Phase("dead")
  /\ todo' = SubSeq(roots, 2, Len(roots)) /\ roots' = <<>>
  /\ UNCHANGED <<heap, deferred, epoch, last, prog, work, start, nodes, noted,
                 out, seen, stack, live, fresh, left, rest>>

TakeRoots ==
  /\ At("take") /\ Phase("dead")
  /\ todo' = roots /\ roots' = <<>>
  /\ UNCHANGED <<heap, deferred, epoch, last, prog, work, start, nodes, noted,
                 out, seen, stack, live, fresh, left, rest>>

\* A root that was destroyed in the buffer is freed (unbuffer)...
LookDead ==
  /\ At("dead") /\ todo # <<>>
  /\ IF dead[Head(todo)]
       THEN /\ buffered' = [buffered EXCEPT ![Head(todo)] = FALSE]
            /\ freed' = [freed EXCEPT ![Head(todo)] = TRUE]
            /\ todo' = Tail(todo) /\ UNCHANGED <<pc, arg>>
       ELSE Phase("node") /\ GcArg(Head(todo)) /\ UNCHANGED <<buffered, freed, todo>>
  /\ UNCHANGED <<elems, count, dead, mark, shared, prog, kids, cur, dying, start,
                 nodes, noted, out, seen, stack, live, fresh, left, rest>>

\* Graph::node: the count of a value is read when it is first met.
Note(v) ==
  /\ nodes' = nodes \cup {v}
  /\ noted' = IF v \in nodes THEN noted ELSE [noted EXCEPT ![v] = count[v]]
  /\ stack' = Append(stack, v)

\* ...the others start the trace.
NoteRoot ==
  /\ At("node") /\ Phase("dead")
  /\ Note(arg[Gc])
  /\ start' = start \cup {arg[Gc]} /\ todo' = Tail(todo)
  /\ UNCHANGED <<heap, shared, prog, work, out, seen, live, fresh, left, rest>>

BeginTrace ==
  /\ At("dead") /\ todo = <<>> /\ Phase("trace")
  /\ UNCHANGED <<heap, shared, prog, work, graph>>

\* trace: the elements of a node are read under the lock of the container.
Trace ==
  /\ At("trace") /\ stack # <<>>
  /\ LET i == Last(stack) IN
       /\ stack' = Front(stack) /\ seen' = seen \cup {i}
       /\ live' = IF i \notin seen /\ noted[i] = 0 THEN live \cup {i} ELSE live
       /\ IF i \in seen \/ noted[i] = 0 \/ elems[i] = {}
            THEN UNCHANGED <<pc, kids, out>>
            ELSE /\ Phase("kids") /\ kids' = [kids EXCEPT ![Gc] = elems[i]]
                 /\ out' = [out EXCEPT ![i] = elems[i]]
  /\ UNCHANGED <<heap, shared, prog, arg, cur, dying, todo, start, nodes, noted, fresh, left, rest>>

NoteChild == \E c \in kids[Gc] :
  /\ At("kids") /\ Phase(IF kids[Gc] = {c} THEN "trace" ELSE "kids")
  /\ Note(c)
  /\ kids' = [kids EXCEPT ![Gc] = @ \ {c}]
  /\ UNCHANGED <<heap, shared, prog, arg, cur, dying, todo, start, out, seen, live, fresh, left, rest>>

BeginMark ==
  /\ At("trace") /\ stack = <<>> /\ Phase("mark")
  /\ left' = nodes
  /\ UNCHANGED <<heap, shared, prog, work, todo, start, nodes, noted, out, seen,
                 stack, live, fresh, rest>>

Internal(v) == Cardinality({u \in seen : v \in out[u]})

\* Fault: a touched value is not spared.
Fault_Mark_CountsOnly == \E v \in left :
  /\ At("mark")
  /\ left' = left \ {v}
  /\ fresh' = IF v \in live \/ noted[v] > Internal(v) THEN fresh \cup {v} ELSE fresh
  /\ live' = live \cup fresh'
  /\ UNCHANGED <<heap, shared, prog, pc, work, todo, start, nodes, noted, out,
                 seen, stack, rest>>

\* mark_live: alive if referenced from elsewhere, or touched in this epoch.
Mark == \E v \in left :
  /\ At("mark")
  /\ left' = left \ {v}
  /\ fresh' = IF v \in live \/ noted[v] > Internal(v) \/ mark[v] = epoch
                THEN fresh \cup {v} ELSE fresh
  /\ live' = live \cup fresh'
  /\ UNCHANGED <<heap, shared, prog, pc, work, todo, start, nodes, noted, out,
                 seen, stack, rest>>

\* spread; then another look at the rest, until a pass finds nothing new.
Spread ==
  /\ At("mark") /\ left = {}
  /\ live' = ReachBy(out, live) /\ fresh' = {}
  /\ left' = nodes \ live'
  /\ Phase(IF fresh = {} THEN "free" ELSE "mark")
  /\ UNCHANGED <<heap, shared, prog, work, todo, start, nodes, noted, out, seen,
                 stack, rest>>

Garbage == nodes \ live

\* free_garbage: what a dead node references outside of the dead ones...
Unlink ==
  /\ At("free") /\ rest = {}
  /\ \E g \in left :
       /\ left' = left \ {g}
       /\ rest' = elems[g] \ Garbage
  /\ UNCHANGED <<heap, shared, prog, pc, work, todo, start, nodes, noted, out,
                 seen, stack, live, fresh>>

\* ...is released, by the collector like by any thread.
Unreference == \E t \in rest :
  /\ At("free") /\ Phase("release")
  /\ rest' = rest \ {t}
  /\ kids' = [kids EXCEPT ![Gc] = {t}]
  /\ UNCHANGED <<heap, shared, prog, arg, cur, dying, todo, start, nodes, noted,
                 out, seen, stack, live, fresh, left>>

BeginSweep ==
  /\ At("free") /\ rest = {} /\ left = {} /\ Phase("sweep")
  /\ left' = Garbage
  /\ UNCHANGED <<heap, shared, prog, work, todo, start, nodes, noted, out, seen,
                 stack, live, fresh, rest>>

\* Then their blocks go.
Sweep == \E g \in left :
  /\ At("sweep")
  /\ left' = left \ {g}
  /\ freed' = [freed EXCEPT ![g] = TRUE]
  /\ UNCHANGED <<elems, count, buffered, dead, mark, shared, prog, pc, work, todo,
                 start, nodes, noted, out, seen, stack, live, fresh, rest>>

BeginKeep ==
  /\ At("sweep") /\ left = {} /\ Phase("keep")
  /\ left' = live \cap start
  /\ UNCHANGED <<heap, shared, prog, work, todo, start, nodes, noted, out, seen,
                 stack, live, fresh, rest>>

\* Fault: a live root leaves the buffer.
Fault_Keep_Unbuffers == \E v \in left :
  /\ At("keep")
  /\ left' = left \ {v}
  /\ buffered' = [buffered EXCEPT ![v] = FALSE]
  /\ freed' = [freed EXCEPT ![v] = dead[v]]
  /\ UNCHANGED <<elems, count, dead, mark, shared, prog, pc, work, todo, start,
                 nodes, noted, out, seen, stack, live, fresh, rest>>

\* A live root stays in the buffer: its release may be under way.
Keep == \E v \in left :
  /\ At("keep")
  /\ left' = left \ {v}
  /\ IF dead[v]
       THEN /\ buffered' = [buffered EXCEPT ![v] = FALSE]
            /\ freed' = [freed EXCEPT ![v] = TRUE]
            /\ UNCHANGED todo
       ELSE todo' = Append(todo, v) /\ UNCHANGED <<buffered, freed>>
  /\ UNCHANGED <<elems, count, dead, mark, shared, prog, pc, work, start, nodes,
                 noted, out, seen, stack, live, fresh, rest>>

Close ==
  /\ At("keep") /\ left = {} /\ Phase("drain")
  /\ epoch' = 0
  /\ UNCHANGED <<heap, roots, deferred, last, prog, work, graph>>

\* The blocks that the other threads set aside go.
Drain ==
  /\ At("drain") /\ Phase("requeue")
  /\ freed' = [v \in Values |-> freed[v] \/ Contains(deferred, v)]
  /\ deferred' = <<>>
  /\ UNCHANGED <<elems, count, buffered, dead, mark, roots, epoch, last, prog,
                 work, graph>>

Requeue ==
  /\ At("requeue") /\ Phase("off")
  /\ roots' = roots \o todo
  /\ GcArg(Null)
  /\ todo' = <<>> /\ start' = {} /\ nodes' = {} /\ seen' = {} /\ live' = {}
  /\ noted' = [v \in Values |-> 0] /\ out' = [v \in Values |-> {}]
  /\ UNCHANGED <<heap, deferred, epoch, last, prog, kids, cur, dying, stack,
                 fresh, left, rest>>

-----------------------------------------------------------------------------
Program(th) == Get(th) \/ Push(th) \/ Pop(th) \/ Overwrite(th) \/ Drop(th)

Release(th) == \/ Look(th) \/ Flag(th) \/ PushRoot(th) \/ Dec(th)
               \/ Destroy(th) \/ Bury(th) \/ Dealloc(th) \/ Defer(th)
               \/ Released(th)

Continue(th) == Touch(th) \/ Insert(th) \/ Release(th)

Collect == \/ TakeRoots \/ LookDead \/ NoteRoot \/ BeginTrace \/ Trace
           \/ NoteChild \/ BeginMark \/ Mark \/ Spread \/ Unlink
           \/ Unreference \/ BeginSweep \/ Sweep \/ BeginKeep \/ Keep
           \/ Close \/ Drain \/ Requeue

Next == \/ \E th \in Mutators : Program(th)
        \/ \E th \in Threads : Continue(th)
        \/ Publish \/ Collect

Spec == Init /\ [][Next]_vars

\* A thread finishes the operation it is in; the program may stop, and
\* nothing forces a collection to start.
Fairness == WF_vars(Collect) /\ \A th \in Threads : WF_vars(Continue(th))

FairSpec == Spec /\ Fairness

-----------------------------------------------------------------------------
(* Properties                                                              *)

\* Blocks that a thread can reach are never given back (rc_concurrent.rs
\* 4-12), and a collection does nothing else that a program could see.
Promise == INSTANCE Memory

KeepsPromise == Promise!Spec

\* Nobody is in the middle of an operation or of a collection.
Quiet == pc[Gc] = "off" /\ \A th \in Mutators : pc[th] = "code"

\* A thread in the middle of a retain or of a release still has a value to
\* work on: nobody gave its block back under it ("aucun thread ne peut plus
\* l'atteindre", rc_concurrent.rs 11-12).
TouchAlive ==
  \A th \in Mutators :
    /\ pc[th] \in {"got", "pushing", "insert", "flag", "root", "dec", "touch"} => ~freed[arg[th]]
    /\ cur[th] # Null => ~freed[cur[th]]

\* No block is given back twice: one that waits in DEFERRED is not in the
\* buffer of roots and is not freed meanwhile.
FreedOnce ==
  /\ IsInjective(deferred)
  /\ \A i \in DOMAIN deferred :
       ~freed[deferred[i]] /\ ~Contains(roots, deferred[i]) /\ ~Contains(todo, deferred[i])

\* Between operations the counts are those of the references.
CountsExact ==
  Quiet => \A v \in Values : ~freed[v] /\ ~dead[v] =>
             count[v] = Cardinality(Owners(v)) + Cardinality(Within(v))

\* ...and BUFFERED says which values are in the buffer, once each.
BufferExact ==
  Quiet => /\ IsInjective(roots)
           /\ \A v \in Values : ~freed[v] => (buffered[v] <=> Contains(roots, v))

\* No cycle is lost: between operations, what no thread can reach any more
\* is still reached from a root that the next collection will look at.
NoCycleLost ==
  Quiet => \A v \in Values :
    \/ freed[v] \/ v \in Reachable \/ Contains(deferred, v)
    \/ v \in ReachBy([u \in Values |-> IF dead[u] THEN {} ELSE elems[u]], ToSet(roots))

\* Between operations the heap is as if there were no collector, but for the
\* garbage that it has still to find: counts, flags and buffers agree.
HeapExact == TypeOK /\ FreedOnce /\ CountsExact /\ BufferExact /\ NoCycleLost

\* If collections keep happening, what no thread can reach is freed.
GarbageFreed ==
  []<>(pc[Gc] = "take") => \A v \in Values : v \notin Reachable ~> freed[v]
=============================================================================
