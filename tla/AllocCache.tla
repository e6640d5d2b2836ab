----------------------------- MODULE AllocCache -----------------------------
(* The global allocator of the runtime (runtime/src/alloc_cache.rs), for one *)
(* class of sizes: the classes share nothing.  Free blocks are chained       *)
(* through their first word, in a list per thread and in a common pool;      *)
(* chains of Batch blocks go from one to the other under the lock of the     *)
(* pool, and a thread's list goes there whole when its guard is dropped.     *)
(* A block comes from the system in a slab of Slab blocks, or alone when the *)
(* system has no room for a slab, and never goes back.                       *)
EXTENDS Naturals, FiniteSets

CONSTANTS Threads,     \* the threads that allocate
          LocalMax,    \* LOCAL_MAX
          Batch,       \* BATCH
          Slab,        \* SLAB_BYTES / size of the class
          MaxBlocks,   \* bound: blocks that the system has
          Null,        \* the null pointer
          Data         \* what the program wrote in the first word of its block

ASSUME SizesAssumption ==
  /\ LocalMax \in Nat /\ Batch \in 1..LocalMax /\ Slab \in Nat \ {0} /\ MaxBlocks \in Nat
  /\ Null \notin 1..MaxBlocks /\ Data \notin 1..MaxBlocks /\ Null # Data

VARIABLES
  next,     \* block -> its first word
  head,     \* thread -> first block of its list
  count,    \* thread -> lists.counts
  guarded,  \* thread -> lists.guarded
  guard,    \* thread -> the state of the thread-local GUARD
  life,     \* thread -> unborn, running, ending (its destructors run), over
  pc,       \* thread -> run, or the step of an operation that comes next
  moving,   \* thread -> the chain that it took off its list, outside of any
  old,      \* thread -> the block that realloc copies from
  pool,     \* head and count of the pool
  used,     \* blocks in the hands of the program
  taken,    \* blocks that the system gave: 1..taken
  late      \* threads that used the allocator after their guard was dropped

vars == <<next, head, count, guarded, guard, life, pc, moving, old, pool, used, taken, late>>

Blocks == 1..MaxBlocks
Words == Blocks \cup {Null}
NoChain == [first |-> Null, last |-> Null, count |-> 0]

Init ==
  /\ next = [b \in Blocks |-> Data]
  /\ head = [th \in Threads |-> Null]
  /\ count = [th \in Threads |-> 0]
  /\ guarded = [th \in Threads |-> FALSE]
  /\ guard = [th \in Threads |-> "initial"]
  /\ life = [th \in Threads |-> "unborn"]
  /\ pc = [th \in Threads |-> "run"]
  /\ moving = [th \in Threads |-> NoChain]
  /\ old = [th \in Threads |-> Null]
  /\ pool = [head |-> Null, count |-> 0]
  /\ used = {} /\ taken = 0 /\ late = {}

-----------------------------------------------------------------------------
(* Chains                                                                  *)

\* The word reached from b after n steps, in memory m.
Walk(m, b, n) ==
  LET at[i \in 0..n] == IF i = 0 THEN b
                        ELSE IF at[i - 1] \in Blocks THEN m[at[i - 1]] ELSE Data
  IN at[n]

\* The n blocks of the chain that starts at b.
Chain(m, b, n) == {Walk(m, b, i) : i \in 0..(n - 1)}

\* The thread is in the program or in a destructor, between two operations.
Ready(th) == pc[th] = "run" /\ life[th] \in {"running", "ending"}

\* Any use of the allocator by th.
Notes(th) == late' = IF guard[th] = "destroyed" THEN late \cup {th} ELSE late

\* Fault: the wrong number of steps: the last block stays with both.
Fault_Detach_Short(th, m, h, total, n) ==
  LET last == Walk(m, h, n - 1) IN
  /\ head' = [head EXCEPT ![th] = last]
  /\ count' = [count EXCEPT ![th] = total - n]
  /\ moving' = [moving EXCEPT ![th] = [first |-> h, last |-> last, count |-> n]]
  /\ pc' = [pc EXCEPT ![th] = "giving"]

\* Takes n blocks off the list that starts at h in memory m, to give them.
Detach(th, m, h, total, n) ==
  LET last == Walk(m, h, n - 1) IN
  /\ head' = [head EXCEPT ![th] = m[last]]
  /\ count' = [count EXCEPT ![th] = total - n]
  /\ moving' = [moving EXCEPT ![th] = [first |-> h, last |-> last, count |-> n]]
  /\ pc' = [pc EXCEPT ![th] = "giving"]

-----------------------------------------------------------------------------
(* alloc                                                                   *)

\* The first block of the list that starts at h in memory m is the program's.
Hand(th, m, h, total) ==
  /\ head' = [head EXCEPT ![th] = m[h]]
  /\ count' = [count EXCEPT ![th] = total - 1]
  /\ next' = [m EXCEPT ![h] = Data]
  /\ used' = used \cup {h}
  /\ pc' = [pc EXCEPT ![th] = IF old[th] = Null THEN "run" ELSE "copied"]

AllocLocal(th) ==
  /\ Ready(th) /\ head[th] # Null
  /\ Hand(th, next, head[th], count[th])
  /\ Notes(th)
  /\ UNCHANGED <<guarded, guard, life, moving, old, pool, taken>>

\* Fault: the end of the batch is not cut off from the pool.
Fault_AllocFromPool_NotCut(th) ==
  /\ Ready(th) /\ head[th] = Null /\ pool.count > 0
  /\ LET n == IF pool.count < Batch THEN pool.count ELSE Batch
         last == Walk(next, pool.head, n - 1)
     IN /\ pool' = [head |-> next[last], count |-> pool.count - n]
        /\ Hand(th, next, pool.head, count[th] + n)
  /\ Notes(th)
  /\ UNCHANGED <<guarded, guard, life, moving, old, taken>>

\* refill: a batch of the pool, or all that it has.
AllocFromPool(th) ==
  /\ Ready(th) /\ head[th] = Null /\ pool.count > 0
  /\ LET n == IF pool.count < Batch THEN pool.count ELSE Batch
         last == Walk(next, pool.head, n - 1)
     IN /\ pool' = [head |-> next[last], count |-> pool.count - n]
        /\ Hand(th, [next EXCEPT ![last] = head[th]], pool.head, count[th] + n)
  /\ Notes(th)
  /\ UNCHANGED <<guarded, guard, life, moving, old, taken>>

\* refill: the pool is empty, its lock is given back.
PoolEmpty(th) ==
  /\ Ready(th) /\ head[th] = Null /\ pool.count = 0
  /\ pc' = [pc EXCEPT ![th] = "slab"]
  /\ Notes(th)
  /\ UNCHANGED <<next, head, count, guarded, guard, life, moving, old, pool, used, taken>>

\* refill: a new slab, chained from its first block to its last.
NewSlab(th) ==
  /\ pc[th] = "slab" /\ taken + Slab <= MaxBlocks
  /\ LET m == [b \in Blocks |-> IF b \notin (taken + 1)..(taken + Slab) THEN next[b]
                                ELSE IF b < taken + Slab THEN b + 1 ELSE head[th]]
     IN Hand(th, m, taken + 1, count[th] + Slab)
  /\ taken' = taken + Slab
  /\ UNCHANGED <<guarded, guard, life, moving, old, pool, late>>

\* No slab: a block of the system, that joins the lists when it is freed.
SystemBlock(th) ==
  /\ pc[th] = "slab" /\ taken < MaxBlocks
  /\ taken' = taken + 1
  /\ used' = used \cup {taken + 1}
  /\ pc' = [pc EXCEPT ![th] = IF old[th] = Null THEN "run" ELSE "copied"]
  /\ UNCHANGED <<next, head, count, guarded, guard, life, moving, old, pool, late>>

\* No memory at all: alloc returns null, realloc leaves its block as it was.
NoMemory(th) ==
  /\ pc[th] = "slab"
  /\ pc' = [pc EXCEPT ![th] = "run"]
  /\ used' = used \cup ({old[th]} \ {Null})
  /\ old' = [old EXCEPT ![th] = Null]
  /\ UNCHANGED <<next, head, count, guarded, guard, life, moving, pool, taken, late>>

-----------------------------------------------------------------------------
(* dealloc and realloc                                                     *)

\* Fault: a thread that only frees its last blocks never registers its guard.
Fault_Dealloc_Unguarded(th, b) ==
  LET m == [next EXCEPT ![b] = head[th]]
      total == count[th] + 1
  IN /\ guarded' = [guarded EXCEPT ![th] = TRUE]
     /\ UNCHANGED guard
     /\ next' = m
     /\ IF total > LocalMax
        THEN Detach(th, m, b, total, Batch)
        ELSE /\ head' = [head EXCEPT ![th] = b]
             /\ count' = [count EXCEPT ![th] = total]
             /\ pc' = [pc EXCEPT ![th] = "run"]
             /\ UNCHANGED moving
     /\ Notes(th)

\* The block joins the thread's list; the first one registers the guard, and
\* beyond LOCAL_MAX a batch goes to the pool.
Dealloc(th, b) ==
  LET m == [next EXCEPT ![b] = head[th]]
      total == count[th] + 1
  IN /\ guarded' = [guarded EXCEPT ![th] = TRUE]
     /\ guard' = IF guarded[th] THEN guard ELSE [guard EXCEPT ![th] = "alive"]
     /\ next' = m
     /\ IF total > LocalMax
        THEN Detach(th, m, b, total, Batch)
        ELSE /\ head' = [head EXCEPT ![th] = b]
             /\ count' = [count EXCEPT ![th] = total]
             /\ pc' = [pc EXCEPT ![th] = "run"]
             /\ UNCHANGED moving
     /\ Notes(th)

\* Any thread may free any block.
Free(th, b) ==
  /\ Ready(th) /\ old[th] = Null /\ b \in used
  /\ used' = used \ {b}
  /\ Dealloc(th, b)
  /\ UNCHANGED <<life, old, pool, taken>>

\* realloc is an alloc, a copy and a dealloc.
Realloc(th, b) ==
  /\ Ready(th) /\ old[th] = Null /\ b \in used
  /\ used' = used \ {b}
  /\ old' = [old EXCEPT ![th] = b]
  /\ UNCHANGED <<next, head, count, guarded, guard, life, pc, moving, pool, taken, late>>

Copied(th) ==
  /\ pc[th] = "copied"
  /\ Dealloc(th, old[th])
  /\ old' = [old EXCEPT ![th] = Null]
  /\ UNCHANGED <<life, pool, used, taken>>

\* give: the chain goes in front of the pool, under its lock.
Give(th) ==
  /\ pc[th] = "giving"
  /\ next' = [next EXCEPT ![moving[th].last] = pool.head]
  /\ pool' = [head |-> moving[th].first, count |-> pool.count + moving[th].count]
  /\ moving' = [moving EXCEPT ![th] = NoChain]
  /\ pc' = [pc EXCEPT ![th] = "run"]
  /\ UNCHANGED <<head, count, guarded, guard, life, old, used, taken, late>>

-----------------------------------------------------------------------------
(* Threads                                                                 *)

Start(th) ==
  /\ life[th] = "unborn"
  /\ life' = [life EXCEPT ![th] = "running"]
  /\ UNCHANGED <<next, head, count, guarded, guard, pc, moving, old, pool, used, taken, late>>

\* The thread returned: its destructors run, those of other thread-locals
\* before or after the guard's.
End(th) ==
  /\ life[th] = "running" /\ pc[th] = "run" /\ old[th] = Null
  /\ life' = [life EXCEPT ![th] = "ending"]
  /\ UNCHANGED <<next, head, count, guarded, guard, pc, moving, old, pool, used, taken, late>>

\* Guard::drop gives the whole list.
DropGuard(th) ==
  /\ life[th] = "ending" /\ pc[th] = "run" /\ old[th] = Null /\ guard[th] = "alive"
  /\ guard' = [guard EXCEPT ![th] = "destroyed"]
  /\ IF count[th] = 0 THEN UNCHANGED <<head, count, moving, pc>>
     ELSE Detach(th, next, head[th], count[th], count[th])
  /\ UNCHANGED <<next, guarded, life, old, pool, used, taken, late>>

\* The thread's memory goes away, with the head of its list.
Over(th) ==
  /\ life[th] = "ending" /\ pc[th] = "run" /\ old[th] = Null /\ guard[th] # "alive"
  /\ life' = [life EXCEPT ![th] = "over"]
  /\ UNCHANGED <<next, head, count, guarded, guard, pc, moving, old, pool, used, taken, late>>

-----------------------------------------------------------------------------

Alloc(th) == AllocLocal(th) \/ AllocFromPool(th) \/ PoolEmpty(th)

Step(th) ==
  \/ NewSlab(th) \/ SystemBlock(th) \/ NoMemory(th) \/ Copied(th) \/ Give(th)
  \/ DropGuard(th) \/ Over(th)

Next ==
  \E th \in Threads :
    \/ Start(th) \/ End(th) \/ Alloc(th) \/ Step(th)
    \/ \E b \in Blocks : Free(th, b) \/ Realloc(th, b)

Spec == Init /\ [][Next]_vars

-----------------------------------------------------------------------------
(* Properties                                                              *)

TypeOK ==
  /\ next \in [Blocks -> Words \cup {Data}]
  /\ head \in [Threads -> Words] /\ count \in [Threads -> Nat]
  /\ guarded \in [Threads -> BOOLEAN]
  /\ guard \in [Threads -> {"initial", "alive", "destroyed"}]
  /\ life \in [Threads -> {"unborn", "running", "ending", "over"}]
  /\ pc \in [Threads -> {"run", "slab", "copied", "giving"}]
  /\ moving \in [Threads -> [first : Words, last : Words, count : Nat]]
  /\ old \in [Threads -> Words]
  /\ pool \in [head : Words, count : Nat]
  /\ used \subseteq 1..taken /\ taken \in 0..MaxBlocks /\ late \subseteq Threads

\* Each list ends after as many blocks as its counter says, in the thread's
\* cache, in the pool and on the way between them: no walk of `count` steps
\* leaves the list, and no list goes through a word that the program wrote.
ChainsExact ==
  /\ \A th \in Threads :
       /\ Walk(next, head[th], count[th]) = Null
       /\ moving[th].count > 0 =>
            Walk(next, moving[th].first, moving[th].count - 1) = moving[th].last
  /\ Walk(next, pool.head, pool.count) = Null

InMoving(th) == Chain(next, moving[th].first, moving[th].count)
InList(th) == Chain(next, head[th], count[th])
InPool == Chain(next, pool.head, pool.count)

\* A block has one owner: the program, one list, the pool, or one thread that
\* moves it; none is handed out twice and none is forgotten, whatever threads
\* free, move and end at the same time.
OneOwner ==
  LET held == {old[th] : th \in Threads} \ {Null}
      owners == {<<"used", b>> : b \in used \cup held} \cup {<<"pool", b>> : b \in InPool}
                  \cup UNION {({<<th, "list">>} \X InList(th)) \cup ({<<th, "moving">>} \X InMoving(th))
                              : th \in Threads}
  IN /\ {o[2] : o \in owners} = 1..taken
     /\ Cardinality(owners) = taken
     /\ Cardinality(held) = Cardinality({th \in Threads : old[th] # Null})
     /\ held \cap used = {}

\* A thread that is over has left no free block behind, when it freed at least
\* one (which registers its guard) and none after its guard: "une liste de
\* thread y est versée à sa fin".
HandedOver ==
  \A th \in Threads : life[th] = "over" /\ guarded[th] /\ th \notin late => head[th] = Null

\* A list stays within what a slab or LOCAL_MAX allows: what a thread frees
\* for others comes back to the pool.
ListBounded ==
  \A th \in Threads : count[th] <= (IF Slab - 1 > LocalMax THEN Slab - 1 ELSE LocalMax)

\* The lists are what their counters say, and stay within their limits.
ListsExact == TypeOK /\ ChainsExact /\ ListBounded
=============================================================================
