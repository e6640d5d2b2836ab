-------------------------------- MODULE Park --------------------------------
(***************************************************************************)
(* Who runs while the cycle collector runs (runtime/src/rc.rs, 47-204 and  *)
(* collect_cycles).                                                        *)
(*                                                                         *)
(* RUNNING counts the threads that execute Ocara code.  A thread leaves    *)
(* the count around every blocking call and comes back through `resume`.   *)
(* A collection announces itself in EXCLUSIVE; if its thread then finds    *)
(* itself alone it works on the counts in place, and the others wait for   *)
(* it in `resume`; otherwise it collects while they run.                   *)
(*                                                                         *)
(* One action is one access to one of the atomics.  `count` stands for the *)
(* header word of one shared value: every thread owns at most one          *)
(* reference to it.                                                        *)
(***************************************************************************)
EXTENDS Integers, FiniteSets

CONSTANTS
  Main,            \* the thread that is counted from the start
  Own,             \* threads the program creates (ThreadGuard)
  Foreign,         \* threads that call Ocara code (enter): pool, platform
  Announced,       \* is MULTI_THREADED set before a Foreign thread exists?
  MaxCollections   \* bound: collections of one behaviour

Threads == {Main} \cup Own \cup Foreign

ASSUME ThreadsAssumption ==
  /\ Main \notin Own /\ Main \notin Foreign /\ Own \cap Foreign = {}
  /\ IsFiniteSet(Own) /\ IsFiniteSet(Foreign)
ASSUME BoundAssumption == MaxCollections \in Nat /\ Announced \in BOOLEAN

VARIABLES
  running,     \* RUNNING
  exclusive,   \* EXCLUSIVE
  collecting,  \* COLLECTING
  multi,       \* MULTI_THREADED
  count,       \* the count of the shared value
  refs,        \* refs[th]: the references th owns (ghost)
  pc,          \* where each thread is
  seen,        \* seen[th]: the count add_count loaded on its plain path
  hire,        \* hire[th]: the thread that th is creating
  done         \* collections started

counters == <<count, refs, seen>>
vars == <<running, exclusive, collecting, multi, count, refs, pc, seen, hire, done>>

\* Points of a thread that RUNNING does not count...
Outside == {"absent",    \* not created, or outside of Ocara code
            "resuming",  \* at the head of the loop of resume
            "away",      \* parked
            "booked",    \* about to be counted by its parent
            "spin"}      \* resume: while EXCLUSIVE { yield_now() }
\* ...that it counts, before the thread knows whether it may run...
Probing == {"raised",    \* resume: counted, about to read EXCLUSIVE
            "undo"}      \* resume: EXCLUSIVE was set
\* ...and that it counts and that touch the program's values.
Busy    == {"code",
            "plain",     \* add_count: count loaded, not stored yet
            "hiring",    \* ThreadGuard::new: MULTI_THREADED is set
            "creating",  \* guard taken, thread not created yet
            "reserved",  \* counted by its parent, not created yet
            "hired",     \* created, has not run yet
            "full",      \* collect_due: waits for the collection in progress
            "due",       \* COLLECTING was free, about to swap it
            "claimed",   \* collect_cycles: COLLECTING was free
            "stopping",  \* EXCLUSIVE set, about to read RUNNING
            "alone",     \* collect_exclusive
            "giveup",    \* not alone: about to clear EXCLUSIVE
            "beside",    \* collect_concurrent
            "closing"}   \* about to clear COLLECTING
PCs == Outside \cup Probing \cup Busy

Counted == {th \in Threads : pc[th] \in Probing \cup Busy}

TypeOK ==
  /\ running \in Nat /\ exclusive \in BOOLEAN /\ collecting \in BOOLEAN
  /\ multi \in BOOLEAN /\ done \in 0..MaxCollections
  /\ count \in Int /\ refs \in [Threads -> {0, 1}] /\ seen \in [Threads -> Int]
  /\ pc \in [Threads -> PCs]
  /\ hire \in [Threads -> Threads]

Init ==
  /\ running = 1 /\ exclusive = FALSE /\ collecting = FALSE /\ multi = FALSE
  /\ count = 1 /\ refs = [th \in Threads |-> IF th = Main THEN 1 ELSE 0]
  /\ seen = [th \in Threads |-> 0]
  /\ pc = [th \in Threads |-> IF th = Main THEN "code" ELSE "absent"]
  /\ hire = [th \in Threads |-> Main]
  /\ done = 0

Goto(th, from, to) == pc[th] = from /\ pc' = [pc EXCEPT ![th] = to]

-----------------------------------------------------------------------------
(* Counts                                                                  *)

\* retain, or release of a reference that th owns.
Delta(th) == IF refs[th] = 0 THEN 1 ELSE -1

\* Nobody reaches a value that has no reference left.
Reachable == count > 0

\* add_count, several threads: one atomic operation.
AddAtomic(th) ==
  /\ pc[th] = "code" /\ multi /\ Reachable
  /\ count' = count + Delta(th)
  /\ refs' = [refs EXCEPT ![th] = @ + Delta(th)]
  /\ UNCHANGED <<running, exclusive, collecting, multi, pc, seen, hire, done>>

\* add_count, a single thread: a load...
AddLoad(th) ==
  /\ Goto(th, "code", "plain") /\ ~multi /\ Reachable
  /\ seen' = [seen EXCEPT ![th] = count]
  /\ UNCHANGED <<running, exclusive, collecting, multi, count, refs, hire, done>>

\* ...and a store.
AddStore(th) ==
  /\ Goto(th, "plain", "code")
  /\ count' = seen[th] + Delta(th)
  /\ refs' = [refs EXCEPT ![th] = @ + Delta(th)]
  /\ UNCHANGED <<running, exclusive, collecting, multi, seen, hire, done>>

-----------------------------------------------------------------------------
(* Threads                                                                 *)

\* submit: the creator of a thread of the pool announces it.
Announce(th) ==
  /\ pc[th] = "code" /\ Announced
  /\ multi' = TRUE
  /\ UNCHANGED <<running, exclusive, collecting, counters, pc, hire, done>>

\* Fault: the counts stay plain words when the thread is created.
Fault_Hire_Silent(th) ==
  /\ \E child \in Own :
       /\ pc[th] = "code" /\ pc[child] = "absent"
       /\ pc' = [pc EXCEPT ![th] = "hiring", ![child] = "booked"]
       /\ hire' = [hire EXCEPT ![th] = child]
  /\ UNCHANGED <<running, exclusive, collecting, multi, counters, done>>

\* ThreadGuard::new: go_multi_threaded...
Hire(th) ==
  /\ \E child \in Own :
       /\ pc[th] = "code" /\ pc[child] = "absent"
       /\ pc' = [pc EXCEPT ![th] = "hiring", ![child] = "booked"]
       /\ hire' = [hire EXCEPT ![th] = child]
  /\ multi' = TRUE
  /\ UNCHANGED <<running, exclusive, collecting, counters, done>>

\* ...then RUNNING, on behalf of the thread to come.
Guard(th) ==
  /\ pc[th] = "hiring" /\ pc[hire[th]] = "booked"
  /\ pc' = [pc EXCEPT ![th] = "creating", ![hire[th]] = "reserved"]
  /\ running' = running + 1
  /\ UNCHANGED <<exclusive, collecting, multi, counters, hire, done>>

\* Builder::spawn succeeds...
Created(th) ==
  /\ pc[th] = "creating" /\ pc[hire[th]] = "reserved"
  /\ pc' = [pc EXCEPT ![th] = "code", ![hire[th]] = "hired"]
  /\ UNCHANGED <<running, exclusive, collecting, multi, counters, hire, done>>

\* ...or fails, and drops the closure that owns the guard.
SpawnFails(th) ==
  /\ pc[th] = "creating" /\ pc[hire[th]] = "reserved"
  /\ pc' = [pc EXCEPT ![th] = "code", ![hire[th]] = "absent"]
  /\ running' = running - 1
  /\ UNCHANGED <<exclusive, collecting, multi, counters, hire, done>>

\* The thread starts, already counted.
StartOwn(th) ==
  /\ th \in Own
  /\ Goto(th, "hired", "code")
  /\ UNCHANGED <<running, exclusive, collecting, multi, counters, hire, done>>

\* The thread ends: its guard is dropped last, after its references.
EndOwn(th) ==
  /\ th \in Own /\ refs[th] = 0
  /\ Goto(th, "code", "absent")
  /\ running' = running - 1
  /\ UNCHANGED <<exclusive, collecting, multi, counters, hire, done>>

\* enter: go_multi_threaded, then resume.
Enter(th) ==
  /\ th \in Foreign /\ (Announced => multi)
  /\ Goto(th, "absent", "resuming")
  /\ multi' = TRUE
  /\ UNCHANGED <<running, exclusive, collecting, counters, hire, done>>

\* Entered is dropped: the handler, or the task, is over.
LeaveForeign(th) ==
  /\ th \in Foreign /\ refs[th] = 0
  /\ Goto(th, "code", "absent")
  /\ running' = running - 1
  /\ UNCHANGED <<exclusive, collecting, multi, counters, hire, done>>

\* park: the thread is about to block.
Park(th) ==
  /\ Goto(th, "code", "away")
  /\ running' = running - 1
  /\ UNCHANGED <<exclusive, collecting, multi, counters, hire, done>>

\* The blocking call returns: Parked is dropped.
Wake(th) ==
  /\ Goto(th, "away", "resuming")
  /\ UNCHANGED <<running, exclusive, collecting, multi, counters, hire, done>>

\* Fault: the thread comes back without looking at EXCLUSIVE.
Fault_Raise_Blind(th) ==
  /\ Goto(th, "resuming", "code")
  /\ running' = running + 1
  /\ UNCHANGED <<exclusive, collecting, multi, counters, hire, done>>

\* resume: counted first...
Raise(th) ==
  /\ Goto(th, "resuming", "raised")
  /\ running' = running + 1
  /\ UNCHANGED <<exclusive, collecting, multi, counters, hire, done>>

\* ...then allowed to run, unless a collection wants to be alone.
Probe(th) ==
  /\ pc[th] = "raised"
  /\ pc' = [pc EXCEPT ![th] = IF exclusive THEN "undo" ELSE "code"]
  /\ UNCHANGED <<running, exclusive, collecting, multi, counters, hire, done>>

\* Fault: the count is kept while waiting.
Fault_Undo_StaysCounted(th) ==
  /\ Goto(th, "undo", "spin")
  /\ UNCHANGED <<running, exclusive, collecting, multi, counters, hire, done>>

Undo(th) ==
  /\ Goto(th, "undo", "spin")
  /\ running' = running - 1
  /\ UNCHANGED <<exclusive, collecting, multi, counters, hire, done>>

\* The collection is over: once more round the loop.
Respin(th) ==
  /\ Goto(th, "spin", "resuming")
  /\ ~exclusive
  /\ UNCHANGED <<running, exclusive, collecting, multi, counters, hire, done>>

-----------------------------------------------------------------------------
(* collect_due and collect_cycles                                          *)

\* collect_due: the buffer of roots is beyond four times its threshold.
BackPressure(th) ==
  /\ Goto(th, "code", "full") /\ done < MaxCollections
  /\ UNCHANGED <<running, exclusive, collecting, multi, counters, hire, done>>

\* The loop of collect_due ends on a load; another thread may be faster to swap.
PassGate(th) ==
  /\ Goto(th, "full", "due") /\ ~collecting
  /\ UNCHANGED <<running, exclusive, collecting, multi, counters, hire, done>>

\* COLLECTING.swap(true): one collection at a time.
Claim(th) ==
  /\ pc[th] \in {"code", "due"}
  /\ IF collecting
       THEN pc' = [pc EXCEPT ![th] = "code"] /\ UNCHANGED done
       ELSE /\ done < MaxCollections /\ done' = done + 1
            /\ pc' = [pc EXCEPT ![th] = "claimed"]
  /\ collecting' = TRUE
  /\ UNCHANGED <<running, exclusive, multi, counters, hire>>

\* The bound is reached: the thread that waited goes on without collecting.
Unfull(th) ==
  /\ Goto(th, "due", "code")
  /\ ~collecting /\ done = MaxCollections
  /\ UNCHANGED <<running, exclusive, collecting, multi, counters, hire, done>>

Stop(th) ==
  /\ Goto(th, "claimed", "stopping")
  /\ exclusive' = TRUE
  /\ UNCHANGED <<running, collecting, multi, counters, hire, done>>

\* Fault: the collector waits until it is alone.
Fault_Decide_Waits(th) ==
  /\ pc[th] = "stopping"
  /\ pc' = [pc EXCEPT ![th] = IF running = 1 THEN "alone" ELSE @]
  /\ UNCHANGED <<running, exclusive, collecting, multi, counters, hire, done>>

\* RUNNING == 1
Decide(th) ==
  /\ pc[th] = "stopping"
  /\ pc' = [pc EXCEPT ![th] = IF running = 1 THEN "alone" ELSE "giveup"]
  /\ UNCHANGED <<running, exclusive, collecting, multi, counters, hire, done>>

\* Fault: a collection that is not alone leaves EXCLUSIVE set.
Fault_GiveUp_KeepsExclusive(th) ==
  /\ Goto(th, "giveup", "beside")
  /\ UNCHANGED <<running, exclusive, collecting, multi, counters, hire, done>>

GiveUp(th) ==
  /\ Goto(th, "giveup", "beside")
  /\ exclusive' = FALSE
  /\ UNCHANGED <<running, collecting, multi, counters, hire, done>>

\* collect_exclusive is over.
Reopen(th) ==
  /\ Goto(th, "alone", "closing")
  /\ exclusive' = FALSE
  /\ UNCHANGED <<running, collecting, multi, counters, hire, done>>

\* collect_concurrent is over.
EndBeside(th) ==
  /\ Goto(th, "beside", "closing")
  /\ UNCHANGED <<running, exclusive, collecting, multi, counters, hire, done>>

Close(th) ==
  /\ Goto(th, "closing", "code")
  /\ collecting' = FALSE
  /\ UNCHANGED <<running, exclusive, multi, counters, hire, done>>

-----------------------------------------------------------------------------
Counting(th)   == AddAtomic(th) \/ AddLoad(th) \/ AddStore(th)
Creating(th)   == \/ Announce(th) \/ Hire(th) \/ Guard(th)
                  \/ Created(th) \/ SpawnFails(th)
Living(th)     == StartOwn(th) \/ EndOwn(th) \/ Enter(th) \/ LeaveForeign(th)
Resuming(th)   == Raise(th) \/ Probe(th) \/ Undo(th) \/ Respin(th)
Collecting(th) == Stop(th) \/ Decide(th) \/ GiveUp(th) \/ Reopen(th)
                  \/ EndBeside(th) \/ Close(th)
Waiting(th)    == PassGate(th) \/ (pc[th] = "due" /\ (Claim(th) \/ Unfull(th)))

Next == \E th \in Threads :
          \/ Counting(th) \/ Creating(th) \/ Living(th)
          \/ Park(th) \/ Wake(th) \/ Resuming(th)
          \/ BackPressure(th) \/ PassGate(th) \/ Claim(th) \/ Unfull(th)
          \/ Collecting(th)

Spec == Init /\ [][Next]_vars

\* A thread the scheduler runs finishes its resume and its collection; when
\* a blocking call returns, and what the program does next, is open.
Fairness == \A th \in Threads :
  WF_vars(Resuming(th)) /\ WF_vars(Collecting(th)) /\ WF_vars(Waiting(th))

FairSpec == Spec /\ Fairness

-----------------------------------------------------------------------------
(* Properties                                                              *)

\* RUNNING is the number of threads that are counted: no path through
\* guards, park, enter and resume counts a thread twice or forgets one.
RunningExact == running = Cardinality(Counted)

\* Points of a thread that owns COLLECTING.
Collector == {"claimed", "stopping", "alone", "giveup", "beside", "closing"}

\* While a thread collects in place no other thread touches a value, and
\* the ones that come back are still held by EXCLUSIVE.
StopTheWorld ==
  \A c \in Threads : pc[c] = "alone" =>
    exclusive /\ \A th \in Threads \ {c} : pc[th] \notin Busy

\* There is one collection at a time, and COLLECTING says so.
OneCollection ==
  /\ \A c, d \in Threads : pc[c] \in Collector /\ pc[d] \in Collector => c = d
  /\ collecting <=> \E c \in Threads : pc[c] \in Collector

\* EXCLUSIVE is set exactly while a collection needs it: it is never left
\* behind, with every thread that comes back spinning on it.
ExclusiveOwned ==
  exclusive <=> \E c \in Threads : pc[c] \in {"stopping", "alone", "giveup"}

\* Whatever thread leaves, comes back or collects, the three flags say what is
\* going on: no counter drifts, no collection locks the others out for good.
FlagsExact == TypeOK /\ RunningExact /\ OneCollection /\ ExclusiveOwned

\* No update of a count is lost: the header word is the number of references
\* the threads own ("tant qu'un seul thread en execute, une simple
\* lecture-ecriture suffit", rc.rs 84-87).
CountExact == count = Cardinality({th \in Threads : refs[th] = 1})

\* A thread back from a blocking call runs again.
Resumes == \A th \in Threads : pc[th] = "resuming" ~> pc[th] = "code"

\* A collection ends, and so does the wait of a thread that produces roots
\* faster than the collector.
CollectionEnds ==
  \A th \in Threads : pc[th] \in Collector \cup {"full", "due"} ~> pc[th] = "code"
=============================================================================
