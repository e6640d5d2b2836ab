------------------------------ MODULE TaskPool ------------------------------
(***************************************************************************)
(* The pool that runs `async` tasks (runtime/src/task.rs).                 *)
(*                                                                         *)
(* A task is a closure behind a counted handle.  A thread of the pool runs *)
(* it, unless a `resolve` arrives first and runs it in place.  A task body *)
(* may itself spawn and resolve other tasks, so a thread carries a stack   *)
(* of the tasks whose code it is in the middle of.                         *)
(*                                                                         *)
(* One action is one critical section of POOL, of a task's `job` or of its *)
(* `slot`; the program counters below name the points between them.        *)
(***************************************************************************)
EXTENDS Naturals, Sequences, FiniteSets

CONSTANTS
  Tasks,          \* the tasks the program may create
  Clients,        \* threads of the program (main, Thread::run)
  Workers,        \* identities of the threads of the pool
  Awaits,         \* Awaits[t]: the tasks the body of t resolves, in order
  Internal,       \* tasks created by the body that awaits them
  SharedResolve,  \* may two threads resolve the same task at once?
  NoTask

Threads == Clients \cup Workers
Agents  == Clients \cup Tasks     \* whose code holds handles

ASSUME ThreadsAssumption ==
  /\ Clients \cap Workers = {} /\ Clients \cap Tasks = {}
  /\ IsFiniteSet(Clients) /\ IsFiniteSet(Workers) /\ IsFiniteSet(Tasks)
ASSUME TasksAssumption ==
  /\ NoTask \notin Tasks
  /\ Internal \subseteq Tasks
  /\ Awaits \in [Tasks -> Seq(Tasks)]
ASSUME ModeAssumption == SharedResolve \in BOOLEAN

VARIABLES
  queue,    \* PoolState.queue
  idle,     \* PoolState.idle
  wakeups,  \* PoolState.wakeups
  job,      \* job[t]: Shared.job still holds the closure
  slot,     \* slot[t]: Shared.slot, "Unborn" before __task_spawn
  pending,  \* PENDING
  holders,  \* holders[t]: the agents that own a reference to the handle
  todo,     \* todo[t]: what the body of t has still to await
  pc,       \* where each thread is
  stack,    \* stack[th]: the tasks th is executing, innermost last
  target,   \* target[th]: the task th popped, or is waiting for
  handed    \* handed[t]: how often the outcome of t was delivered or released

poolVars == <<queue, idle, wakeups>>
taskVars == <<job, slot, pending, holders, todo, handed>>
vars     == <<queue, idle, wakeups, job, slot, pending, holders, todo,
              pc, stack, target, handed>>

PCs == {"code",      \* program code: the client's own, or the top task's
        "spawning",  \* submit: POOL unlocked, thread not created yet
        "check",     \* resolve: about to look at the slot
        "asleep",    \* resolve: in the wait set of `done`
        "discard",   \* run_queued: task abandoned, outcome to release
        "retire",    \* outcome stored, PENDING not decremented yet
        "none",      \* worker: no such thread
        "starting",  \* worker: created, first pop_front still to come
        "taking",    \* worker: task popped, run_job still to come
        "resting",   \* worker: run_queued is over
        "waiting"}   \* worker: in POOL_READY.wait_timeout

TypeOK ==
  /\ queue \in Seq(Tasks) /\ idle \in Nat /\ wakeups \in Nat
  /\ job \in [Tasks -> BOOLEAN]
  /\ slot \in [Tasks -> {"Unborn", "Running", "Done", "Taken", "Abandoned"}]
  /\ pending \in Nat
  /\ holders \in [Tasks -> SUBSET Agents]
  /\ todo \in [Tasks -> Seq(Tasks)]
  /\ pc \in [Threads -> PCs]
  /\ stack \in [Threads -> Seq(Tasks)]
  /\ target \in [Threads -> Tasks \cup {NoTask}]
  /\ handed \in [Tasks -> Nat]

Init ==
  /\ queue = <<>> /\ idle = 0 /\ wakeups = 0
  /\ job = [t \in Tasks |-> FALSE]
  /\ slot = [t \in Tasks |-> "Unborn"]
  /\ pending = 0
  /\ holders = [t \in Tasks |-> {}]
  /\ todo = Awaits
  /\ pc = [th \in Threads |-> IF th \in Clients THEN "code" ELSE "none"]
  /\ stack = [th \in Threads |-> <<>>]
  /\ target = [th \in Threads |-> NoTask]
  /\ handed = [t \in Tasks |-> 0]

-----------------------------------------------------------------------------
(* The code a thread is in, and who is resolving what.                     *)

\* The owner of the handles that the code now running on th manipulates.
Top(th)   == stack[th][Len(stack[th])]
Agent(th) == IF stack[th] = <<>> THEN th ELSE Top(th)

\* run_queued called run_job for the only task of the stack: its epilogue is
\* the pool's, not a resolve's.
Queued(th) == th \in Workers /\ Len(stack[th]) = 1

Resolving(th, t) ==
  \/ pc[th] \in {"check", "asleep"} /\ target[th] = t
  \/ \E i \in 1..Len(stack[th]) :
       stack[th][i] = t /\ ~(th \in Workers /\ i = 1)

MayResolve(th, t) ==
  /\ pc[th] = "code"
  /\ Agent(th) \in holders[t]
  /\ Agent(th) \in Tasks => /\ todo[Agent(th)] # <<>>
                            /\ Head(todo[Agent(th)]) = t
  /\ SharedResolve \/ \A other \in Threads : ~Resolving(other, t)

\* The body that called resolve goes on to its next await.
Advanced(agent) ==
  IF agent \in Tasks THEN [todo EXCEPT ![agent] = Tail(@)] ELSE todo

Woken(t) ==
  [th \in Threads |-> IF pc[th] = "asleep" /\ target[th] = t THEN "check" ELSE pc[th]]

-----------------------------------------------------------------------------
(* __task_spawn and submit                                                 *)

\* The handle belongs to the caller; the environment of t keeps the handles
\* that its body will resolve (keep_task_args).
Created(th, t) ==
  /\ pc[th] = "code"
  /\ slot[t] = "Unborn"
  /\ IF t \in Internal
       THEN Agent(th) \in Tasks /\ todo[Agent(th)] # <<>> /\ Head(todo[Agent(th)]) = t
       ELSE Agent(th) \in Clients
  /\ \A i \in 1..Len(Awaits[t]) :
       Awaits[t][i] \notin Internal => Agent(th) \in holders[Awaits[t][i]]
  /\ job' = [job EXCEPT ![t] = TRUE]
  /\ slot' = [slot EXCEPT ![t] = "Running"]
  /\ pending' = pending + 1
  /\ queue' = Append(queue, t)
  /\ holders' = [u \in Tasks |->
       IF u = t THEN {Agent(th)}
       ELSE IF \E i \in 1..Len(Awaits[t]) : Awaits[t][i] = u /\ u \notin Internal
            THEN holders[u] \cup {t} ELSE holders[u]]
  /\ UNCHANGED <<todo, stack, target, handed>>

\* An idle thread is promised to the task.
SpawnToIdle(th, t) ==
  /\ Created(th, t)
  /\ idle > 0
  /\ idle' = idle - 1
  /\ wakeups' = wakeups + 1
  /\ UNCHANGED pc

\* Fault: a busy thread of the pool is trusted to come back to the queue.
Fault_SpawnNewThread_TrustsBusy(th, t) ==
  /\ Created(th, t) /\ idle = 0 /\ UNCHANGED <<idle, wakeups>>
  /\ pc' = IF \E w \in Workers : pc[w] # "none" THEN pc ELSE [pc EXCEPT ![th] = "spawning"]

\* No thread is idle: POOL is unlocked before the new thread is created.
SpawnNewThread(th, t) ==
  /\ Created(th, t)
  /\ idle = 0
  /\ pc' = [pc EXCEPT ![th] = "spawning"]
  /\ UNCHANGED <<idle, wakeups>>

StartWorker(th, w) ==
  /\ pc[th] = "spawning"
  /\ pc[w] = "none"
  /\ pc' = [pc EXCEPT ![th] = "code", ![w] = "starting"]
  /\ UNCHANGED <<poolVars, taskVars, stack, target>>

-----------------------------------------------------------------------------
(* __task_resolve                                                          *)

\* Fault: the closure is read, not taken.
Fault_ResolveInPlace_Peek(th, t) ==
  /\ MayResolve(th, t) /\ job[t]
  /\ stack' = [stack EXCEPT ![th] = Append(@, t)]
  /\ UNCHANGED <<poolVars, taskVars, pc, target>>

\* run_job: no thread has taken the closure yet, resolve runs it in place.
ResolveInPlace(th, t) ==
  /\ MayResolve(th, t)
  /\ job[t]
  /\ job' = [job EXCEPT ![t] = FALSE]
  /\ stack' = [stack EXCEPT ![th] = Append(@, t)]
  /\ UNCHANGED <<poolVars, slot, pending, holders, todo, pc, target, handed>>

\* The closure is gone: wait for the outcome.
ResolveElsewhere(th, t) ==
  /\ MayResolve(th, t)
  /\ ~job[t]
  /\ pc' = [pc EXCEPT ![th] = "check"]
  /\ target' = [target EXCEPT ![th] = t]
  /\ UNCHANGED <<poolVars, taskVars, stack>>

\* while matches!(*slot, Running) { done.wait(slot) }
Sleep(th) ==
  /\ pc[th] = "check"
  /\ slot[target[th]] = "Running"
  /\ pc' = [pc EXCEPT ![th] = "asleep"]
  /\ UNCHANGED <<poolVars, taskVars, stack, target>>

\* Fault: `if` in place of `while`, a thread that wakes for nothing takes the slot.
Fault_TakeSlot_Unchecked(th) ==
  /\ pc[th] = "check"
  /\ handed' = [handed EXCEPT ![target[th]] = IF slot[target[th]] = "Done" THEN @ + 1 ELSE @]
  /\ slot' = [slot EXCEPT ![target[th]] = "Taken"]
  /\ todo' = Advanced(Agent(th))
  /\ pc' = [pc EXCEPT ![th] = "code"] /\ target' = [target EXCEPT ![th] = NoTask]
  /\ UNCHANGED <<poolVars, job, pending, holders, stack>>

\* mem::replace(slot, Taken): the first to come leaves with the outcome, the
\* others with the default value.
TakeSlot(th) ==
  /\ pc[th] = "check"
  /\ slot[target[th]] # "Running"
  /\ handed' = [handed EXCEPT ![target[th]] =
                  IF slot[target[th]] = "Done" THEN @ + 1 ELSE @]
  /\ slot' = [slot EXCEPT ![target[th]] = "Taken"]
  /\ todo' = Advanced(Agent(th))
  /\ pc' = [pc EXCEPT ![th] = "code"]
  /\ target' = [target EXCEPT ![th] = NoTask]
  /\ UNCHANGED <<poolVars, job, pending, holders, stack>>

\* Condvar::wait may return without a notification.
SpuriousWake(th) ==
  /\ pc[th] = "asleep"
  /\ pc' = [pc EXCEPT ![th] = "check"]
  /\ UNCHANGED <<poolVars, taskVars, stack, target>>

-----------------------------------------------------------------------------
(* The body of a task, whatever thread runs it                             *)

InBody(th) == pc[th] = "code" /\ stack[th] # <<>>

\* An exception of the body, or of a task it resolved, ends it early.
BodyRaise(th) ==
  /\ InBody(th)
  /\ todo[Top(th)] # <<>>
  /\ todo' = [todo EXCEPT ![Top(th)] = <<>>]
  /\ UNCHANGED <<poolVars, job, slot, pending, holders, pc, stack, target, handed>>

\* Fault: an outcome nobody resolved stays in the abandoned slot.
Fault_Dropped_KeepsOutcome(a, t) ==
  /\ a \in holders[t] /\ holders' = [holders EXCEPT ![t] = @ \ {a}]
  /\ slot' = IF holders[t] = {a} THEN [slot EXCEPT ![t] = "Abandoned"] ELSE slot
  /\ UNCHANGED <<poolVars, job, pending, todo, handed, pc, stack, target>>

\* free_task for the last reference, a plain decrement otherwise.
Dropped(a, t) ==
  /\ a \in holders[t]
  /\ holders' = [holders EXCEPT ![t] = @ \ {a}]
  /\ IF holders[t] = {a}
       THEN /\ slot' = [slot EXCEPT ![t] = "Abandoned"]
            /\ handed' = [handed EXCEPT ![t] = IF slot[t] = "Done" THEN @ + 1 ELSE @]
       ELSE UNCHANGED <<slot, handed>>
  /\ UNCHANGED <<poolVars, job, pending, todo, pc, stack, target>>

\* The end of the body releases its handles, one after the other.
BodyDrop(th, t) ==
  /\ InBody(th)
  /\ todo[Top(th)] = <<>>
  /\ Dropped(Top(th), t)

\* A variable of the program that held the handle goes out of scope.
ClientDrop(c, t) ==
  /\ pc[c] = "code"
  /\ stack[c] = <<>>
  /\ Dropped(c, t)

\* One thread gives a copy of the handle to another (capture, field, array).
Share(c, d, t) ==
  /\ pc[c] = "code"
  /\ stack[c] = <<>>
  /\ c \in holders[t] /\ d \notin holders[t]
  /\ holders' = [holders EXCEPT ![t] = @ \cup {d}]
  /\ UNCHANGED <<poolVars, job, slot, pending, todo, pc, stack, target, handed>>

BodyOver(th) ==
  /\ InBody(th)
  /\ todo[Top(th)] = <<>>
  /\ \A t \in Tasks : Top(th) \notin holders[t]

\* Fault: nobody is notified.
Fault_StoreOutcome_Silent(th) ==
  /\ BodyOver(th) /\ Queued(th) /\ slot[Top(th)] # "Abandoned"
  /\ slot' = [slot EXCEPT ![Top(th)] = "Done"]
  /\ pc' = [pc EXCEPT ![th] = "retire"]
  /\ UNCHANGED <<poolVars, job, pending, holders, todo, stack, target, handed>>

\* run_queued: the outcome is stored for a resolve and the sleepers notified...
StoreOutcome(th) ==
  /\ BodyOver(th) /\ Queued(th)
  /\ slot[Top(th)] # "Abandoned"
  /\ slot' = [slot EXCEPT ![Top(th)] = "Done"]
  /\ pc' = [Woken(Top(th)) EXCEPT ![th] = "retire"]
  /\ UNCHANGED <<poolVars, job, pending, holders, todo, stack, target, handed>>

\* ...or nobody will ever ask for it.
FindAbandoned(th) ==
  /\ BodyOver(th) /\ Queued(th)
  /\ slot[Top(th)] = "Abandoned"
  /\ pc' = [pc EXCEPT ![th] = "discard"]
  /\ UNCHANGED <<poolVars, taskVars, stack, target>>

ReleaseOutcome(th) ==
  /\ pc[th] = "discard"
  /\ handed' = [handed EXCEPT ![Top(th)] = @ + 1]
  /\ pc' = [pc EXCEPT ![th] = "retire"]
  /\ UNCHANGED <<poolVars, job, slot, pending, holders, todo, stack, target>>

\* resolve: the task ran in place.  Nobody is notified.
MarkTaken(th) ==
  /\ BodyOver(th) /\ ~Queued(th)
  /\ slot' = [slot EXCEPT ![Top(th)] = "Taken"]
  /\ pc' = [pc EXCEPT ![th] = "retire"]
  /\ UNCHANGED <<poolVars, job, pending, holders, todo, stack, target, handed>>

\* PENDING.fetch_sub, then run_queued returns to worker...
RetireQueued(th) ==
  /\ pc[th] = "retire" /\ Queued(th)
  /\ pending' = pending - 1
  /\ stack' = [stack EXCEPT ![th] = SubSeq(@, 1, Len(@) - 1)]
  /\ pc' = [pc EXCEPT ![th] = "resting"]
  /\ UNCHANGED <<poolVars, job, slot, holders, todo, target, handed>>

\* ...or __task_resolve gives the outcome to its caller.
RetireInPlace(th) ==
  /\ pc[th] = "retire" /\ ~Queued(th)
  /\ pending' = pending - 1
  /\ handed' = [handed EXCEPT ![Top(th)] = @ + 1]
  /\ stack' = [stack EXCEPT ![th] = SubSeq(@, 1, Len(@) - 1)]
  /\ todo' = IF Len(stack[th]) = 1 THEN todo ELSE Advanced(stack[th][Len(stack[th]) - 1])
  /\ pc' = [pc EXCEPT ![th] = "code"]
  /\ UNCHANGED <<poolVars, job, slot, holders, target>>

-----------------------------------------------------------------------------
(* worker                                                                  *)

FirstPop(w) ==
  /\ pc[w] = "starting"
  /\ IF queue = <<>>
       THEN /\ pc' = [pc EXCEPT ![w] = "none"]
            /\ UNCHANGED <<queue, target>>
       ELSE /\ pc' = [pc EXCEPT ![w] = "taking"]
            /\ target' = [target EXCEPT ![w] = Head(queue)]
            /\ queue' = Tail(queue)
  /\ UNCHANGED <<idle, wakeups, taskVars, stack>>

\* run_job of run_queued
TakeJob(w) ==
  /\ pc[w] = "taking"
  /\ job[target[w]]
  /\ job' = [job EXCEPT ![target[w]] = FALSE]
  /\ stack' = [stack EXCEPT ![w] = Append(@, target[w])]
  /\ target' = [target EXCEPT ![w] = NoTask]
  /\ pc' = [pc EXCEPT ![w] = "code"]
  /\ UNCHANGED <<poolVars, slot, pending, holders, todo, handed>>

\* A resolve ran the task first: nothing to do.
MissJob(w) ==
  /\ pc[w] = "taking"
  /\ ~job[target[w]]
  /\ target' = [target EXCEPT ![w] = NoTask]
  /\ pc' = [pc EXCEPT ![w] = "resting"]
  /\ UNCHANGED <<poolVars, taskVars, stack>>

GoIdle(w) ==
  /\ pc[w] = "resting"
  /\ idle' = idle + 1
  /\ pc' = [pc EXCEPT ![w] = "waiting"]
  /\ UNCHANGED <<queue, wakeups, taskVars, stack, target>>

\* Notified, woken for nothing or timed out: a promised wake-up is honoured
\* first.
WakeUp(w) ==
  /\ pc[w] = "waiting"
  /\ wakeups > 0
  /\ wakeups' = wakeups - 1
  /\ IF queue = <<>>
       THEN /\ pc' = [pc EXCEPT ![w] = "none"]
            /\ UNCHANGED <<queue, target>>
       ELSE /\ pc' = [pc EXCEPT ![w] = "taking"]
            /\ target' = [target EXCEPT ![w] = Head(queue)]
            /\ queue' = Tail(queue)
  /\ UNCHANGED <<idle, taskVars, stack>>

\* Fault: the deadline is looked at before the promised wake-ups.
Fault_TimeOut_First(w) ==
  /\ pc[w] = "waiting"
  /\ idle' = idle - 1 /\ pc' = [pc EXCEPT ![w] = "none"]
  /\ UNCHANGED <<queue, wakeups, taskVars, stack, target>>

\* IDLE_TIMEOUT elapsed and nothing was promised: the thread ends.
TimeOut(w) ==
  /\ pc[w] = "waiting"
  /\ wakeups = 0
  /\ idle' = idle - 1
  /\ pc' = [pc EXCEPT ![w] = "none"]
  /\ UNCHANGED <<queue, wakeups, taskVars, stack, target>>

-----------------------------------------------------------------------------
WorkerStep(w) ==
  \/ FirstPop(w) \/ TakeJob(w) \/ MissJob(w)
  \/ GoIdle(w) \/ WakeUp(w) \/ TimeOut(w)

\* What a thread inside the runtime or inside a task body does.
RuntimeStep(th) ==
  \/ \E w \in Workers : StartWorker(th, w)
  \/ Sleep(th) \/ TakeSlot(th)
  \/ StoreOutcome(th) \/ FindAbandoned(th) \/ ReleaseOutcome(th)
  \/ MarkTaken(th) \/ RetireQueued(th) \/ RetireInPlace(th)

CodeStep(th) ==
  \E t \in Tasks : \/ SpawnToIdle(th, t) \/ SpawnNewThread(th, t)
                   \/ ResolveInPlace(th, t) \/ ResolveElsewhere(th, t)
                   \/ BodyDrop(th, t)

\* The body goes on: it never stays forever between two of its operations.
BodyStep(th) == InBody(th) /\ (CodeStep(th) \/ BodyRaise(th))

\* The main program: free to do nothing.
ClientStep(c) ==
  \/ stack[c] = <<>> /\ CodeStep(c)
  \/ \E t \in Tasks : ClientDrop(c, t) \/ \E d \in Clients : Share(c, d, t)

\* The main program ends; no thread of the pool is left.
Terminated ==
  /\ \A c \in Clients : pc[c] = "code" /\ stack[c] = <<>>
  /\ \A w \in Workers : pc[w] = "none"
  /\ UNCHANGED vars

Next ==
  \/ \E th \in Threads : RuntimeStep(th) \/ BodyStep(th) \/ SpuriousWake(th)
  \/ \E w \in Workers : WorkerStep(w)
  \/ \E c \in Clients : ClientStep(c)
  \/ Terminated

Spec == Init /\ [][Next]_vars

\* The scheduler runs every thread; a waiting thread looks again at the
\* latest after IDLE_TIMEOUT; task bodies are finite.
Fairness ==
  /\ \A th \in Threads : WF_vars(RuntimeStep(th)) /\ WF_vars(BodyStep(th))
  /\ \A w \in Workers : WF_vars(WorkerStep(w))

FairSpec == Spec /\ Fairness

-----------------------------------------------------------------------------
(* Properties                                                              *)

At(c) == {th \in Threads : pc[th] = c}

\* Every queued task is promised to exactly one thread: one woken, one just
\* created or one about to be created.  This is what makes every pop_front
\* of `worker` succeed (task.rs, "chaque tâche de la file lui revient soit à
\* sa création, soit par un réveil promis").
QueueCovered ==
  Len(queue) = wakeups + Cardinality(At("starting")) + Cardinality(At("spawning"))

\* `idle` counts the waiting threads that no wake-up is promised to, so
\* neither decrement of this usize can underflow, and no promise is made to
\* a thread that is not there.
IdleExact == idle + wakeups = Cardinality(At("waiting"))

\* The counters of PoolState are exact and never go below zero (usize), so a
\* submit never counts on a thread that is gone.
PoolExact == TypeOK /\ QueueCovered /\ IdleExact

\* A task whose closure is still there is queued, or popped by a thread that
\* is about to run it: no interleaving of resolve and the pool forgets it.
NoTaskForgotten ==
  \A t \in Tasks : job[t] =>
    \/ \E i \in 1..Len(queue) : queue[i] = t
    \/ \E w \in Workers : pc[w] = "taking" /\ target[w] = t

\* The threads in the middle of running t, or holding its outcome.
Runners(t) == {th \in Threads : \E i \in 1..Len(stack[th]) : stack[th][i] = t}

\* The body of a task is run by at most one thread, and never while its
\* closure can still be taken, whoever of the pool and of the resolvers wins.
RunOnce ==
  \A t \in Tasks : /\ Cardinality(Runners(t)) <= 1
                   /\ job[t] => Runners(t) = {}

\* The outcome of a task is delivered to one resolve or released, never both
\* and never twice, whatever the order of resolve, the last release of the
\* handle and the end of the task.
OutcomeOnce == \A t \in Tasks : handed[t] <= 1

\* Once the handle is gone and the task is over, its outcome is gone too:
\* abandoning a task never leaks its outcome.
AbandonedReleased ==
  \A t \in Tasks :
    slot[t] # "Unborn" /\ holders[t] = {} /\ ~job[t] /\ Runners(t) = {} => handed[t] = 1

\* settle waits for PENDING = 0 before the leak report: by then no task is
\* running and each outcome is delivered, released or in reach of its handle.
SettledMeansAccounted ==
  pending = 0 =>
    \A t \in Tasks : slot[t] # "Unborn" =>
      /\ Runners(t) = {}
      /\ IF slot[t] = "Done" THEN handed[t] = 0 /\ holders[t] # {} ELSE handed[t] = 1

\* Where each task, and what becomes of it, can be told at any moment: no task
\* is forgotten by the pool, no outcome by its handle.
TasksAccounted == NoTaskForgotten /\ AbandonedReleased /\ SettledMeansAccounted

Ended(th, t)   == pc[th] \in {"retire", "discard"} /\ Top(th) = t
Phase(t) ==
  CASE slot[t] = "Unborn" -> "unborn"
    [] job[t]             -> "waiting"
    [] \E th \in Runners(t) : ~Ended(th, t) -> "running"
    [] OTHER              -> "over"

\* The pool keeps what an `async` call promises: a resolve only returns once
\* the body is over, wherever it ran; one resolve gets the outcome, the others
\* the default value, and it is released only when nobody asks for it.
Promise == INSTANCE AsyncTask WITH
  phase  <- [t \in Tasks |-> Phase(t)],
  asking <- [t \in Tasks |-> {th \in Threads : Resolving(th, t)}]
KeepsPromise == Promise!Spec

\* The pool never blocks on tasks that await each other: a spawned task is
\* eventually taken by a thread ("une tâche qui en attend une autre ne peut
\* donc pas bloquer le pool").  A task has its closure once, so this is the same
\* as: again and again no task waits.
EveryTaskRuns == []<>(\A t \in Tasks : ~job[t])

\* A resolve returns, in place or after a wait: again and again there is a
\* moment when no thread is in one, because a task that a thread waits for is
\* never one that waits for it.
ResolveReturns == []<>(\A th \in Threads : pc[th] \notin {"check", "asleep"})

\* An outcome put back by nobody: once a resolve or the last release of the
\* handle emptied the slot, no late end of the task fills it again.
SlotMonotone ==
  [][\A t \in Tasks :
       /\ slot[t] \in {"Taken", "Abandoned"} => slot'[t] \in {"Taken", "Abandoned"}
       /\ slot[t] = "Abandoned" => slot'[t] = "Abandoned"]_vars
=============================================================================
