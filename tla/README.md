# Formal model of Ocara

Ocara is an ahead-of-time compiler for a small object language, written in Rust (`src/` of the
repository), and the runtime library that compiled programs are linked with (`runtime/`, and the
optional `runtime_tauri`, `runtime_sdl`, `runtime_ui`, `runtime_image`, `runtime_android*`).  This
directory models the parts whose behaviour depends on the order of events: what the threads, tasks,
exceptions and the memory manager of a compiled program do to each other.

Paths below are relative to the repository; `PROJECT.json` maps every definition to its lines.

## 1. The system and its parts

*The runtime* keeps global state that every thread of a compiled program shares.

| Part (source) | State | Operations | Hard behaviour | What makes it correct | Module |
|---|---|---|---|---|---|
| Task pool (`runtime/src/task.rs`) | `POOL` (queue, idle, wakeups), per task `job` and `slot`, `PENDING` | `__task_spawn`, `__task_resolve`, `free_task`, `worker`, `settle` | resolve races with the pool for the closure; abandoned tasks; idle threads that time out while they are promised a task | a body runs once, its outcome is delivered or released once, no task is forgotten, nobody waits for ever | TaskPool |
| Stop-the-world (`runtime/src/rc.rs` 47-204) | `RUNNING`, `EXCLUSIVE`, `COLLECTING`, `MULTI_THREADED` | `enter`, `park`, `ThreadGuard`, `collect_due`, `collect_cycles` | a thread resumes while a collection starts | nobody touches a count during an exclusive collection; everybody resumes after it | Park |
| Counts and concurrent collector (`rc.rs`, `rc_concurrent.rs`) | count word of every block, `ROOTS`, `EPOCH`, `DEFERRED` | retain, release, destroy, `collect` | threads change counts while a collection reads them | a reachable block is never freed, garbage is | CycleGc, Memory |
| Counts and exclusive collector (`rc.rs`) | the same, with colors | release, destroy, `collect_exclusive` | trial deletion takes counts out and puts them back | the same, and counts come back exact | TrialDeletion, Memory |
| Exceptions (`lib.rs` 2963-3570, `src/lower`) | per-thread `TRY_STACK`, `UNWIND`, `RESOURCES`, native stack | try, on, raise, builtin exceptions, `withLock` | a `longjmp` skips functions that own references, resources and locks | each is released once; a jump lands in a live frame | Exceptions |
| Threads, mutexes (`thread.rs`, `mutex.rs`) | thread slot, pthread mutex | run, join, detach, lock, withLock | creation against the plain-update mode of counts; a raise inside withLock | counts are not lost; the lock is given back | Park, Exceptions |
| HTTP server (`httpserver.rs`) | request contexts, `receiving`, `HANDLER_LOCK` | accept, read the body, route, call the handler, answer | handlers that raise, and whose error page takes the lock again; long bodies received beside the workers | handlers exclude each other, every request is answered, places for bodies are given back | HttpServer |
| HTTP sessions (`httpsession.rs`) | `STORE`: sessions, globals, `last_purge` | get, set, remove, destroy, getGlobal, setGlobal | the context keeps an identifier while other requests destroy the session or let it expire | a session stays its client's; the client holds the cookie of the session it ended with; the store stays bounded | HttpServer |
| Databases (`sqlite.rs`, `mysql.rs`) | `pending_query`, `pending_binds`, `explicit_tx`, `tx_open`, `pinned_conn` | prepare, bind, begin, execute, commit, rollback, close | each of BEGIN, the query and COMMIT may fail, and take the transaction or the connection with it | what others see changes by whole transactions; no connection is lent inside one | Database, Transactions |
| Generators (`src/lower`: `builder.d/message_gen.rs`, `stmt.d`) | frame of a suspended function, inlined tries | new, resume, emit, drop; `for`, `fromMessage`, scalar | every resume enters the open tries again; `__drop` releases what blocks release too | `TRY_STACK` comes back as it was; references and frames are given back once | Generators |
| Allocator cache (`alloc_cache.rs`) | per-thread lists, shared pool, `GUARD` | alloc, dealloc, realloc, end of a thread | chains that are in no list for a moment; threads that end | every block has one owner; lists are as long as their counter | AllocCache |
| Table of a map (`map_table.rs`) | pairs, slots, `text_keys` | insert, remove, sort, clear, readings | collisions, deletion without tombstones, growth, integer keys that become strings | the table is the ordered map it stands for | MapTable, OrderedMap |
| Growing strings, mixed index (`str_append.rs`, `mixed_index.rs`) | capacity; index | append, lookup | aliasing | as the plain string or array | planned |
| Locked captures (`lib.rs` 2835-2940) | cell and lock | read, write | a closure shared by threads | no torn update | planned |

*The compiler* is a sequential batch program: it parses (`src/parsing`), checks (`src/sema`),
rewrites (`src/core`), lowers (`src/lower`) and generates code with Cranelift (`src/codegen`).  What
it emits for locals, resources, constructors, `raise` and `try` is part of module Exceptions, the
state machines it makes of generators are module Generators; the rest is a translation over a large syntax tree, which a model checker is the wrong tool for.  The
language server, the tools (`tools/ocaraunit`, `tools/ocaracs`), `ci` and `packaging` are not
modelled.

How the parts meet: a task of the pool and a thread of the program are both threads of Park; every
blocking call (resolve, join, lock, an accept) parks its thread, and `enter`/`resume` bring it back.
Park decides which collector runs: alone, TrialDeletion; beside others, CycleGc.  Both implement
Memory, which is what a program may rely on.  A raise (Exceptions) crosses frames whose references
are the counts of TrialDeletion and CycleGc, and `run_closure_catching` is where it ends in a task
or in a thread.  Generators has no locks and no threads: its frames live on the native stack of
Exceptions, and their counts are those of TrialDeletion.  The handlers of HttpServer run on threads
that Park counts; the globals of the sessions and the captures of closures are what `HANDLER_LOCK`
protects.  Blocks of all these values come from AllocCache.

## 2. Modules, and how they follow the code

**TaskPool.**  One action is one critical section of `POOL`, of a task's `job`, or of its `slot`; a
thread between two of them is at a named point (`pc`).  `stack[th]` holds the tasks whose bodies a
thread is in the middle of, because a resolve that finds the closure runs it in place.  `Awaits`
says what bodies resolve; `Internal` are tasks that the awaiting body spawns itself.  Deadlines
appear as nondeterminism: an idle thread may time out at any moment (`TimeOut`), and a wait may end
without reason.

**Park.**  One action is one access to one of the four atomics.  Threads are the main one, those that
the program creates (`ThreadGuard`, counted before they exist) and foreign ones (`enter`: the pool,
callbacks of the platform).  One shared value stands for all counts; `add_count` has its atomic path
and its plain path (load, then store).  `Announced` says whether `MULTI_THREADED` is set before a
foreign thread exists.

**CycleGc.**  One action is one access to a count word, to the elements of one container (they are
under its lock), or to `ROOTS`, `DEFERRED` or `EPOCH`.  Mutators own references and copy, push, pop,
overwrite and drop them; `add_count` and its `touch` are separate steps.  The collector is the code
of `rc_concurrent::collect` statement by statement: noting counts, tracing, marking, unlinking,
sweeping, keeping roots, closing the epoch, draining.  Containers are sets; two threads use one
container under a lock of the program, as the language asks.

**TrialDeletion.**  One thread; one action is one turn of a loop of `release_counted`, `destroy` or
`collect_exclusive`.  Containers are sequences, so that a value may hold another twice.  Nothing is
assumed of the word of a block after its release: the allocator links its lists through it
(`alloc_cache.rs:76`).  `collect_white` does look at such blocks (section 5, 5).  If the word does not
look white it passes them over, which is one branch of `CollectWhite`; if it does, it collects a block
that is gone, which is `Misread`: the behaviour goes to the point "wild" and ends there, because what
the program does from then on is not defined by its code.

**Exceptions.**  One thread and its four stacks.  `calls` is the native stack: functions, a
constructor under construction (`new`), a try before (`try`) and after (`handler`) its `longjmp`, and
`withLock` (`lock`).  `Fail` is `__ocara_fail` with `close_resources_to` and `unwind_to`.  A function
without counted locals registers nothing in the code and an empty array in the model.  The body of a
try and its handler are functions of their own, as compiled; a `return`, `break` or `continue` in them
goes as a code through the trampoline to the function that the try is in (`EndTry`, `PassOn`,
`LeaveLoop`, `ReturnFromTry`: `dispatch_try_exit`), the value through `returned`.  `withOpen` and
`withConnect` follow the pattern of `withLock`.

**Generators.**  A generator is a frame (`gens[g]`: its stage, the blocks it is suspended in, a
counted local for each, what it consumes); its body is any nesting of three blocks (plain, while,
for, try, on), chosen while it runs.  `native` holds functions and resumes, `tries` is `TRY_STACK`.
`Resume` pushes the open tries again (`build_reentry_stub`), `Emit` takes them off; `break`,
`return`, raises and the drop of a suspended frame leave blocks through `LeaveBlocks`.  A consumer
is a `for`, `Array::fromMessage`, or a scalar use, of a function or of another generator.  `lost` and
`orphans` are ghosts: references and frames that the code forgets (section 5).

**HttpServer.**  A request goes from queued through its body, its route, its handler and perhaps its
error page to the answer; a worker handles one at a time, a long body is received on a thread of its
own (`Receive`).  `Enter`, `Return` and `Raise` are `call_handler_locked`; each method of the session
is one action, because it holds the lock of `STORE`.  `EnsureSession` is the code that resumes or
opens a session, with the purge.  Time is `Tick`, which ages sessions.  A client is a cookie jar
that takes the last `Set-Cookie` of the answer.

**Database.**  One handle, of either engine; one action is one method, with the outcome of each
statement it sends chosen by the engine: done, refused, refused and rolled back, connection lost, or
done with the answer lost.  `tx` and `work` are the engine's transactions, `pinned` the connection
the handle keeps.

**AllocCache.**  One class of sizes.  The links are in the blocks (`next`), as in the code, and the
program overwrites them (`Data`) while it owns the block.  An operation that takes the lock of the
pool is cut before it: `moving` is the chain that is in no list meanwhile.

**MapTable.**  The pairs and the slots of the index, with the probes, the shifts of a deletion and
the rebuilds of the code.  `Hashes` are the functions from keys to hashes that the seed may pick.  An
integer key and its text have one hash, as `map_hash.rs` computes it.  Readings change nothing; they
are operators, compared with the pairs by `LookupExact`.

*Abstract specifications.*  **Memory**, for both collectors: a step of a program moves references it
holds, `Reclaim` gives back any set of unreachable blocks at any time.  **AsyncTask**, for TaskPool:
a body runs once, a resolve returns after it, one resolve gets the outcome.  **Transactions**, for
Database: what other clients see changes by one instruction or by a whole block.  **OrderedMap**, for
MapTable: pairs in the order of their keys' first insertion.  Each detailed module states
`Promise == INSTANCE ...` with its mapping, and `KeepsPromise` is a property of its run.

`MC*` modules only give constants.  Definitions called `Fault_...` are changed forms of the
definition that follows them, the way a mistake in that code would change it; each property is
violated under one of them, which shows that it depends on that code.  Properties that belong to one
question are conjoined under one name (`PoolExact`, `HeapExact`, `ServerExact`...); the parts keep
their own names and comments.

## 3. Runs

One run for each question; the properties named are those of its `.cfg`.

| Run | Instance | Shows |
|---|---|---|
| `task_pool` | 2 tasks, one awaits the other; 2 clients; 2 pool threads; any resolve at once | PoolExact, RunOnce, TasksAccounted: counters exact, no task lost, run twice or leaked; KeepsPromise: implements AsyncTask |
| `task_pool_live` | 3 tasks, one created and awaited by another; 1 client; 3 pool threads; nobody shares a resolve | every task runs, every resolve returns; the pool stops only when it is empty (deadlock checked) |
| `park` | main, one created and one foreign thread, 2 collections | exclusion of the collector, exact counters and flags, every thread resumes, every collection ends |
| `cycle_gc` | 2 containers, 2 threads, 10 heaps, 3 epochs | HeapExact: counts, flags and buffer exact, nothing freed twice, no garbage overlooked; garbage freed; implements Memory |
| `trial_deletion` | every heap of 2 objects and a leaf with one operation; heaps of 3 objects, at most one of them in a variable, with a collection | HeapExact: counts, colors and buffer restored, no freed block read but by collect_white; all garbage of the roots freed, every operation ends, implements Memory; all of it up to a Misread |
| `exceptions` | 2 values, 3 references, 2 resources, 1 mutex, 6 native frames, 2 tries | references, resources, locks and jumps come out right, a value returned out of nested tries too |
| `generators` | 2 generators, one may consume the other; 3 nested blocks each; 4 native frames | `TRY_STACK` is exact at every suspension and end, nothing is given back twice, every frame has one owner |
| `generators_return` | the same, programs that leave a try by a jump | **violation**: a frame of `TRY_STACK` stays behind |
| `http_server` | 2 servers, 2 requests of 1 or 2 clients, 2 calls for each request, 3 sessions | NoLostIncrement, Isolated, AnswerNamesSession, ServerExact, StoreKept, every request answered |
| `databases` | one handle of either engine, 2 connections, 2 queries, 4 statements | HandleExact: the fields agree with the engine after any failure; PoolClean; implements Transactions |
| `alloc_cache` | 2 threads, 5 blocks, lists of 2, batches of 2, slabs of 4 | lists and counters agree, every block has one owner, a thread hands its blocks over |
| `map_table` | 4 keys, 2 of them integers, 27 choices of their hashes | every key found, table well formed, implements OrderedMap |

### Bounds, and why they are enough

- *TaskPool.*  Two tasks and two pool threads contain every race of the code: two threads for one
  task, two tasks for one thread, a resolver that is itself a thread of the pool.  The third task and
  thread of the live run are queued behind a task that waits for another.  The counters are proved
  for any number.
- *Park.*  Three threads: the collector, one that comes back, one that is created or enters.  The
  safety properties are proved for any number.  Two collections, for flags left by the first.
- *CycleGc.*  A value inside and a value outside of what is noted are enough for every mixture of old
  and new counts.  Heaps: a cycle, a chain, a self-reference below a chain; held by both threads, by
  one each, by one, by none; with or without candidates in the buffer.  One operation follows, and
  two concurrent ones where one thread holds a container that contains itself and the other thread
  the value below it; `Cycle` in place of that heap doubles the states and triples the time.  Three
  epochs, because two values can hold the marks of two (section 5, 3).  The number of collections is not bounded.
- *TrialDeletion.*  `Init` is not the empty heap but *every* consistent heap of that size
  (`IsHeap`), with each choice of candidates, dead and free blocks; one operation or one collection
  from there leads, by the checked invariants, to such a heap again. The heaps of three objects, for
  garbage beside what is alive and below it, hold none twice, and one variable at most holds one of
  them. `MaxElems` = 2 lets a value hold another twice. `Threshold` = 2 instead of 10 000.
- *Exceptions.*  Six frames hold a try inside a function inside a try with something to skip in
  between; `MaxTry` = 2 instead of 64 reaches the abort.  Two values tell an exception from a local,
  two resources an inner from an outer one; three references (`MaxWords`, over the whole stack) let a
  function hold a value twice while another holds the exception.
- *Generators.*  Three blocks hold a try in an `on` in a loop; two generators, one that consumes and
  one that is consumed; four native frames: a function with a try, a generator, the generator it
  consumes, and a callee.  One value held at most three times (`MaxCount`) tells a reference given
  back twice from one kept.
- *HttpServer.*  Two requests race for `HANDLER_LOCK` and for one session.  `MaxReceiving` = 1 instead
  of 256, so the second long body is refused.  Two calls by each handler or error page: destroy and
  open, read and write a global.  Time-out and purge interval of one tick: a session expires while a
  request has it open.  Three sessions: one at the start, one for each request.
- *Database.*  A second connection is what a wrong release would lend.  Four statements: a block with
  two writes, its failure, a retry.  The theorems hold for any number.
- *AllocCache.*  Two threads that free each other's blocks; a list that is full with two blocks, a
  slab larger than a list, one block more than a slab, so that it comes alone.
- *MapTable.*  `Small` = 1 and `MinSlots` = 4 (both 8 in the code): the index appears with the second
  key and grows with the third, so four keys share eight slots; hashes 0, 3 and 4 collide in four
  slots, in eight, or on the way of a probe.

### Fairness

- *TaskPool*: a thread that is in the runtime (spawning, about to look at a slot, retiring) goes on,
  a body that runs finishes, a pool thread that has a task or a wake-up takes it.  The operating
  system schedules threads that can run; nothing forces a client to resolve, or a thread to time out.
- *Park*: a thread in `resume`, in a collection or in the back-pressure loop takes its next step when
  it can.  Nobody has to park, enter or start a collection.
- *CycleGc*: a mutator finishes its operation, the collector its collection.  That collections keep
  happening is the hypothesis of `GarbageFreed`, not an assumption on the code.
- *TrialDeletion*: the thread takes its next step.  An operation ends in the program's code, or at
  "wild".
- *HttpServer*: a worker takes the next request, a body arrives or is given up, a handler ends, the
  thread that waits for `HANDLER_LOCK` gets it in the end.  Weak fairness is enough for the lock: a
  request takes it twice at most, so nobody can overtake for ever.
- The other modules state no liveness; their runs check safety only.

## 4. What is proved

TLAPS checks the theorems of eight modules, for all values of the constants.

*ParkProofs.*  `CollectorAlone` ([]StopTheWorld) and `CollectorFlags`
([]FlagsExact) need more than themselves: `Decide` trusts `RUNNING`,
so the count must be exact; threads that come back trust `EXCLUSIVE`, so it must belong to exactly
one collection.  `IInv` is the conjunction of these (TypeOK, RunningExact, OneCollection,
ExclusiveOwned, StopTheWorld); it is inductive, one lemma for each conjunct, one step for each action.
`NoLostCount` ([]CountExact) adds: while `MULTI_THREADED` is false only the main thread exists; it
assumes `Announced`, which is missing in one place (section 5, 2).

*TaskPoolProofs.*  `PoolCounters` (PoolExact) and `BodyRunsOnce` (RunOnce) rest on `IInv`: what each program point says about a thread's stack (`Control`), that a
task is at one place of one stack (`StackOnce`), that a closure still there means that no thread runs
it (`JobOff`), and that `PENDING` counts the open tasks, which keeps it from going below zero.

`PoolKeepsPromise` (KeepsPromise): the pool implements AsyncTask under the
mapping that TaskPool states.  Every step of a thread is a step of the abstract task or a stutter; the
one that is neither by itself is the last step of `settle`, and the invariant adds what it needs
(`OutcomeInvariance`): a task is settled once, its outcome is the one of its closure, and who waits
for it is either parked on its condition or about to look again.  `OutcomesAccounted`
(TasksAccounted) is the sum of that and of the exact counters; `OutcomeGivenOnce` and
`SlotsMonotone` are action properties of the same invariant.

*TrialDeletionProofs.*  `Exact` ([]HeapExact), `CyclesFound` ([]NoCycleLost) and `Promised`
(Spec => KeepsPromise), for heaps of any finite size.  The three speak of the moments between
operations, or of what is reachable; nothing of that is inductive, since a collection takes the counts
apart for as long as it runs.  `IInv` says what they are then (`Counts`): the references of all values
but those whose children are out of the counts just now (`Out`): what is gone or being destroyed, what
is gray or white, what `scan_black` has colored and not yet put back, and the garbage.  A leaf keeps
its references until the garbage that holds it goes.  So each turn of a traversal moves one value in
or out of `Out`, and one lemma (`RefsMore`) says by how much that changes the counts; it counts a
value that another holds twice, twice.  The second half is about sets, because a path through the
heap would need an induction: a set of values that nothing outside of it references, and that avoids
the points where a traversal starts, is empty (`Grounded`).  `GrayReached`, `ScanReaches` and
`WhiteReached` say this of what is gray, of what `scan` has still to visit and of what is white, and
`NoneLost` of the whole heap; together they show that `scan` leaves nothing gray, that what is white
when it ends is referenced from nothing alive, and that `collect_white` comes to all of it.  For the
refinement, the values that are alive and that nothing gives up (`Spared`) are closed under
references and hold what the program holds, so `freed` never touches what `Memory` calls reachable; a
`__array_take` is a Take, or a Copy if the array holds the value twice.

The theorems assume nothing of the words of freed blocks; what they speak of is a behaviour up to its
first `Misread`, if one comes, because the model has no step after it (`SafeInv`: `IInv`, or the
point "wild").  A program that never meets one is covered whole.  They do not show that none comes:
it comes when garbage that two candidates reach is freed with the first, and the allocator's link, or
a new owner's word, has the color bits of white.  What they do show is how far the code itself keeps
clear of it, `ReadsExact` in `HeapExact`: `mark_gray` and `scan` read no freed block (`Present`, and
`Traversed` of `IInv`), and on a freed block that `collect_white` comes to it left no white, since it
blackens what it takes before it frees it.

The same module proves **Memory** for any set of blocks and of threads.  `MemoryAlive`: giving back
what is unreachable never takes away what is reachable later; `GarbageForGood`: what becomes reachable
was handed out by the allocator.  The key lemma: a closed set stays closed, with the blocks handed
out.  With `KeepsPromise` of both collectors (proved of TrialDeletion, model-checked of CycleGc),
these are the guarantees of the memory manager.

*HttpServerProofs.*  `HandlersExclude` ([]NoLostIncrement): what a handler has read of the global is
still its value (`SeenExact`), because `HANDLER_LOCK` names the one request whose handler runs
(`LockExact`), also while it goes from an exception to its error page.  `SessionsIsolated`
([]Isolated): every identifier in a context, in the headers of an answer or in a cookie jar was
created for that client (`ContextsGood`, `JarsGood`), and a session holds what its owner stored
(`StoreGood`); a forged identifier is never adopted because the store only knows created ones.  The
ownership of identifiers only grows, which is the lemma (`StillOwned`) all steps share.  `PlacesExact`
([]ServerExact) adds that `receiving` is the number of requests in the states that hold a place, a
cardinality that one lemma moves by one (`KInv`).  `CookieNamesSession` ([]AnswerNamesSession) ties
the last `Set-Cookie` of an answer to the session that the context remembers, and `StoreStaysKept`
(StoreKept) follows from one inspection of the steps that change the store.  A context is taken to
differ from `None` (`NoContextAssumption`).

*DatabaseProofs.*  `HandleStaysExact` ([]HandleExact), `PoolStaysClean` ([]PoolClean) and `Implements`
(Spec => KeepsPromise).  `IInv` adds to them what a handle at rest holds, that a block is known to
`tx_open`, that a dropped connection has no transaction, and `NoLeftover`: what a failed `commit()`
leaves on a server's connection holds no write, so the `START TRANSACTION` of a retry, which would
commit it, commits nothing.  The refinement maps the open writes to those on the pinned connection;
one lemma for each method.

*AllocCacheProofs.*  `CountersExact` ([]ListsExact), `BlocksOwnedOnce` ([]OneOwner) and
`ListsHandedOver` ([]HandedOver).  The properties speak of chains through `next`, which a recursive
function walks; they are not inductive, and a proof about the walk alone would have to follow every
chain at every step.  The invariant (`HeapExact`) says instead that some assignment gives each block
one kind (used, kept, list, moving, pool), one thread and one rank, such that each list is a `Stack`:
its members have the ranks 1 to `count`, each points at the one below, and the lowest at nothing.
Taking a block, giving it back, cutting a batch and joining one to the pool then change the ranks of
a few blocks (`Push`, `Pop`, `Cut`, `Join`), one step lemma for each action; `StackWalk` and
`StackChain` bring back the walk, by the least place at which it would leave the stack.  `Control`
says what each program point knows of its thread's list, `destroyed` and `guarded` included.

*ExceptionsProofs.*  `JumpsLand` ([]StacksExact), `GivenBack` ([]GivenBackOnce), `SurvivorsKeep`
(CallersKept) and `ReferencesCounted` ([]CountsExact).  The properties say what TRY_STACK, UNWIND
and RESOURCES list now; a jump uses what a try frame remembered when it was pushed.  The invariant
therefore relates the four stacks at every height: each frame's two depths are the numbers of
entries that point below its native frame (`DepthsAt`), only the frame on top has something to do,
and an Ocara function is under everything that is not one (`Nested`).  Cutting the native stack at a
height, with the entries that point above it, keeps all of that (`CutAligned`), and so does pushing
one frame (`PushRegister`, `PushCatch`); every action is a cut and at most one push, the jump
included (`JumpStacks`).  The count of a value is the sum of what each native frame holds of it; a
step moves references between the two frames on top and TRY_RETURN, and what a jump gives back, the
words of the registered frames above its target, is all that the stack held there, because the
frames that register nothing hold nothing (`TallyCut`).

*GeneratorsProofs.*  `StacksAreExact` ([]StacksExact), `FramesOwned` ([]FrameOwned) and
`DepthIsRestored` (DepthRestored), for any number of generators and of native frames and any nesting
of blocks.  They assume `JumpsOutOfTry = FALSE`: a `return`, `break` or `continue` out of a generator's
try breaks all that follows, which is what `generators_return` shows; the theorems say that nothing
else does.  `IInv` cuts TRY_STACK into windows, one for each native frame, from the depth it found
when it began to the depth where the one above it began.  A window holds the open tries of its frame
in the order of their blocks (`TriesExact`), and only the frame on top changes its own; an exception
cuts the native stack at the frame its jump lands in, which is the owner of the last window that is
not empty, so what is left is a stack of whole windows.  The second part is about frames (`Owned`,
`Live`): each allocated frame is held by one place, a variable of a function or a hidden field of one
other frame, and a place that holds one holds no other.  A step takes some frames out of their places
and drops them with those they iterate (`Tree`, the least such set); since a frame has one holder, the
frames that are dropped are held by nothing that stays.  What an exception forgets is named in
`orphans`, and nothing else is without a holder.  References are counted over the places that hold
them (`Join`), not over sequences put one after the other.

The assumptions are those named in the modules: disjoint, finite sets of threads and tasks, `None`
different from what it stands beside, bounds that are numbers.

*Only model-checked*: all liveness; everything of CycleGc and MapTable; CountsExact of Generators.
Liveness is out of the prover's reach, and so is what a recursive definition computes for every input
(`SelectSeq`, the turns of `ClearSlot`): each needs an induction over data.  MapTable needs one more,
that an odd step meets every slot of a table whose size is a power of two; without it no probe is
known to end.  CycleGc's counts are noted while other threads change them, and an invariant that says
what each noted count stands for at every point of a collection was not found.  CountsExact of
Generators needs, beside the invariant that is proved, a count over the fields of all frames for each
way a block is left.

## 5. What the models found

`generators_return` (`src/lower/stmt.d/statements.rs:140`) is kept as a run: `return` out of a
generator's try leaves its frame on `TRY_STACK`.  The following were met the same way; each is
reproduced by the change given.  The properties of the runs are stated so that they do not depend on
it, which also means that they do not catch it: ResolveReturns holds where nobody shares a handle (1),
GarbageFreed where there are more epochs than values to mark (3), HeapExact and the refinement of
TrialDeletion up to a Misread (5), HandedOver of threads that leave the allocator alone after their
guard (below).

1. `task.rs:189`: the thread that runs a task in place marks its slot `Taken` without waking a second
   thread that sleeps on `done`.  (`task_pool_live` with two clients and `SharedResolve = TRUE`:
   ResolveReturns.)
2. `runtime_android/ui/src/events.rs:37`: the thread of the callbacks exists before counts become
   atomic.  (`park` with `Announced = FALSE`: CountExact.)
3. `rc.rs:812`: marks are never cleared and epochs repeat after 255 collections, so a large cyclic
   structure whose members carry marks of every epoch is kept by each collection.  (`cycle_gc` with
   `Epochs = 2`: GarbageFreed.)
4. `rc.rs:102`: the mark is written after the reference was given back.  (`cycle_gc` with the
   invariant TouchAlive.)
5. `rc.rs:801`: `BUFFERED` is cleared on all candidates before the first one is collected; a later
   one of the same garbage, or a child of it, is read after it was freed (`rc.rs:898`), and collected
   again if the allocator's link (`alloc_cache.rs:76`) looks white.  (`trial_deletion` with the
   invariant CollectorAlive.)
6. `exceptions.rs:416`: the exception that no clause matches is freed by the jump that passes it on.
   (`exceptions` with CaughtAlive.)
7. `httpsession.rs:324`: an error page that sets a value after another request destroyed the session
   brings it back; `docs/builtins/HTTPServer.md:328` says an unknown identifier is never adopted.
   (`http_server` with DestroyedStaysGone; OnlyFailedRevive says that it happens in no other way.)
8. `sqlite.rs:641`: when the engine rolls a block back by itself, `explicit_tx` stays set and the rest
   of the block runs in autocommit; `docs/builtins/SQLite.md:120` promises all or nothing.
   (`databases` with BlockWhole.)

Smaller ones, by reading and by the ghosts of the models: the comments at `exceptions.rs:16` (what the
functions between a raise and its try hold leaks) and `exceptions.rs:90` (a scoped resource of a try's
body leaks) describe an earlier state, the code gives both back (CountsExact, GivenBackOnce of
Exceptions); the exception bound by an `on` of a
generator is not given back when the clause is left early (`message_gen.rs:539`, `lost`); a frame
consumed by `fromMessage` or as a scalar stays allocated when the generator raises
(`message_gen.rs:856`, `orphans`; `docs/EBNF.md` section 28.3 says that what an abandoned generator
holds is given back); the cookie of a session that a handler opened before it raised is dropped with
the other headers while the context keeps the session (`httpserver.rs:861`); blocks freed after the
guard of their thread was dropped never reach the pool, although `alloc_cache.rs:160` says so
(`HandedOver` excludes those threads); `docs/builtins/SQLite.md:305-318` shows a transfer as two
separate commits.

Also exposed, and covered by no model: `settle` gives up after two seconds (`task.rs:229`); a thread
that cannot be created (`thread.rs:118`, `httpserver.rs:893`); a block that enters `DEFERRED` after the
collection ended (`rc.rs:514`); a root given back while an earlier one lists it
(`rc_concurrent.rs:155`); a handler that asks a server of its own process (`httpserver.rs:830`); the
order of the locks of a MySQL handle that two threads share (`mysql.rs:678`); two threads that assign
one captured variable: `assign_local` (`src/lower/stmt.d/rc.rs:382`) reads the old value, stores the
new one and releases the old one in three steps, each cell access under its own lock, so both may give
back the same value, and a reader may retain one that was just freed (`lib.rs:2893`; the comment at
`lib.rs:2840` speaks of a lock that makes concurrent access defined).

## 6. What is left out of the modelled parts, and why

- Finalizers of objects (`rc.rs`, `finalize_object`): they close a native handle (mutex, thread,
  database, request, window), run no program code and touch no count.
- Reading a shared place is one step in CycleGc (`Get`), as for a program whose threads do not
  overwrite what another one reads; the race of the code is described in section 5.
- What follows a `Misread` (TrialDeletion, section 5, 5).
- A task whose body resolves its own handle (TaskPool): it waits for itself.
- The errors of `withLock`'s own lock and unlock (`mutex.rs:229-259`) in Exceptions.
- Values that cannot form cycles (strings) in CycleGc: `Leaves` of TrialDeletion cover their release.
- Memory order: all atomics that the protocols rely on are `SeqCst`; steps are sequentially
  consistent in every module.
- `continue` is told from `break` by its target only (Exceptions); variables that the body and the
  handler of a try capture; captured variables and type filters of generators; the abort at
  `MAX_TRY_DEPTH` in Generators.
- HTTP: parsing, files, headers other than `Set-Cookie`, TLS, and the vendored `tiny_http` beyond its
  queue of requests.  Of the error pages only that for 500 runs a handler (`ErrorPages`); the ones for
  404 and 405 take the same path.  `EnsureSession` is one action where the code takes the lock of
  `STORE` twice, and `set` a third time (`httpsession.rs:186`, 194, 324): no other handler runs in
  between, since the caller holds `HANDLER_LOCK`.
- Databases: rows of a SELECT, `lastInsertId`, `affectedRows`, conversions of columns; a handle used
  by two threads at once.  Text that controls transactions (BEGIN, COMMIT, ROLLBACK, SAVEPOINT) sent
  as an ordinary statement, and statements before which MySQL commits by itself (DDL): `execute`
  passes any text on (`mysql.rs:343`, `sqlite.rs:426-428`), so the engine's transaction then changes
  without the fields of the handle.  HandleExact, PoolClean and the promise of Transactions are about
  programs that leave transactions to the methods of the handle.
- AllocCache: sizes beyond the classes, which go to the system; classes share nothing, so there is
  one.  MapTable: the lifetime of the pointer that `key_at` returns is its caller's.
- Failure of thread creation, deadlines in wall-clock time (`settle`).
- The sequential libraries (JSON, YAML, dates, files), the bindings of user interfaces, and the passes
  of the compiler over its syntax tree.

## 7. Plan

1. (done) TaskPool, Park, CycleGc, TrialDeletion, Memory, Exceptions; theorems of the first two and
   of Memory.
2. (done) AsyncTask; HttpServer; Database and Transactions; Generators; AllocCache; MapTable and
   OrderedMap; theorems of HttpServer and Database.
3. Extend: growing strings against the string they stand for; the index of mixed arrays; locked
   captures, with their race; the effects of `runtime_ui`.  A run
   stays one question: a deeper property takes the place of a shallower one.
4. (done) That TaskPool implements AsyncTask, and TasksAccounted; ServerExact, AnswerNamesSession and
   StoreKept of HttpServer; ListsExact, OneOwner and HandedOver of AllocCache.
   StacksExact, CountsExact, GivenBackOnce and CallersKept of Exceptions.  HeapExact and NoCycleLost
   of TrialDeletion, and that it implements Memory.  StacksExact, FrameOwned and DepthRestored of
   Generators.
5. Prove: CountsExact of Generators; HeapExact of CycleGc.
