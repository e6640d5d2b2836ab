--------------------------- MODULE TaskPoolProofs ---------------------------
(***************************************************************************)
(* Safety of the task pool, for every set of tasks and threads and every   *)
(* way the bodies await each other.                                        *)
(***************************************************************************)
EXTENDS TaskPool, FiniteSetTheorems, SequenceTheorems, TLAPS

-----------------------------------------------------------------------------
(* The inductive invariant                                                 *)

\* What the point a thread is at says of its stack and of its target.
Sound(th) ==
  /\ pc[th] \in {"none", "starting", "taking", "resting", "waiting"} =>
       th \in Workers /\ stack[th] = <<>>
  /\ pc[th] \in {"discard", "retire"} => stack[th] # <<>>
  /\ pc[th] = "discard" => Queued(th)
  /\ th \in Workers /\ pc[th] \in {"code", "spawning", "check", "asleep"} =>
       stack[th] # <<>>
  /\ pc[th] \in {"check", "asleep", "taking"} => target[th] \in Tasks
  /\ pc[th] \in {"check", "asleep"} /\ stack[th] # <<>> => todo[Top(th)] # <<>>
  /\ \A i \in 1..Len(stack[th]) : i < Len(stack[th]) => todo[stack[th][i]] # <<>>

Control == \A th \in Threads : Sound(th)

\* A task is at one place of one stack at most.
StackOnce ==
  \A th, other \in Threads :
    \A i \in 1..Len(stack[th]), j \in 1..Len(stack[other]) :
      stack[th][i] = stack[other][j] => th = other /\ i = j

JobOff == \A t \in Tasks : job[t] => Runners(t) = {}

UnbornIdle == \A t \in Tasks : slot[t] = "Unborn" => ~job[t] /\ Runners(t) = {}

\* The tasks that PENDING counts: not started, or not retired.
Open == {t \in Tasks : job[t] \/ Runners(t) # {}}

PendingExact == pending = Cardinality(Open)

IInv ==
  /\ TypeOK /\ QueueCovered /\ IdleExact
  /\ Control /\ StackOnce /\ JobOff /\ UnbornIdle /\ PendingExact

-----------------------------------------------------------------------------
(* Steps                                                                   *)

LEMMA ThreadsFinite == IsFiniteSet(Threads) /\ IsFiniteSet(Tasks)
BY ThreadsAssumption, FS_Union DEF Threads

\* A step of Next is one of its elementary actions.
LEMMA NextCases ==
  ASSUME [Next]_vars
  PROVE  \/ \E th \in Threads, t \in Tasks :
              \/ SpawnToIdle(th, t) \/ SpawnNewThread(th, t)
              \/ ResolveInPlace(th, t) \/ ResolveElsewhere(th, t)
              \/ BodyDrop(th, t)
         \/ \E th \in Threads, w \in Workers : StartWorker(th, w)
         \/ \E th \in Threads :
              \/ Sleep(th) \/ TakeSlot(th) \/ SpuriousWake(th) \/ BodyRaise(th)
              \/ StoreOutcome(th) \/ FindAbandoned(th) \/ ReleaseOutcome(th)
              \/ MarkTaken(th) \/ RetireQueued(th) \/ RetireInPlace(th)
         \/ \E w \in Workers :
              \/ FirstPop(w) \/ TakeJob(w) \/ MissJob(w)
              \/ GoIdle(w) \/ WakeUp(w) \/ TimeOut(w)
         \/ \E c \in Clients, t \in Tasks : ClientDrop(c, t)
         \/ \E c, d \in Clients, t \in Tasks : Share(c, d, t)
         \/ UNCHANGED vars
BY ThreadsAssumption DEF Next, RuntimeStep, BodyStep, ClientStep, CodeStep, WorkerStep,
   Terminated, Threads


-----------------------------------------------------------------------------
(* Types                                                                   *)

LEMMA StackTop ==
  ASSUME TypeOK, NEW th \in Threads, stack[th] # <<>>
  PROVE  /\ stack[th] \in Seq(Tasks)
         /\ Len(stack[th]) \in Nat /\ Len(stack[th]) >= 1
         /\ Top(th) \in Tasks
         /\ \A i \in 1..Len(stack[th]) : stack[th][i] \in Tasks
BY EmptySeq, ElementOfSeq DEF TypeOK, Top

LEMMA Pop ==
  ASSUME NEW S, NEW s \in Seq(S), s # <<>>
  PROVE  /\ SubSeq(s, 1, Len(s) - 1) \in Seq(S)
         /\ Len(SubSeq(s, 1, Len(s) - 1)) = Len(s) - 1
         /\ \A i \in 1..(Len(s) - 1) : SubSeq(s, 1, Len(s) - 1)[i] = s[i]
<1>1. Len(s) \in Nat \ {0}
  BY EmptySeq
<1>2. \A i \in 1..(Len(s) - 1) : s[i] \in S
  BY <1>1, ElementOfSeq
<1> DEFINE m == Len(s) - 1
<1>3. \A i \in 1..m : s[i] \in S
  BY <1>2
<1>4. m \in Int
  BY <1>1
<1> HIDE DEF m
<1>5. /\ SubSeq(s, 1, m) \in Seq(S)
      /\ Len(SubSeq(s, 1, m)) = IF 1 <= m THEN m - 1 + 1 ELSE 0
      /\ \A i \in 1..(m - 1 + 1) : SubSeq(s, 1, m)[i] = s[1 + i - 1]
  BY <1>3, <1>4, SubSeqProperties
<1>6. m \in Nat /\ m - 1 + 1 = m
  BY <1>1 DEF m
<1>7. Len(SubSeq(s, 1, m)) = m
  BY <1>5, <1>6
<1>8. ASSUME NEW i \in 1..m PROVE SubSeq(s, 1, m)[i] = s[i]
  <2>1. i \in 1..(m - 1 + 1) /\ 1 + i - 1 = i
    BY <1>6
  <2> QED BY <1>5, <2>1
<1> QED BY <1>5, <1>7, <1>8 DEF m

LEMMA Push ==
  ASSUME NEW S, NEW s \in Seq(S), NEW e \in S
  PROVE  /\ Append(s, e) \in Seq(S)
         /\ Append(s, e) # <<>>
         /\ Len(Append(s, e)) = Len(s) + 1
         /\ \A i \in 1..Len(s) : Append(s, e)[i] = s[i]
         /\ Append(s, e)[Len(s) + 1] = e
OBVIOUS

\* The decrements of `idle` and of PENDING start from a positive count.
LEMMA Counted ==
  ASSUME IInv
  PROVE  /\ \A th \in Threads : stack[th] # <<>> => pending > 0
         /\ \A th \in Threads : pc[th] = "waiting" => idle + wakeups > 0
         /\ \A th \in Threads : pc[th] \in {"starting", "spawning"} => Len(queue) > 0
         /\ wakeups > 0 => Len(queue) > 0
<1>1. \A c \in PCs : IsFiniteSet(At(c)) /\ Cardinality(At(c)) \in Nat
  <2>1. \A c \in PCs : At(c) \in SUBSET Threads
    BY DEF At
  <2> QED BY <2>1, ThreadsFinite, FS_Subset, FS_CardinalityType
<1>2. \A th \in Threads : At(pc[th]) # {} /\ pc[th] \in PCs
  BY DEF At, IInv, TypeOK
<1>3. \A th \in Threads : Cardinality(At(pc[th])) > 0
  BY <1>1, <1>2, FS_EmptySet
<1>4. IsFiniteSet(Open) /\ Cardinality(Open) \in Nat
  BY ThreadsFinite, FS_Subset, FS_CardinalityType DEF Open
<1>5. ASSUME NEW th \in Threads, stack[th] # <<>> PROVE pending > 0
  <2>1. Top(th) \in Open
    BY <1>5, StackTop DEF Open, Runners, Top, IInv
  <2> QED BY <2>1, <1>4, FS_EmptySet DEF IInv, PendingExact
<1>6. Len(queue) \in Nat /\ wakeups \in Nat
  BY DEF IInv, TypeOK
<1> QED BY <1>1, <1>3, <1>5, <1>6 DEF IInv, QueueCovered, IdleExact, PCs

LEMMA AdvancedType ==
  ASSUME TypeOK, NEW a, a \in Tasks => todo[a] # <<>>
  PROVE  Advanced(a) \in [Tasks -> Seq(Tasks)]
BY DEF Advanced, TypeOK

LEMMA WokenType ==
  ASSUME TypeOK, NEW t
  PROVE  /\ Woken(t) \in [Threads -> PCs]
         /\ \A th \in Threads :
              \/ Woken(t)[th] = pc[th]
              \/ pc[th] = "asleep" /\ Woken(t)[th] = "check"
BY DEF Woken, TypeOK, PCs


LEMMA CreatedType ==
  ASSUME TypeOK, NEW th \in Threads, NEW t \in Tasks, Created(th, t)
  PROVE  /\ queue' \in Seq(Tasks) /\ job' \in [Tasks -> BOOLEAN]
         /\ slot' \in [Tasks -> {"Unborn", "Running", "Done", "Taken", "Abandoned"}]
         /\ pending' \in Nat /\ holders' \in [Tasks -> SUBSET Agents]
         /\ UNCHANGED <<todo, stack, target, handed>>
<1>1. Agent(th) \in Agents
  <2>1. CASE t \in Internal
    BY <2>1 DEF Created, Agents
  <2>2. CASE t \notin Internal
    BY <2>2 DEF Created, Agents
  <2> QED BY <2>1, <2>2
<1>2. holders' \in [Tasks -> SUBSET Agents]
  <2> DEFINE h(u) == IF u = t THEN {Agent(th)}
                     ELSE IF \E i \in 1..Len(Awaits[t]) : Awaits[t][i] = u /\ u \notin Internal
                          THEN holders[u] \cup {t} ELSE holders[u]
  <2>1. holders' = [u \in Tasks |-> h(u)]
    BY DEF Created
  <2>2. \A u \in Tasks : h(u) \in SUBSET Agents
    BY <1>1 DEF TypeOK, Agents
  <2> HIDE DEF h
  <2> QED BY <2>1, <2>2
<1>3. queue' \in Seq(Tasks)
  BY Push DEF Created, TypeOK
<1> QED BY <1>2, <1>3 DEF Created, TypeOK

LEMMA DroppedType ==
  ASSUME TypeOK, NEW a, NEW t \in Tasks, Dropped(a, t)
  PROVE  TypeOK'
<1>1. holders' \in [Tasks -> SUBSET Agents]
  BY DEF Dropped, TypeOK
<1>2. slot' \in [Tasks -> {"Unborn", "Running", "Done", "Taken", "Abandoned"}]
  BY DEF Dropped, TypeOK
<1>3. handed' \in [Tasks -> Nat]
  <2>1. CASE holders[t] = {a}
    <3>1. CASE slot[t] = "Done"
      BY <2>1, <3>1 DEF Dropped, TypeOK
    <3>2. CASE slot[t] # "Done"
      BY <2>1, <3>2 DEF Dropped, TypeOK
    <3> QED BY <3>1, <3>2
  <2>2. CASE holders[t] # {a}
    BY <2>2 DEF Dropped, TypeOK
  <2> QED BY <2>1, <2>2
<1> QED BY <1>1, <1>2, <1>3 DEF Dropped, TypeOK, poolVars

LEMMA TypeStep ==
  ASSUME IInv, [Next]_vars
  PROVE  TypeOK'
<1>0. TypeOK
  BY DEF IInv
<1>1. ASSUME NEW th \in Threads, NEW t \in Tasks, SpawnToIdle(th, t) PROVE TypeOK'
  BY <1>0, <1>1, CreatedType DEF SpawnToIdle, TypeOK, PCs
<1>2. ASSUME NEW th \in Threads, NEW t \in Tasks, SpawnNewThread(th, t) PROVE TypeOK'
  BY <1>0, <1>2, CreatedType DEF SpawnNewThread, TypeOK, PCs
<1>3. ASSUME NEW th \in Threads, NEW t \in Tasks, ResolveInPlace(th, t) PROVE TypeOK'
  BY <1>0, <1>3, Push DEF ResolveInPlace, MayResolve, poolVars, taskVars, TypeOK, PCs
<1>4. ASSUME NEW th \in Threads, NEW t \in Tasks, ResolveElsewhere(th, t) PROVE TypeOK'
  BY <1>0, <1>4 DEF ResolveElsewhere, MayResolve, poolVars, taskVars, TypeOK, PCs
<1>5. ASSUME NEW th \in Threads, NEW t \in Tasks, BodyDrop(th, t) PROVE TypeOK'
  BY <1>0, <1>5, DroppedType DEF BodyDrop
<1>6. ASSUME NEW th \in Threads, NEW w \in Workers, StartWorker(th, w) PROVE TypeOK'
  BY <1>0, <1>6 DEF StartWorker, poolVars, taskVars, TypeOK, PCs, Threads
<1>7. ASSUME NEW th \in Threads, Sleep(th) PROVE TypeOK'
  BY <1>0, <1>7 DEF Sleep, poolVars, taskVars, TypeOK, PCs
<1>8. ASSUME NEW th \in Threads, TakeSlot(th) PROVE TypeOK'
  <2>1. Agent(th) \in Tasks => todo[Agent(th)] # <<>>
    BY <1>8, ThreadsAssumption DEF TakeSlot, Agent, IInv, Control, Sound, Threads
  <2>2. todo' \in [Tasks -> Seq(Tasks)]
    BY <1>0, <1>8, <2>1, AdvancedType DEF TakeSlot
  <2>3. target[th] \in Tasks
    BY <1>8 DEF TakeSlot, IInv, Control, Sound
  <2>4. handed' \in [Tasks -> Nat]
    BY <1>0, <1>8, <2>3 DEF TakeSlot, TypeOK
  <2> QED BY <1>0, <1>8, <2>2, <2>3, <2>4 DEF TakeSlot, TypeOK, PCs, poolVars
<1>9. ASSUME NEW th \in Threads, SpuriousWake(th) PROVE TypeOK'
  BY <1>0, <1>9 DEF SpuriousWake, poolVars, taskVars, TypeOK, PCs
<1>10. ASSUME NEW th \in Threads, BodyRaise(th) PROVE TypeOK'
  BY <1>0, <1>10, StackTop DEF BodyRaise, InBody, poolVars, taskVars, TypeOK, PCs
<1>11. ASSUME NEW th \in Threads, StoreOutcome(th) PROVE TypeOK'
  BY <1>0, <1>11, StackTop, WokenType DEF StoreOutcome, BodyOver, InBody, poolVars, taskVars, TypeOK, PCs
<1>12. ASSUME NEW th \in Threads, FindAbandoned(th) PROVE TypeOK'
  BY <1>0, <1>12 DEF FindAbandoned, BodyOver, InBody, poolVars, taskVars, TypeOK, PCs
<1>13. ASSUME NEW th \in Threads, ReleaseOutcome(th) PROVE TypeOK'
  BY <1>0, <1>13, StackTop DEF ReleaseOutcome, poolVars, taskVars, TypeOK, PCs, IInv, Control, Sound
<1>14. ASSUME NEW th \in Threads, MarkTaken(th) PROVE TypeOK'
  BY <1>0, <1>14, StackTop DEF MarkTaken, BodyOver, InBody, poolVars, taskVars, TypeOK, PCs
<1>15. ASSUME NEW th \in Threads, RetireQueued(th) PROVE TypeOK'
  <2>1. stack[th] # <<>> /\ stack[th] \in Seq(Tasks) /\ pending > 0
    BY <1>15, Counted DEF RetireQueued, IInv, Control, Sound, TypeOK
  <2>2. SubSeq(stack[th], 1, Len(stack[th]) - 1) \in Seq(Tasks)
    BY <2>1, Pop
  <2> QED BY <1>0, <1>15, <2>1, <2>2 DEF RetireQueued, TypeOK, PCs, poolVars
<1>16. ASSUME NEW th \in Threads, RetireInPlace(th) PROVE TypeOK'
  <2>1. stack[th] # <<>> /\ stack[th] \in Seq(Tasks) /\ pending > 0
    BY <1>16, Counted DEF RetireInPlace, IInv, Control, Sound, TypeOK
  <2>2. todo' \in [Tasks -> Seq(Tasks)]
    <3>1. CASE Len(stack[th]) = 1
      BY <1>0, <1>16, <3>1 DEF RetireInPlace, TypeOK
    <3>2. CASE Len(stack[th]) # 1
      <4>1. todo[stack[th][Len(stack[th]) - 1]] # <<>>
        <5>1. /\ Len(stack[th]) - 1 \in 1..Len(stack[th])
              /\ Len(stack[th]) - 1 < Len(stack[th])
          <6>1. Len(stack[th]) \in Nat /\ Len(stack[th]) >= 1
            BY <1>0, <2>1, StackTop
          <6> DEFINE n == Len(stack[th])
          <6>2. n \in Nat /\ n >= 1 /\ n # 1
            BY <6>1, <3>2
          <6> HIDE DEF n
          <6>3. n - 1 \in 1..n /\ n - 1 < n
            BY <6>2
          <6> QED BY <6>3 DEF n
        <5> QED BY <5>1 DEF IInv, Control, Sound
      <4> DEFINE below == stack[th][Len(stack[th]) - 1]
      <4>2. todo[below] # <<>>
        BY <4>1
      <4>3. todo' = Advanced(below)
        BY <1>16, <3>2 DEF RetireInPlace
      <4> HIDE DEF below
      <4> QED BY <1>0, <4>2, <4>3, AdvancedType
    <3> QED BY <3>1, <3>2
  <2>3. SubSeq(stack[th], 1, Len(stack[th]) - 1) \in Seq(Tasks)
    BY <2>1, Pop
  <2>4. Top(th) \in Tasks
    BY <1>0, <2>1, StackTop
  <2>5. handed' \in [Tasks -> Nat]
    BY <1>0, <1>16, <2>4 DEF RetireInPlace, TypeOK
  <2>6. stack' \in [Threads -> Seq(Tasks)]
    BY <1>0, <1>16, <2>3 DEF RetireInPlace, TypeOK
  <2>7. pending' \in Nat /\ pc' \in [Threads -> PCs]
    BY <1>0, <1>16, <2>1 DEF RetireInPlace, TypeOK, PCs
  <2> QED BY <1>0, <1>16, <2>2, <2>5, <2>6, <2>7 DEF RetireInPlace, TypeOK, poolVars
<1>17. ASSUME NEW w \in Workers, FirstPop(w) PROVE TypeOK'
  <2>1. queue' \in Seq(Tasks) /\ target' \in [Threads -> Tasks \cup {NoTask}]
    <3>1. CASE queue = <<>>
      BY <1>0, <1>17, <3>1 DEF FirstPop, TypeOK
    <3>2. CASE queue # <<>>
      <4>1. Head(queue) \in Tasks /\ Tail(queue) \in Seq(Tasks)
        BY <1>0, <3>2, HeadTailProperties DEF TypeOK
      <4> QED BY <1>0, <1>17, <3>2, <4>1 DEF FirstPop, TypeOK
    <3> QED BY <3>1, <3>2
  <2>2. pc' \in [Threads -> PCs]
    BY <1>0, <1>17 DEF FirstPop, TypeOK, Threads, PCs
  <2> QED BY <1>0, <1>17, <2>1, <2>2 DEF FirstPop, TypeOK, taskVars
<1>18. ASSUME NEW w \in Workers, TakeJob(w) PROVE TypeOK'
  BY <1>0, <1>18, Push DEF TakeJob, poolVars, taskVars, TypeOK, PCs, Threads, IInv, Control, Sound
<1>19. ASSUME NEW w \in Workers, MissJob(w) PROVE TypeOK'
  BY <1>0, <1>19 DEF MissJob, poolVars, taskVars, TypeOK, PCs, Threads
<1>20. ASSUME NEW w \in Workers, GoIdle(w) PROVE TypeOK'
  BY <1>0, <1>20 DEF GoIdle, poolVars, taskVars, TypeOK, PCs, Threads
<1>21. ASSUME NEW w \in Workers, WakeUp(w) PROVE TypeOK'
  <2>1. queue' \in Seq(Tasks) /\ target' \in [Threads -> Tasks \cup {NoTask}]
    <3>1. CASE queue = <<>>
      BY <1>0, <1>21, <3>1 DEF WakeUp, TypeOK
    <3>2. CASE queue # <<>>
      <4>1. Head(queue) \in Tasks /\ Tail(queue) \in Seq(Tasks)
        BY <1>0, <3>2, HeadTailProperties DEF TypeOK
      <4> QED BY <1>0, <1>21, <3>2, <4>1 DEF WakeUp, TypeOK
    <3> QED BY <3>1, <3>2
  <2>2. pc' \in [Threads -> PCs]
    BY <1>0, <1>21 DEF WakeUp, TypeOK, Threads, PCs
  <2> QED BY <1>0, <1>21, <2>1, <2>2 DEF WakeUp, TypeOK, taskVars
<1>22. ASSUME NEW w \in Workers, TimeOut(w) PROVE TypeOK'
  BY <1>0, <1>22, Counted DEF TimeOut, poolVars, taskVars, TypeOK, PCs, Threads
<1>23. ASSUME NEW c \in Clients, NEW t \in Tasks, ClientDrop(c, t) PROVE TypeOK'
  BY <1>0, <1>23, DroppedType DEF ClientDrop
<1>24. ASSUME NEW c \in Clients, NEW d \in Clients, NEW t \in Tasks, Share(c, d, t) PROVE TypeOK'
  BY <1>0, <1>24 DEF Share, poolVars, taskVars, TypeOK, PCs, Agents, Agent, Threads
<1>25. CASE UNCHANGED vars
  BY <1>25, <1>0 DEF vars, TypeOK, PCs
<1> QED BY <1>1, <1>2, <1>3, <1>4, <1>5, <1>6, <1>7, <1>8, <1>9, <1>10, <1>11, <1>12, <1>13, <1>14, <1>15, <1>16, <1>17, <1>18, <1>19, <1>20, <1>21, <1>22, <1>23, <1>24, <1>25, NextCases


-----------------------------------------------------------------------------
(* The pool's counters                                                     *)

\* The number of threads at point c, when f says where each thread is.
NumAt(f, c) == Cardinality({x \in Threads : f[x] = c})

Promises == {"starting", "spawning", "waiting"}

LEMMA NumAtType ==
  \A f, c : NumAt(f, c) \in Nat
<1> TAKE f, c
<1>1. {x \in Threads : f[x] = c} \in SUBSET Threads
  OBVIOUS
<1>2. IsFiniteSet({x \in Threads : f[x] = c})
  BY <1>1, ThreadsFinite, FS_Subset
<1> QED BY <1>2, FS_CardinalityType DEF NumAt

LEMMA NumAtMove ==
  ASSUME NEW f, NEW g, NEW th \in Threads, f[th] # g[th],
         \A x \in Threads : x # th => g[x] = f[x]
  PROVE  /\ NumAt(g, g[th]) = NumAt(f, g[th]) + 1
         /\ NumAt(f, f[th]) = NumAt(g, f[th]) + 1
<1> DEFINE F(c) == {x \in Threads : f[x] = c}
           G(c) == {x \in Threads : g[x] = c}
<1>1. \A c : IsFiniteSet(F(c)) /\ IsFiniteSet(G(c))
  <2>1. \A c : F(c) \in SUBSET Threads /\ G(c) \in SUBSET Threads
    OBVIOUS
  <2> QED BY <2>1, ThreadsFinite, FS_Subset
<1>2. \A c : NumAt(f, c) = Cardinality(F(c)) /\ NumAt(g, c) = Cardinality(G(c))
  BY DEF NumAt
<1>3. G(g[th]) = F(g[th]) \cup {th} /\ th \notin F(g[th])
  OBVIOUS
<1>4. F(f[th]) = G(f[th]) \cup {th} /\ th \notin G(f[th])
  OBVIOUS
<1>6. Cardinality(G(g[th])) = Cardinality(F(g[th])) + 1
  <2> DEFINE A == F(g[th])
             B == G(g[th])
  <2>1. B = A \cup {th} /\ th \notin A /\ IsFiniteSet(A)
    BY <1>1, <1>3
  <2> HIDE DEF A, B
  <2>2. Cardinality(B) = Cardinality(A) + 1
    BY <2>1, FS_AddElement
  <2> QED BY <2>2 DEF A, B
<1>7. Cardinality(F(f[th])) = Cardinality(G(f[th])) + 1
  <2> DEFINE A == G(f[th])
             B == F(f[th])
  <2>1. B = A \cup {th} /\ th \notin A /\ IsFiniteSet(A)
    BY <1>1, <1>4
  <2> HIDE DEF A, B
  <2>2. Cardinality(B) = Cardinality(A) + 1
    BY <2>1, FS_AddElement
  <2> QED BY <2>2 DEF A, B
<1> HIDE DEF F, G
<1> QED BY <1>2, <1>6, <1>7

\* A step that moves one thread changes the counts of the two points by one.
LEMMA MoveOne ==
  ASSUME TypeOK, NEW th \in Threads, NEW d, pc' = [pc EXCEPT ![th] = d], pc[th] # d
  PROVE  /\ NumAt(pc', d) = NumAt(pc, d) + 1
         /\ NumAt(pc, pc[th]) = NumAt(pc', pc[th]) + 1
<1> DEFINE f == pc
           g == pc'
<1>1. f[th] # g[th] /\ g[th] = d /\ \A x \in Threads : x # th => g[x] = f[x]
  BY DEF TypeOK
<1> HIDE DEF f, g
<1>2. /\ NumAt(g, g[th]) = NumAt(f, g[th]) + 1
      /\ NumAt(f, f[th]) = NumAt(g, f[th]) + 1
  BY <1>1, NumAtMove
<1> QED BY <1>1, <1>2 DEF f, g

LEMMA SameCounts ==
  ASSUME \A x \in Threads : pc'[x] = pc[x] \/ (pc[x] \notin Promises /\ pc'[x] \notin Promises)
  PROVE  \A c \in Promises : NumAt(pc', c) = NumAt(pc, c)
<1> TAKE c \in Promises
<1>1. {x \in Threads : pc'[x] = c} = {x \in Threads : pc[x] = c}
  OBVIOUS
<1> QED BY <1>1 DEF NumAt

\* The counting invariant in terms of NumAt, before and after a step.
LEMMA Counters ==
  /\ QueueCovered <=> Len(queue) = wakeups + NumAt(pc, "starting") + NumAt(pc, "spawning")
  /\ IdleExact <=> idle + wakeups = NumAt(pc, "waiting")
  /\ QueueCovered' <=> Len(queue') = wakeups' + NumAt(pc', "starting") + NumAt(pc', "spawning")
  /\ IdleExact' <=> idle' + wakeups' = NumAt(pc', "waiting")
BY DEF QueueCovered, IdleExact, NumAt, At

\* The lengths and counters are naturals, and the invariant holds of them.
LEMMA Before ==
  ASSUME IInv
  PROVE  /\ Len(queue) \in Nat /\ idle \in Nat /\ wakeups \in Nat
         /\ NumAt(pc, "starting") \in Nat /\ NumAt(pc, "spawning") \in Nat
         /\ NumAt(pc, "waiting") \in Nat
         /\ Len(queue) = wakeups + NumAt(pc, "starting") + NumAt(pc, "spawning")
         /\ idle + wakeups = NumAt(pc, "waiting")
<1>1. Len(queue) \in Nat /\ idle \in Nat /\ wakeups \in Nat
  BY DEF IInv, TypeOK
<1> QED BY <1>1, NumAtType, Counters DEF IInv

LEMMA After ==
  /\ NumAt(pc', "starting") \in Nat /\ NumAt(pc', "spawning") \in Nat
  /\ NumAt(pc', "waiting") \in Nat
BY NumAtType


\* A step that changes neither the counters nor who is promised what.
LEMMA SameCountersStep ==
  ASSUME IInv, UNCHANGED <<queue, idle, wakeups>>,
         \A x \in Threads : pc'[x] = pc[x] \/ (pc[x] \notin Promises /\ pc'[x] \notin Promises)
  PROVE  QueueCovered' /\ IdleExact'
BY SameCounts, Before, After, Counters DEF Promises

LEMMA CountStep ==
  ASSUME IInv, [Next]_vars
  PROVE  QueueCovered' /\ IdleExact'
<1>0. TypeOK
  BY DEF IInv
<1>1. ASSUME NEW th \in Threads, NEW t \in Tasks, SpawnToIdle(th, t) PROVE QueueCovered' /\ IdleExact'
  <2>1. UNCHANGED pc
    BY <1>1 DEF SpawnToIdle
  <2>2. Len(queue') = Len(queue) + 1 /\ idle' = idle - 1 /\ wakeups' = wakeups + 1
    BY <1>0, <1>1, Push DEF SpawnToIdle, Created, TypeOK
  <2>3. /\ Len(queue') = wakeups' + NumAt(pc', "starting") + NumAt(pc', "spawning")
        /\ idle' + wakeups' = NumAt(pc', "waiting")
    BY <2>1, <2>2, Before, After
  <2> QED BY <2>3, Counters
<1>2. ASSUME NEW th \in Threads, NEW t \in Tasks, SpawnNewThread(th, t) PROVE QueueCovered' /\ IdleExact'
  <2>1. pc[th] = "code" /\ pc' = [pc EXCEPT ![th] = "spawning"] /\ th \in Threads
    BY <1>2 DEF SpawnNewThread, Created, Threads
  <2>2. /\ NumAt(pc', "starting") = NumAt(pc, "starting")
        /\ NumAt(pc', "spawning") = NumAt(pc, "spawning") + 1
        /\ NumAt(pc', "waiting") = NumAt(pc, "waiting")
    <3>1. NumAt(pc', "starting") = NumAt(pc, "starting")
      <4>1. \A x \in Threads : pc'[x] = "starting" <=> pc[x] = "starting"
        BY <1>0, <2>1 DEF TypeOK
      <4> QED BY <4>1 DEF NumAt
    <3>2. NumAt(pc', "spawning") = NumAt(pc, "spawning") + 1
      BY <1>0, <2>1, MoveOne
    <3>3. NumAt(pc', "waiting") = NumAt(pc, "waiting")
      <4>1. \A x \in Threads : pc'[x] = "waiting" <=> pc[x] = "waiting"
        BY <1>0, <2>1 DEF TypeOK
      <4> QED BY <4>1 DEF NumAt
    <3> QED BY <3>1, <3>2, <3>3
  <2>3. Len(queue') = Len(queue) + 1 /\ idle' = idle /\ wakeups' = wakeups
    BY <1>0, <1>2, Push DEF SpawnNewThread, Created, TypeOK
  <2>4. /\ Len(queue) \in Nat /\ wakeups \in Nat /\ idle \in Nat
        /\ NumAt(pc, "starting") \in Nat /\ NumAt(pc, "spawning") \in Nat
        /\ Len(queue) + 1 = wakeups + NumAt(pc, "starting") + (NumAt(pc, "spawning") + 1)
        /\ idle + wakeups = NumAt(pc, "waiting")
    BY Before
  <2>5. Len(queue') = wakeups' + NumAt(pc', "starting") + NumAt(pc', "spawning")
    BY <2>2, <2>3, <2>4
  <2>6. idle' + wakeups' = NumAt(pc', "waiting")
    BY <2>2, <2>3, <2>4
  <2> QED BY <2>5, <2>6, Counters
<1>3. ASSUME NEW th \in Threads, NEW t \in Tasks, ResolveInPlace(th, t) PROVE QueueCovered' /\ IdleExact'
  <2>1. \A x \in Threads : pc'[x] = pc[x] \/ (pc[x] \notin Promises /\ pc'[x] \notin Promises)
    BY <1>0, <1>3 DEF ResolveInPlace, MayResolve, poolVars, taskVars, TypeOK, Promises, Threads
  <2>2. UNCHANGED <<queue, idle, wakeups>>
    BY <1>3 DEF ResolveInPlace, MayResolve, poolVars, taskVars
  <2> QED BY <2>1, <2>2, SameCountersStep
<1>4. ASSUME NEW th \in Threads, NEW t \in Tasks, ResolveElsewhere(th, t) PROVE QueueCovered' /\ IdleExact'
  <2>1. \A x \in Threads : pc'[x] = pc[x] \/ (pc[x] \notin Promises /\ pc'[x] \notin Promises)
    BY <1>0, <1>4 DEF ResolveElsewhere, MayResolve, poolVars, taskVars, TypeOK, Promises, Threads
  <2>2. UNCHANGED <<queue, idle, wakeups>>
    BY <1>4 DEF ResolveElsewhere, MayResolve, poolVars, taskVars
  <2> QED BY <2>1, <2>2, SameCountersStep
<1>5. ASSUME NEW th \in Threads, NEW t \in Tasks, BodyDrop(th, t) PROVE QueueCovered' /\ IdleExact'
  <2>1. \A x \in Threads : pc'[x] = pc[x] \/ (pc[x] \notin Promises /\ pc'[x] \notin Promises)
    BY <1>0, <1>5 DEF BodyDrop, InBody, Dropped, poolVars, taskVars, TypeOK, Promises, Threads
  <2>2. UNCHANGED <<queue, idle, wakeups>>
    BY <1>5 DEF BodyDrop, InBody, Dropped, poolVars, taskVars
  <2> QED BY <2>1, <2>2, SameCountersStep
<1>6. ASSUME NEW th \in Threads, NEW w \in Workers, StartWorker(th, w) PROVE QueueCovered' /\ IdleExact'
  <2> DEFINE mid == [pc EXCEPT ![th] = "code"]
  <2>1. /\ pc[th] = "spawning" /\ pc[w] = "none" /\ th # w /\ w \in Threads
        /\ pc' = [pc EXCEPT ![th] = "code", ![w] = "starting"]
    BY <1>6 DEF StartWorker, Threads
  <2>2. /\ mid[th] = "code" /\ mid[w] = "none"
        /\ \A x \in Threads : x # th => mid[x] = pc[x]
        /\ pc'[w] = "starting"
        /\ \A x \in Threads : x # w => pc'[x] = mid[x]
    BY <1>0, <2>1 DEF TypeOK, PCs
  <2> HIDE DEF mid
  <2>3. NumAt(pc, "spawning") = NumAt(mid, "spawning") + 1
    BY <2>1, <2>2, NumAtMove
  <2>4. NumAt(pc', "starting") = NumAt(mid, "starting") + 1
    <3> DEFINE g == pc'
    <3>1. mid[w] # g[w] /\ g[w] = "starting" /\ \A x \in Threads : x # w => g[x] = mid[x]
      BY <2>2
    <3> HIDE DEF g
    <3>2. NumAt(g, g[w]) = NumAt(mid, g[w]) + 1
      BY <2>1, <3>1, NumAtMove
    <3> QED BY <3>1, <3>2 DEF g
  <2>6. NumAt(mid, "starting") = NumAt(pc, "starting")
    <3>1. \A x \in Threads : mid[x] = "starting" <=> pc[x] = "starting"
      BY <2>1, <2>2
    <3> QED BY <3>1 DEF NumAt
  <2>7. NumAt(pc', "spawning") = NumAt(mid, "spawning")
    <3>1. \A x \in Threads : pc'[x] = "spawning" <=> mid[x] = "spawning"
      BY <2>1, <2>2
    <3> QED BY <3>1 DEF NumAt
  <2>8. NumAt(pc', "waiting") = NumAt(pc, "waiting")
    <3>1. \A x \in Threads : pc'[x] = "waiting" <=> pc[x] = "waiting"
      BY <2>1, <2>2
    <3> QED BY <3>1 DEF NumAt
  <2>5. UNCHANGED <<queue, idle, wakeups>>
    BY <1>6 DEF StartWorker, poolVars
  <2>9. /\ Len(queue') = wakeups' + NumAt(pc', "starting") + NumAt(pc', "spawning")
        /\ idle' + wakeups' = NumAt(pc', "waiting")
    BY <2>3, <2>4, <2>5, <2>6, <2>7, <2>8, Before, After
  <2> QED BY <2>9, Counters
<1>7. ASSUME NEW th \in Threads, Sleep(th) PROVE QueueCovered' /\ IdleExact'
  <2>1. \A x \in Threads : pc'[x] = pc[x] \/ (pc[x] \notin Promises /\ pc'[x] \notin Promises)
    BY <1>0, <1>7 DEF Sleep, poolVars, taskVars, TypeOK, Promises, Threads
  <2>2. UNCHANGED <<queue, idle, wakeups>>
    BY <1>7 DEF Sleep, poolVars, taskVars
  <2> QED BY <2>1, <2>2, SameCountersStep
<1>8. ASSUME NEW th \in Threads, TakeSlot(th) PROVE QueueCovered' /\ IdleExact'
  <2>1. \A x \in Threads : pc'[x] = pc[x] \/ (pc[x] \notin Promises /\ pc'[x] \notin Promises)
    BY <1>0, <1>8 DEF TakeSlot, poolVars, taskVars, TypeOK, Promises, Threads
  <2>2. UNCHANGED <<queue, idle, wakeups>>
    BY <1>8 DEF TakeSlot, poolVars, taskVars
  <2> QED BY <2>1, <2>2, SameCountersStep
<1>9. ASSUME NEW th \in Threads, SpuriousWake(th) PROVE QueueCovered' /\ IdleExact'
  <2>1. \A x \in Threads : pc'[x] = pc[x] \/ (pc[x] \notin Promises /\ pc'[x] \notin Promises)
    BY <1>0, <1>9 DEF SpuriousWake, poolVars, taskVars, TypeOK, Promises, Threads
  <2>2. UNCHANGED <<queue, idle, wakeups>>
    BY <1>9 DEF SpuriousWake, poolVars, taskVars
  <2> QED BY <2>1, <2>2, SameCountersStep
<1>10. ASSUME NEW th \in Threads, BodyRaise(th) PROVE QueueCovered' /\ IdleExact'
  <2>1. \A x \in Threads : pc'[x] = pc[x] \/ (pc[x] \notin Promises /\ pc'[x] \notin Promises)
    BY <1>0, <1>10 DEF BodyRaise, InBody, poolVars, taskVars, TypeOK, Promises, Threads
  <2>2. UNCHANGED <<queue, idle, wakeups>>
    BY <1>10 DEF BodyRaise, InBody, poolVars, taskVars
  <2> QED BY <2>1, <2>2, SameCountersStep
<1>11. ASSUME NEW th \in Threads, StoreOutcome(th) PROVE QueueCovered' /\ IdleExact'
  <2>1. \A x \in Threads : pc'[x] = pc[x] \/ (pc[x] \notin Promises /\ pc'[x] \notin Promises)
    BY <1>0, <1>11, WokenType DEF StoreOutcome, BodyOver, InBody, poolVars, taskVars, TypeOK, Promises, Threads
  <2>2. UNCHANGED <<queue, idle, wakeups>>
    BY <1>11 DEF StoreOutcome, BodyOver, InBody, poolVars, taskVars
  <2> QED BY <2>1, <2>2, SameCountersStep
<1>12. ASSUME NEW th \in Threads, FindAbandoned(th) PROVE QueueCovered' /\ IdleExact'
  <2>1. \A x \in Threads : pc'[x] = pc[x] \/ (pc[x] \notin Promises /\ pc'[x] \notin Promises)
    BY <1>0, <1>12 DEF FindAbandoned, BodyOver, InBody, poolVars, taskVars, TypeOK, Promises, Threads
  <2>2. UNCHANGED <<queue, idle, wakeups>>
    BY <1>12 DEF FindAbandoned, BodyOver, InBody, poolVars, taskVars
  <2> QED BY <2>1, <2>2, SameCountersStep
<1>13. ASSUME NEW th \in Threads, ReleaseOutcome(th) PROVE QueueCovered' /\ IdleExact'
  <2>1. \A x \in Threads : pc'[x] = pc[x] \/ (pc[x] \notin Promises /\ pc'[x] \notin Promises)
    BY <1>0, <1>13 DEF ReleaseOutcome, poolVars, taskVars, TypeOK, Promises, Threads
  <2>2. UNCHANGED <<queue, idle, wakeups>>
    BY <1>13 DEF ReleaseOutcome, poolVars, taskVars
  <2> QED BY <2>1, <2>2, SameCountersStep
<1>14. ASSUME NEW th \in Threads, MarkTaken(th) PROVE QueueCovered' /\ IdleExact'
  <2>1. \A x \in Threads : pc'[x] = pc[x] \/ (pc[x] \notin Promises /\ pc'[x] \notin Promises)
    BY <1>0, <1>14 DEF MarkTaken, BodyOver, InBody, poolVars, taskVars, TypeOK, Promises, Threads
  <2>2. UNCHANGED <<queue, idle, wakeups>>
    BY <1>14 DEF MarkTaken, BodyOver, InBody, poolVars, taskVars
  <2> QED BY <2>1, <2>2, SameCountersStep
<1>15. ASSUME NEW th \in Threads, RetireQueued(th) PROVE QueueCovered' /\ IdleExact'
  <2>1. \A x \in Threads : pc'[x] = pc[x] \/ (pc[x] \notin Promises /\ pc'[x] \notin Promises)
    BY <1>0, <1>15 DEF RetireQueued, poolVars, taskVars, TypeOK, Promises, Threads
  <2>2. UNCHANGED <<queue, idle, wakeups>>
    BY <1>15 DEF RetireQueued, poolVars, taskVars
  <2> QED BY <2>1, <2>2, SameCountersStep
<1>16. ASSUME NEW th \in Threads, RetireInPlace(th) PROVE QueueCovered' /\ IdleExact'
  <2>1. \A x \in Threads : pc'[x] = pc[x] \/ (pc[x] \notin Promises /\ pc'[x] \notin Promises)
    BY <1>0, <1>16 DEF RetireInPlace, poolVars, taskVars, TypeOK, Promises, Threads
  <2>2. UNCHANGED <<queue, idle, wakeups>>
    BY <1>16 DEF RetireInPlace, poolVars, taskVars
  <2> QED BY <2>1, <2>2, SameCountersStep
<1>17. ASSUME NEW w \in Workers, FirstPop(w) PROVE QueueCovered' /\ IdleExact'
  <2>0. Len(queue) > 0
    BY <1>0, <1>17, Counted DEF FirstPop, Threads
  <2>4. queue # <<>> /\ Len(Tail(queue)) = Len(queue) - 1
    BY <1>0, <2>0, EmptySeq, HeadTailProperties DEF TypeOK
  <2>1. pc[w] = "starting" /\ pc' = [pc EXCEPT ![w] = "taking"] /\ w \in Threads
    BY <1>17, <2>4 DEF FirstPop, poolVars, taskVars, Threads
  <2>2. /\ NumAt(pc, "starting") = NumAt(pc', "starting") + 1
        /\ NumAt(pc', "spawning") = NumAt(pc, "spawning")
        /\ NumAt(pc', "waiting") = NumAt(pc, "waiting")
    <3>1. NumAt(pc, "starting") = NumAt(pc', "starting") + 1
      BY <1>0, <2>1, MoveOne
    <3>2. NumAt(pc', "spawning") = NumAt(pc, "spawning")
      <4>1. \A x \in Threads : pc'[x] = "spawning" <=> pc[x] = "spawning"
        BY <1>0, <2>1 DEF TypeOK
      <4> QED BY <4>1 DEF NumAt
    <3>3. NumAt(pc', "waiting") = NumAt(pc, "waiting")
      <4>1. \A x \in Threads : pc'[x] = "waiting" <=> pc[x] = "waiting"
        BY <1>0, <2>1 DEF TypeOK
      <4> QED BY <4>1 DEF NumAt
    <3> QED BY <3>1, <3>2, <3>3
  <2>3. Len(queue') = Len(queue) - 1 /\ idle' = idle /\ wakeups' = wakeups
    BY <1>0, <1>17, <2>4 DEF FirstPop, poolVars, taskVars, TypeOK
  <2>5. /\ Len(queue') = wakeups' + NumAt(pc', "starting") + NumAt(pc', "spawning")
        /\ idle' + wakeups' = NumAt(pc', "waiting")
    BY <2>2, <2>3, Before, After
  <2> QED BY <2>5, Counters
<1>18. ASSUME NEW w \in Workers, TakeJob(w) PROVE QueueCovered' /\ IdleExact'
  <2>1. \A x \in Threads : pc'[x] = pc[x] \/ (pc[x] \notin Promises /\ pc'[x] \notin Promises)
    BY <1>0, <1>18 DEF TakeJob, poolVars, taskVars, TypeOK, Promises, Threads
  <2>2. UNCHANGED <<queue, idle, wakeups>>
    BY <1>18 DEF TakeJob, poolVars, taskVars
  <2> QED BY <2>1, <2>2, SameCountersStep
<1>19. ASSUME NEW w \in Workers, MissJob(w) PROVE QueueCovered' /\ IdleExact'
  <2>1. \A x \in Threads : pc'[x] = pc[x] \/ (pc[x] \notin Promises /\ pc'[x] \notin Promises)
    BY <1>0, <1>19 DEF MissJob, poolVars, taskVars, TypeOK, Promises, Threads
  <2>2. UNCHANGED <<queue, idle, wakeups>>
    BY <1>19 DEF MissJob, poolVars, taskVars
  <2> QED BY <2>1, <2>2, SameCountersStep
<1>20. ASSUME NEW w \in Workers, GoIdle(w) PROVE QueueCovered' /\ IdleExact'
  <2>1. pc[w] = "resting" /\ pc' = [pc EXCEPT ![w] = "waiting"] /\ w \in Threads
    BY <1>20 DEF GoIdle, poolVars, taskVars, Threads
  <2>2. /\ NumAt(pc', "starting") = NumAt(pc, "starting")
        /\ NumAt(pc', "spawning") = NumAt(pc, "spawning")
        /\ NumAt(pc', "waiting") = NumAt(pc, "waiting") + 1
    <3>1. NumAt(pc', "starting") = NumAt(pc, "starting")
      <4>1. \A x \in Threads : pc'[x] = "starting" <=> pc[x] = "starting"
        BY <1>0, <2>1 DEF TypeOK
      <4> QED BY <4>1 DEF NumAt
    <3>2. NumAt(pc', "spawning") = NumAt(pc, "spawning")
      <4>1. \A x \in Threads : pc'[x] = "spawning" <=> pc[x] = "spawning"
        BY <1>0, <2>1 DEF TypeOK
      <4> QED BY <4>1 DEF NumAt
    <3>3. NumAt(pc', "waiting") = NumAt(pc, "waiting") + 1
      BY <1>0, <2>1, MoveOne
    <3> QED BY <3>1, <3>2, <3>3
  <2>3. Len(queue') = Len(queue) /\ idle' = idle + 1 /\ wakeups' = wakeups
    BY <1>0, <1>20 DEF GoIdle, poolVars, taskVars, TypeOK
  <2>5. /\ Len(queue') = wakeups' + NumAt(pc', "starting") + NumAt(pc', "spawning")
        /\ idle' + wakeups' = NumAt(pc', "waiting")
    BY <2>2, <2>3, Before, After
  <2> QED BY <2>5, Counters
<1>21. ASSUME NEW w \in Workers, WakeUp(w) PROVE QueueCovered' /\ IdleExact'
  <2>0. Len(queue) > 0
    BY <1>0, <1>21, Counted DEF WakeUp, Threads
  <2>4. queue # <<>> /\ Len(Tail(queue)) = Len(queue) - 1
    BY <1>0, <2>0, EmptySeq, HeadTailProperties DEF TypeOK
  <2>1. pc[w] = "waiting" /\ pc' = [pc EXCEPT ![w] = "taking"] /\ w \in Threads
    BY <1>21, <2>4 DEF WakeUp, poolVars, taskVars, Threads
  <2>2. /\ NumAt(pc', "starting") = NumAt(pc, "starting")
        /\ NumAt(pc', "spawning") = NumAt(pc, "spawning")
        /\ NumAt(pc, "waiting") = NumAt(pc', "waiting") + 1
    <3>1. NumAt(pc', "starting") = NumAt(pc, "starting")
      <4>1. \A x \in Threads : pc'[x] = "starting" <=> pc[x] = "starting"
        BY <1>0, <2>1 DEF TypeOK
      <4> QED BY <4>1 DEF NumAt
    <3>2. NumAt(pc', "spawning") = NumAt(pc, "spawning")
      <4>1. \A x \in Threads : pc'[x] = "spawning" <=> pc[x] = "spawning"
        BY <1>0, <2>1 DEF TypeOK
      <4> QED BY <4>1 DEF NumAt
    <3>3. NumAt(pc, "waiting") = NumAt(pc', "waiting") + 1
      BY <1>0, <2>1, MoveOne
    <3> QED BY <3>1, <3>2, <3>3
  <2>3. Len(queue') = Len(queue) - 1 /\ idle' = idle /\ wakeups' = wakeups - 1
    BY <1>0, <1>21, <2>4 DEF WakeUp, poolVars, taskVars, TypeOK
  <2>5. /\ Len(queue') = wakeups' + NumAt(pc', "starting") + NumAt(pc', "spawning")
        /\ idle' + wakeups' = NumAt(pc', "waiting")
    BY <2>2, <2>3, Before, After
  <2> QED BY <2>5, Counters
<1>22. ASSUME NEW w \in Workers, TimeOut(w) PROVE QueueCovered' /\ IdleExact'
  <2>1. pc[w] = "waiting" /\ pc' = [pc EXCEPT ![w] = "none"] /\ w \in Threads
    BY <1>22 DEF TimeOut, poolVars, taskVars, Threads
  <2>2. /\ NumAt(pc', "starting") = NumAt(pc, "starting")
        /\ NumAt(pc', "spawning") = NumAt(pc, "spawning")
        /\ NumAt(pc, "waiting") = NumAt(pc', "waiting") + 1
    <3>1. NumAt(pc', "starting") = NumAt(pc, "starting")
      <4>1. \A x \in Threads : pc'[x] = "starting" <=> pc[x] = "starting"
        BY <1>0, <2>1 DEF TypeOK
      <4> QED BY <4>1 DEF NumAt
    <3>2. NumAt(pc', "spawning") = NumAt(pc, "spawning")
      <4>1. \A x \in Threads : pc'[x] = "spawning" <=> pc[x] = "spawning"
        BY <1>0, <2>1 DEF TypeOK
      <4> QED BY <4>1 DEF NumAt
    <3>3. NumAt(pc, "waiting") = NumAt(pc', "waiting") + 1
      BY <1>0, <2>1, MoveOne
    <3> QED BY <3>1, <3>2, <3>3
  <2>3. Len(queue') = Len(queue) /\ idle' = idle - 1 /\ wakeups' = wakeups
    BY <1>0, <1>22 DEF TimeOut, poolVars, taskVars, TypeOK
  <2>5. /\ Len(queue') = wakeups' + NumAt(pc', "starting") + NumAt(pc', "spawning")
        /\ idle' + wakeups' = NumAt(pc', "waiting")
    BY <2>2, <2>3, Before, After
  <2> QED BY <2>5, Counters
<1>23. ASSUME NEW c \in Clients, NEW t \in Tasks, ClientDrop(c, t) PROVE QueueCovered' /\ IdleExact'
  <2>1. \A x \in Threads : pc'[x] = pc[x] \/ (pc[x] \notin Promises /\ pc'[x] \notin Promises)
    BY <1>0, <1>23 DEF ClientDrop, Dropped, poolVars, taskVars, TypeOK, Promises, Threads
  <2>2. UNCHANGED <<queue, idle, wakeups>>
    BY <1>23 DEF ClientDrop, Dropped, poolVars, taskVars
  <2> QED BY <2>1, <2>2, SameCountersStep
<1>24. ASSUME NEW c \in Clients, NEW d \in Clients, NEW t \in Tasks, Share(c, d, t) PROVE QueueCovered' /\ IdleExact'
  <2>1. \A x \in Threads : pc'[x] = pc[x] \/ (pc[x] \notin Promises /\ pc'[x] \notin Promises)
    BY <1>0, <1>24 DEF Share, poolVars, taskVars, TypeOK, Promises, Threads
  <2>2. UNCHANGED <<queue, idle, wakeups>>
    BY <1>24 DEF Share, poolVars, taskVars
  <2> QED BY <2>1, <2>2, SameCountersStep
<1>25. CASE UNCHANGED vars
  BY <1>25, SameCountersStep DEF vars
<1> QED BY <1>1, <1>2, <1>3, <1>4, <1>5, <1>6, <1>7, <1>8, <1>9, <1>10, <1>11, <1>12, <1>13, <1>14, <1>15, <1>16, <1>17, <1>18, <1>19, <1>20, <1>21, <1>22, <1>23, <1>24, <1>25, NextCases

-----------------------------------------------------------------------------
(* Which task is on which stack                                            *)

\* A step that moves no task and opens none.
LEMMA RunSame ==
  ASSUME IInv, UNCHANGED <<stack, job, pending>>,
         \A t \in Tasks : slot'[t] = "Unborn" => slot[t] = "Unborn"
  PROVE  StackOnce' /\ JobOff' /\ UnbornIdle' /\ PendingExact'
<1>1. \A t : Runners(t)' = Runners(t)
  BY DEF Runners
<1>2. Open' = Open
  BY <1>1 DEF Open
<1> QED BY <1>1, <1>2 DEF IInv, StackOnce, JobOff, UnbornIdle, PendingExact

\* A thread that took the closure of t puts t on its stack.
LEMMA RunPush ==
  ASSUME IInv, NEW th \in Threads, NEW t \in Tasks, job[t],
         job' = [job EXCEPT ![t] = FALSE],
         stack' = [stack EXCEPT ![th] = Append(@, t)],
         UNCHANGED <<slot, pending>>
  PROVE  StackOnce' /\ JobOff' /\ UnbornIdle' /\ PendingExact'
<1> DEFINE n == Len(stack[th])
<1>0. /\ n \in Nat /\ Len(stack'[th]) = n + 1
      /\ \A i \in 1..n : stack'[th][i] = stack[th][i]
      /\ stack'[th][n + 1] = t
      /\ \A x \in Threads : x # th => stack'[x] = stack[x]
      /\ \A u \in Tasks : job'[u] <=> job[u] /\ u # t
  BY Push DEF IInv, TypeOK
<1>1. Runners(t) = {}
  BY DEF IInv, JobOff
<1> HIDE DEF n
<1>2. \A x \in Threads : \A i \in 1..Len(stack[x]) : stack[x][i] # t
  BY <1>1 DEF Runners
<1>3. StackOnce'
  <2> SUFFICES ASSUME NEW x \in Threads, NEW y \in Threads,
                      NEW i \in 1..Len(stack'[x]), NEW j \in 1..Len(stack'[y]),
                      stack'[x][i] = stack'[y][j]
               PROVE  x = y /\ i = j
    BY DEF StackOnce
  <2>1. \A z \in Threads : \A k \in 1..Len(stack'[z]) :
           \/ k \in 1..Len(stack[z]) /\ stack'[z][k] = stack[z][k]
           \/ z = th /\ k = n + 1 /\ stack'[z][k] = t
    BY <1>0 DEF n
  <2>2. \/ i \in 1..Len(stack[x]) /\ stack'[x][i] = stack[x][i]
        \/ x = th /\ i = n + 1 /\ stack'[x][i] = t
    BY <2>1
  <2>3. \/ j \in 1..Len(stack[y]) /\ stack'[y][j] = stack[y][j]
        \/ y = th /\ j = n + 1 /\ stack'[y][j] = t
    BY <2>1
  <2> QED BY <1>2, <2>2, <2>3 DEF IInv, StackOnce
<1>4. \A u \in Tasks : u # t => Runners(u)' = Runners(u)
  <2> SUFFICES ASSUME NEW u \in Tasks, u # t, NEW x \in Threads
               PROVE  (\E i \in 1..Len(stack'[x]) : stack'[x][i] = u)
                        <=> (\E i \in 1..Len(stack[x]) : stack[x][i] = u)
    BY DEF Runners
  <2>1. CASE x = th
    <3>1. 1..(n + 1) = 1..n \cup {n + 1}
      BY <1>0
    <3> QED BY <1>0, <2>1, <3>1 DEF n
  <2>2. CASE x # th
    BY <1>0, <2>2
  <2> QED BY <2>1, <2>2
<1>5. Runners(t)' # {}
  <2>1. n + 1 \in 1..Len(stack'[th])
    BY <1>0
  <2> QED BY <1>0, <2>1 DEF Runners
<1>6. JobOff'
  BY <1>0, <1>4 DEF IInv, JobOff
<1>7. UnbornIdle'
  BY <1>0, <1>4 DEF IInv, UnbornIdle
<1>8. Open' = Open
  BY <1>0, <1>4, <1>5 DEF Open
<1> QED BY <1>3, <1>6, <1>7, <1>8 DEF IInv, PendingExact

\* A thread that retires the task at the top of its stack.
LEMMA RunPop ==
  ASSUME IInv, NEW th \in Threads, stack[th] # <<>>,
         stack' = [stack EXCEPT ![th] = SubSeq(@, 1, Len(@) - 1)],
         pending' = pending - 1, UNCHANGED <<job, slot>>
  PROVE  StackOnce' /\ JobOff' /\ UnbornIdle' /\ PendingExact'
<1>t. PICK t \in Tasks : t = Top(th)
  BY StackTop DEF IInv
<1> DEFINE n == Len(stack[th])
<1>0. /\ n \in Nat /\ n >= 1 /\ stack[th][n] = t
      /\ stack[th] \in Seq(Tasks)
  BY <1>t, StackTop DEF IInv, Top
<1>1. /\ Len(stack'[th]) = n - 1
      /\ \A i \in 1..(n - 1) : stack'[th][i] = stack[th][i]
      /\ \A x \in Threads : x # th => stack'[x] = stack[x]
  BY <1>0, Pop DEF IInv, TypeOK
<1> HIDE DEF n
<1>2. \A x \in Threads : \A i \in 1..Len(stack'[x]) :
        i \in 1..Len(stack[x]) /\ stack'[x][i] = stack[x][i] /\ (x = th => i < n)
  BY <1>0, <1>1 DEF n
<1>3. StackOnce'
  BY <1>2 DEF IInv, StackOnce
<1>4. \A u \in Tasks : u # t => Runners(u)' = Runners(u)
  <2> SUFFICES ASSUME NEW u \in Tasks, u # t, NEW x \in Threads
               PROVE  (\E i \in 1..Len(stack'[x]) : stack'[x][i] = u)
                        <=> (\E i \in 1..Len(stack[x]) : stack[x][i] = u)
    BY DEF Runners
  <2>1. CASE x = th
    <3>1. 1..n = 1..(n - 1) \cup {n}
      BY <1>0
    <3> QED BY <1>0, <1>1, <2>1, <3>1 DEF n
  <2>2. CASE x # th
    BY <1>1, <2>2
  <2> QED BY <2>1, <2>2
<1>5. Runners(t)' = {}
  <2> SUFFICES ASSUME NEW x \in Threads, NEW i \in 1..Len(stack'[x]), stack'[x][i] = t
               PROVE  FALSE
    BY DEF Runners
  <2>1. i \in 1..Len(stack[x]) /\ stack[x][i] = t /\ (x = th => i < n)
    BY <1>2
  <2>2. n \in 1..Len(stack[th])
    BY <1>0 DEF n
  <2> QED BY <1>0, <2>1, <2>2 DEF IInv, StackOnce
<1>6. th \in Runners(t)
  <2>1. n \in 1..Len(stack[th])
    BY <1>0 DEF n
  <2> QED BY <1>0, <2>1 DEF Runners
<1>7. ~job[t]
  BY <1>0, <1>6 DEF IInv, JobOff
<1>8. JobOff' /\ UnbornIdle'
  BY <1>4, <1>5 DEF IInv, JobOff, UnbornIdle
<1>9. PendingExact'
  <2> DEFINE A == Open
             B == Open'
  <2>1. A = B \cup {t} /\ t \notin B
    BY <1>0, <1>4, <1>5, <1>6, <1>7 DEF Open
  <2>2. IsFiniteSet(B)
    BY ThreadsFinite, FS_Subset DEF Open
  <2>3. pending = Cardinality(A)
    BY DEF IInv, PendingExact
  <2> HIDE DEF A, B
  <2>4. Cardinality(A) = Cardinality(B) + 1 /\ Cardinality(B) \in Nat
    BY <2>1, <2>2, FS_AddElement, FS_CardinalityType
  <2>5. pending' = Cardinality(B)
    BY <2>3, <2>4
  <2> QED BY <2>5 DEF B, PendingExact
<1> QED BY <1>3, <1>8, <1>9

\* A new task.
LEMMA RunCreate ==
  ASSUME IInv, NEW th \in Threads, NEW t \in Tasks, Created(th, t)
  PROVE  StackOnce' /\ JobOff' /\ UnbornIdle' /\ PendingExact'
<1>1. /\ slot[t] = "Unborn" /\ ~job[t] /\ Runners(t) = {}
      /\ UNCHANGED stack /\ pending' = pending + 1
      /\ \A u \in Tasks : (job'[u] <=> job[u] \/ u = t) /\ (slot'[u] = "Unborn" => slot[u] = "Unborn" /\ u # t)
  BY DEF Created, IInv, UnbornIdle, TypeOK
<1>2. \A u : Runners(u)' = Runners(u)
  BY <1>1 DEF Runners
<1>3. StackOnce' /\ JobOff' /\ UnbornIdle'
  BY <1>1, <1>2 DEF IInv, StackOnce, JobOff, UnbornIdle
<1>4. PendingExact'
  <2> DEFINE A == Open
             B == Open'
  <2>1. B = A \cup {t} /\ t \notin A
    BY <1>1, <1>2 DEF Open
  <2>2. IsFiniteSet(A)
    BY ThreadsFinite, FS_Subset DEF Open
  <2>3. pending = Cardinality(A)
    BY DEF IInv, PendingExact
  <2> HIDE DEF A, B
  <2>4. Cardinality(B) = Cardinality(A) + 1
    BY <2>1, <2>2, FS_AddElement
  <2>5. pending' = Cardinality(B)
    BY <1>1, <2>3, <2>4
  <2> QED BY <2>5 DEF B, PendingExact
<1> QED BY <1>3, <1>4

LEMMA RunStep ==
  ASSUME IInv, [Next]_vars
  PROVE  StackOnce' /\ JobOff' /\ UnbornIdle' /\ PendingExact'
<1>0. TypeOK /\ Control
  BY DEF IInv
<1> USE DEF poolVars, taskVars
<1>1. ASSUME NEW th \in Threads, NEW t \in Tasks, SpawnToIdle(th, t) PROVE StackOnce' /\ JobOff' /\ UnbornIdle' /\ PendingExact'
  BY <1>1, RunCreate DEF SpawnToIdle
<1>2. ASSUME NEW th \in Threads, NEW t \in Tasks, SpawnNewThread(th, t) PROVE StackOnce' /\ JobOff' /\ UnbornIdle' /\ PendingExact'
  BY <1>2, RunCreate DEF SpawnNewThread
<1>3. ASSUME NEW th \in Threads, NEW t \in Tasks, ResolveInPlace(th, t) PROVE StackOnce' /\ JobOff' /\ UnbornIdle' /\ PendingExact'
  BY <1>3, RunPush DEF ResolveInPlace
<1>4. ASSUME NEW th \in Threads, NEW t \in Tasks, ResolveElsewhere(th, t) PROVE StackOnce' /\ JobOff' /\ UnbornIdle' /\ PendingExact'
  BY <1>4, RunSame DEF ResolveElsewhere, MayResolve
<1>5. ASSUME NEW th \in Threads, NEW t \in Tasks, BodyDrop(th, t) PROVE StackOnce' /\ JobOff' /\ UnbornIdle' /\ PendingExact'
  <2>1. \A u \in Tasks : slot'[u] = "Unborn" => slot[u] = "Unborn"
    BY <1>0, <1>5 DEF BodyDrop, InBody, Dropped, TypeOK
  <2> QED BY <1>5, <2>1, RunSame DEF BodyDrop, InBody, Dropped
<1>6. ASSUME NEW th \in Threads, NEW w \in Workers, StartWorker(th, w) PROVE StackOnce' /\ JobOff' /\ UnbornIdle' /\ PendingExact'
  BY <1>6, RunSame DEF StartWorker
<1>7. ASSUME NEW th \in Threads, Sleep(th) PROVE StackOnce' /\ JobOff' /\ UnbornIdle' /\ PendingExact'
  BY <1>7, RunSame DEF Sleep
<1>8. ASSUME NEW th \in Threads, TakeSlot(th) PROVE StackOnce' /\ JobOff' /\ UnbornIdle' /\ PendingExact'
  <2>1. \A u \in Tasks : slot'[u] = "Unborn" => slot[u] = "Unborn"
    BY <1>0, <1>8 DEF TakeSlot, TypeOK
  <2> QED BY <1>8, <2>1, RunSame DEF TakeSlot
<1>9. ASSUME NEW th \in Threads, SpuriousWake(th) PROVE StackOnce' /\ JobOff' /\ UnbornIdle' /\ PendingExact'
  BY <1>9, RunSame DEF SpuriousWake
<1>10. ASSUME NEW th \in Threads, BodyRaise(th) PROVE StackOnce' /\ JobOff' /\ UnbornIdle' /\ PendingExact'
  BY <1>10, RunSame DEF BodyRaise, InBody
<1>11. ASSUME NEW th \in Threads, StoreOutcome(th) PROVE StackOnce' /\ JobOff' /\ UnbornIdle' /\ PendingExact'
  <2>1. \A u \in Tasks : slot'[u] = "Unborn" => slot[u] = "Unborn"
    BY <1>0, <1>11 DEF StoreOutcome, BodyOver, InBody, TypeOK
  <2> QED BY <1>11, <2>1, RunSame DEF StoreOutcome, BodyOver, InBody
<1>12. ASSUME NEW th \in Threads, FindAbandoned(th) PROVE StackOnce' /\ JobOff' /\ UnbornIdle' /\ PendingExact'
  BY <1>12, RunSame DEF FindAbandoned, BodyOver, InBody
<1>13. ASSUME NEW th \in Threads, ReleaseOutcome(th) PROVE StackOnce' /\ JobOff' /\ UnbornIdle' /\ PendingExact'
  BY <1>13, RunSame DEF ReleaseOutcome
<1>14. ASSUME NEW th \in Threads, MarkTaken(th) PROVE StackOnce' /\ JobOff' /\ UnbornIdle' /\ PendingExact'
  <2>1. \A u \in Tasks : slot'[u] = "Unborn" => slot[u] = "Unborn"
    BY <1>0, <1>14 DEF MarkTaken, BodyOver, InBody, TypeOK
  <2> QED BY <1>14, <2>1, RunSame DEF MarkTaken, BodyOver, InBody
<1>15. ASSUME NEW th \in Threads, RetireQueued(th) PROVE StackOnce' /\ JobOff' /\ UnbornIdle' /\ PendingExact'
  <2>1. stack[th] # <<>>
    BY <1>0, <1>15 DEF RetireQueued, Control, Sound
  <2> QED BY <1>15, <2>1, RunPop DEF RetireQueued
<1>16. ASSUME NEW th \in Threads, RetireInPlace(th) PROVE StackOnce' /\ JobOff' /\ UnbornIdle' /\ PendingExact'
  <2>1. stack[th] # <<>>
    BY <1>0, <1>16 DEF RetireInPlace, Control, Sound
  <2> QED BY <1>16, <2>1, RunPop DEF RetireInPlace
<1>17. ASSUME NEW w \in Workers, FirstPop(w) PROVE StackOnce' /\ JobOff' /\ UnbornIdle' /\ PendingExact'
  BY <1>17, RunSame DEF FirstPop
<1>18. ASSUME NEW w \in Workers, TakeJob(w) PROVE StackOnce' /\ JobOff' /\ UnbornIdle' /\ PendingExact'
  <2>1. target[w] \in Tasks /\ w \in Threads
    BY <1>0, <1>18 DEF TakeJob, Control, Sound, Threads
  <2> QED BY <1>18, <2>1, RunPush DEF TakeJob
<1>19. ASSUME NEW w \in Workers, MissJob(w) PROVE StackOnce' /\ JobOff' /\ UnbornIdle' /\ PendingExact'
  BY <1>19, RunSame DEF MissJob
<1>20. ASSUME NEW w \in Workers, GoIdle(w) PROVE StackOnce' /\ JobOff' /\ UnbornIdle' /\ PendingExact'
  BY <1>20, RunSame DEF GoIdle
<1>21. ASSUME NEW w \in Workers, WakeUp(w) PROVE StackOnce' /\ JobOff' /\ UnbornIdle' /\ PendingExact'
  BY <1>21, RunSame DEF WakeUp
<1>22. ASSUME NEW w \in Workers, TimeOut(w) PROVE StackOnce' /\ JobOff' /\ UnbornIdle' /\ PendingExact'
  BY <1>22, RunSame DEF TimeOut
<1>23. ASSUME NEW c \in Clients, NEW t \in Tasks, ClientDrop(c, t) PROVE StackOnce' /\ JobOff' /\ UnbornIdle' /\ PendingExact'
  <2>1. \A u \in Tasks : slot'[u] = "Unborn" => slot[u] = "Unborn"
    BY <1>0, <1>23 DEF ClientDrop, Dropped, TypeOK
  <2> QED BY <1>23, <2>1, RunSame DEF ClientDrop, Dropped
<1>24. ASSUME NEW c \in Clients, NEW d \in Clients, NEW t \in Tasks, Share(c, d, t) PROVE StackOnce' /\ JobOff' /\ UnbornIdle' /\ PendingExact'
  BY <1>24, RunSame DEF Share
<1>25. CASE UNCHANGED vars
  BY <1>25, RunSame DEF vars
<1> QED BY <1>1, <1>2, <1>3, <1>4, <1>5, <1>6, <1>7, <1>8, <1>9, <1>10, <1>11, <1>12, <1>13, <1>14, <1>15, <1>16, <1>17, <1>18, <1>19, <1>20, <1>21, <1>22, <1>23, <1>24, <1>25, NextCases

-----------------------------------------------------------------------------
(* Where the threads are                                                   *)

\* A thread that another one's step at most wakes up.
LEMMA SoundFrame ==
  ASSUME IInv, NEW x \in Threads,
         pc'[x] = pc[x] \/ (pc[x] = "asleep" /\ pc'[x] = "check"),
         stack'[x] = stack[x], target'[x] = target[x],
         \A i \in 1..Len(stack[x]) : todo'[stack[x][i]] = todo[stack[x][i]]
  PROVE  Sound(x)'
<1>1. Sound(x)
  BY DEF IInv, Control
<1>2. stack[x] # <<>> => Len(stack[x]) \in 1..Len(stack[x])
  BY StackTop DEF IInv
<1> QED BY <1>1, <1>2 DEF Sound, Queued, Top

\* No other place of a stack holds the task whose body advances.
LEMMA TodoFrame ==
  ASSUME IInv, NEW th \in Threads, NEW k \in 1..Len(stack[th]),
         NEW v, todo' = [todo EXCEPT ![stack[th][k]] = v]
  PROVE  \A x \in Threads : \A i \in 1..Len(stack[x]) :
           (x # th \/ i # k) => todo'[stack[x][i]] = todo[stack[x][i]]
<1> SUFFICES ASSUME NEW x \in Threads, NEW i \in 1..Len(stack[x]), x # th \/ i # k
             PROVE  todo'[stack[x][i]] = todo[stack[x][i]]
  OBVIOUS
<1>1. stack[x][i] # stack[th][k]
  BY DEF IInv, StackOnce
<1>2. stack[x][i] \in Tasks /\ todo \in [Tasks -> Seq(Tasks)]
  <2>1. stack[x] \in Seq(Tasks)
    BY DEF IInv, TypeOK
  <2> QED BY <2>1, ElementOfSeq DEF IInv, TypeOK
<1> QED BY <1>1, <1>2

LEMMA ControlStep ==
  ASSUME IInv, [Next]_vars
  PROVE  Control'
<1>0. TypeOK /\ Control
  BY DEF IInv
<1> USE DEF poolVars, taskVars
<1>1. ASSUME NEW th \in Threads, NEW t \in Tasks, SpawnToIdle(th, t) PROVE Control'
  BY <1>0, <1>1, SoundFrame DEF SpawnToIdle, Created, Control
<1>2. ASSUME NEW th \in Threads, NEW t \in Tasks, SpawnNewThread(th, t) PROVE Control'
  <2>1. ASSUME NEW x \in Threads, x # th PROVE Sound(x)'
    BY <1>0, <1>2, <2>1, SoundFrame DEF SpawnNewThread, Created, TypeOK
  <2>2. Sound(th)'
    BY <1>0, <1>2 DEF SpawnNewThread, Created, TypeOK, PCs, Control, Sound, Top, Queued, Threads
  <2> QED BY <2>1, <2>2 DEF Control
<1>3. ASSUME NEW th \in Threads, NEW t \in Tasks, ResolveInPlace(th, t) PROVE Control'
  <2>1. ASSUME NEW x \in Threads, x # th PROVE Sound(x)'
    BY <1>0, <1>3, <2>1, SoundFrame DEF ResolveInPlace, MayResolve, TypeOK
  <2>2. Sound(th)'
    <3> DEFINE n == Len(stack[th])
    <3>1. /\ n \in Nat /\ Len(stack'[th]) = n + 1 /\ stack'[th] # <<>>
          /\ \A i \in 1..n : stack'[th][i] = stack[th][i]
          /\ pc'[th] = "code" /\ pc[th] = "code" /\ todo' = todo
      BY <1>0, <1>3, Push DEF ResolveInPlace, MayResolve, TypeOK
    <3>2. stack[th] # <<>> => n \in 1..n /\ todo[stack[th][n]] # <<>>
      BY <1>0, <1>3, StackTop DEF ResolveInPlace, MayResolve, Agent, Top
    <3>3. n = 0 <=> stack[th] = <<>>
      BY <1>0, EmptySeq DEF TypeOK
    <3>4. \A i \in 1..n : i < n => todo[stack[th][i]] # <<>>
      BY <1>0 DEF Control, Sound
    <3> HIDE DEF n
    <3>5. \A i \in 1..(n + 1) : i < n + 1 => todo'[stack'[th][i]] # <<>>
      BY <3>1, <3>2, <3>3, <3>4
    <3> QED BY <3>1, <3>5 DEF Sound
  <2> QED BY <2>1, <2>2 DEF Control
<1>4. ASSUME NEW th \in Threads, NEW t \in Tasks, ResolveElsewhere(th, t) PROVE Control'
  <2>1. ASSUME NEW x \in Threads, x # th PROVE Sound(x)'
    BY <1>0, <1>4, <2>1, SoundFrame DEF ResolveElsewhere, MayResolve, TypeOK
  <2>2. Sound(th)'
    BY <1>0, <1>4, StackTop DEF ResolveElsewhere, MayResolve, Agent, TypeOK, Control, Sound, Top, Queued, Threads
  <2> QED BY <2>1, <2>2 DEF Control
<1>5. ASSUME NEW th \in Threads, NEW t \in Tasks, BodyDrop(th, t) PROVE Control'
  BY <1>0, <1>5, SoundFrame DEF BodyDrop, InBody, Dropped, Control
<1>6. ASSUME NEW th \in Threads, NEW w \in Workers, StartWorker(th, w) PROVE Control'
  <2>1. ASSUME NEW x \in Threads, x # th, x # w PROVE Sound(x)'
    BY <1>0, <1>6, <2>1, SoundFrame DEF StartWorker, TypeOK
  <2>2. Sound(th)' /\ Sound(w)'
    BY <1>0, <1>6 DEF StartWorker, TypeOK, Control, Sound, Threads
  <2> QED BY <2>1, <2>2 DEF Control
<1>7. ASSUME NEW th \in Threads, Sleep(th) PROVE Control'
  <2>1. ASSUME NEW x \in Threads, x # th PROVE Sound(x)'
    BY <1>0, <1>7, <2>1, SoundFrame DEF Sleep, TypeOK
  <2>2. Sound(th)'
    BY <1>0, <1>7 DEF Sleep, TypeOK, PCs, Control, Sound, Top, Queued, Threads
  <2> QED BY <2>1, <2>2 DEF Control
<1>8. ASSUME NEW th \in Threads, TakeSlot(th) PROVE Control'
  <2>0. \A x \in Threads : \A i \in 1..Len(stack[x]) :
          (x # th \/ i < Len(stack[th])) => todo'[stack[x][i]] = todo[stack[x][i]]
    <3>1. CASE stack[th] = <<>>
      BY <1>8, <3>1, ThreadsAssumption, <1>0 DEF TakeSlot, Advanced, Agent, Control, Sound, Threads
    <3>2. CASE stack[th] # <<>>
      <4>1. Len(stack[th]) \in 1..Len(stack[th]) /\ Top(th) \in Tasks
        BY <1>0, <3>2, StackTop
      <4>2. PICK k \in 1..Len(stack[th]) : k = Len(stack[th])
        BY <4>1
      <4>3. todo' = [todo EXCEPT ![stack[th][k]] = Tail(todo[Top(th)])]
        BY <1>8, <3>2, <4>1, <4>2 DEF TakeSlot, Advanced, Agent, Top
      <4>4. \A x \in Threads : \A i \in 1..Len(stack[x]) :
              (x # th \/ i # k) => todo'[stack[x][i]] = todo[stack[x][i]]
        BY <4>3, TodoFrame
      <4> QED BY <4>2, <4>4
    <3> QED BY <3>1, <3>2
  <2>1. ASSUME NEW x \in Threads, x # th PROVE Sound(x)'
    BY <1>0, <1>8, <2>0, <2>1, SoundFrame DEF TakeSlot, TypeOK
  <2>2. Sound(th)'
    <3>1. pc[th] = "check" /\ pc'[th] = "code" /\ stack'[th] = stack[th]
      BY <1>0, <1>8 DEF TakeSlot, TypeOK
    <3>2. \A i \in 1..Len(stack[th]) : i < Len(stack[th]) => todo'[stack[th][i]] # <<>>
      BY <1>0, <2>0 DEF Control, Sound
    <3> QED BY <1>0, <3>1, <3>2 DEF Control, Sound
  <2> QED BY <2>1, <2>2 DEF Control
<1>9. ASSUME NEW th \in Threads, SpuriousWake(th) PROVE Control'
  <2>1. ASSUME NEW x \in Threads, x # th PROVE Sound(x)'
    BY <1>0, <1>9, <2>1, SoundFrame DEF SpuriousWake, TypeOK
  <2>2. Sound(th)'
    BY <1>0, <1>9 DEF SpuriousWake, TypeOK, PCs, Control, Sound, Top, Queued, Threads
  <2> QED BY <2>1, <2>2 DEF Control
<1>10. ASSUME NEW th \in Threads, BodyRaise(th) PROVE Control'
  <2>0. \A x \in Threads : \A i \in 1..Len(stack[x]) :
          (x # th \/ i < Len(stack[th])) => todo'[stack[x][i]] = todo[stack[x][i]]
    <3>1. Len(stack[th]) \in 1..Len(stack[th])
      BY <1>0, <1>10, StackTop DEF BodyRaise, InBody
    <3>2. PICK k \in 1..Len(stack[th]) : k = Len(stack[th])
      BY <3>1
    <3>3. todo' = [todo EXCEPT ![stack[th][k]] = <<>>]
      BY <1>10, <3>2 DEF BodyRaise, Top
    <3>4. \A x \in Threads : \A i \in 1..Len(stack[x]) :
            (x # th \/ i # k) => todo'[stack[x][i]] = todo[stack[x][i]]
      BY <3>3, TodoFrame
    <3> QED BY <3>2, <3>4
  <2>1. ASSUME NEW x \in Threads, x # th PROVE Sound(x)'
    BY <1>0, <1>10, <2>0, <2>1, SoundFrame DEF BodyRaise, TypeOK
  <2>2. Sound(th)'
    <3>1. pc'[th] = "code" /\ stack'[th] = stack[th] /\ stack[th] # <<>>
      BY <1>0, <1>10 DEF BodyRaise, InBody, TypeOK
    <3>2. \A i \in 1..Len(stack[th]) : i < Len(stack[th]) => todo'[stack[th][i]] # <<>>
      BY <1>0, <2>0 DEF Control, Sound
    <3> QED BY <1>0, <3>1, <3>2 DEF Control, Sound
  <2> QED BY <2>1, <2>2 DEF Control
<1>11. ASSUME NEW th \in Threads, StoreOutcome(th) PROVE Control'
  <2>1. ASSUME NEW x \in Threads, x # th PROVE Sound(x)'
    <3>1. pc'[x] = Woken(Top(th))[x]
      BY <1>0, <1>11, <2>1, WokenType DEF StoreOutcome
    <3> QED BY <1>0, <1>11, <3>1, WokenType, SoundFrame DEF StoreOutcome
  <2>2. Sound(th)'
    <3>1. pc'[th] = "retire" /\ stack'[th] = stack[th] /\ stack[th] # <<>> /\ todo' = todo
      BY <1>0, <1>11, WokenType DEF StoreOutcome, BodyOver, InBody
    <3> QED BY <1>0, <3>1 DEF Control, Sound
  <2> QED BY <2>1, <2>2 DEF Control
<1>12. ASSUME NEW th \in Threads, FindAbandoned(th) PROVE Control'
  <2>1. ASSUME NEW x \in Threads, x # th PROVE Sound(x)'
    BY <1>0, <1>12, <2>1, SoundFrame DEF FindAbandoned, BodyOver, InBody, TypeOK
  <2>2. Sound(th)'
    BY <1>0, <1>12 DEF FindAbandoned, BodyOver, InBody, TypeOK, PCs, Control, Sound, Top, Queued, Threads
  <2> QED BY <2>1, <2>2 DEF Control
<1>13. ASSUME NEW th \in Threads, ReleaseOutcome(th) PROVE Control'
  <2>1. ASSUME NEW x \in Threads, x # th PROVE Sound(x)'
    BY <1>0, <1>13, <2>1, SoundFrame DEF ReleaseOutcome, TypeOK
  <2>2. Sound(th)'
    BY <1>0, <1>13 DEF ReleaseOutcome, TypeOK, PCs, Control, Sound, Top, Queued, Threads
  <2> QED BY <2>1, <2>2 DEF Control
<1>14. ASSUME NEW th \in Threads, MarkTaken(th) PROVE Control'
  <2>1. ASSUME NEW x \in Threads, x # th PROVE Sound(x)'
    BY <1>0, <1>14, <2>1, SoundFrame DEF MarkTaken, BodyOver, InBody, TypeOK
  <2>2. Sound(th)'
    BY <1>0, <1>14 DEF MarkTaken, BodyOver, InBody, TypeOK, PCs, Control, Sound, Top, Queued, Threads
  <2> QED BY <2>1, <2>2 DEF Control
<1>15. ASSUME NEW th \in Threads, RetireQueued(th) PROVE Control'
  <2>1. ASSUME NEW x \in Threads, x # th PROVE Sound(x)'
    BY <1>0, <1>15, <2>1, SoundFrame DEF RetireQueued, TypeOK
  <2>2. Sound(th)'
    <3>1. stack[th] \in Seq(Tasks) /\ stack[th] # <<>> /\ Len(stack[th]) = 1
      BY <1>0, <1>15 DEF RetireQueued, TypeOK, Control, Sound, Queued
    <3>2. Len(stack'[th]) = 0 /\ stack'[th] \in Seq(Tasks)
      BY <1>0, <1>15, <3>1, Pop DEF RetireQueued, TypeOK
    <3>3. stack'[th] = <<>> /\ pc'[th] = "resting" /\ th \in Workers
      BY <1>0, <1>15, <3>2, EmptySeq DEF RetireQueued, Queued, TypeOK
    <3> QED BY <3>3 DEF Sound
  <2> QED BY <2>1, <2>2 DEF Control
<1>16. ASSUME NEW th \in Threads, RetireInPlace(th) PROVE Control'
  <2> DEFINE n == Len(stack[th])
  <2>0. /\ n \in Nat /\ n >= 1 /\ stack[th] \in Seq(Tasks) /\ stack[th] # <<>>
        /\ Len(stack'[th]) = n - 1 /\ stack'[th] \in Seq(Tasks)
        /\ \A i \in 1..(n - 1) : stack'[th][i] = stack[th][i]
        /\ pc'[th] = "code"
    <3>1. stack[th] \in Seq(Tasks) /\ stack[th] # <<>>
      BY <1>0, <1>16 DEF RetireInPlace, TypeOK, Control, Sound
    <3>2. /\ Len(stack'[th]) = n - 1 /\ stack'[th] \in Seq(Tasks)
          /\ \A i \in 1..(n - 1) : stack'[th][i] = stack[th][i]
          /\ pc'[th] = "code"
      BY <1>0, <1>16, <3>1, Pop DEF RetireInPlace, TypeOK
    <3> QED BY <1>0, <3>1, <3>2, StackTop
  <2>a. \A x \in Threads : \A i \in 1..Len(stack[x]) :
          (x # th \/ i < n - 1) => todo'[stack[x][i]] = todo[stack[x][i]]
    <3>1. CASE n = 1
      BY <1>16, <3>1 DEF RetireInPlace
    <3>2. CASE n # 1
      <4>1. n - 1 \in 1..Len(stack[th])
        <5> HIDE DEF n
        <5>1. n - 1 \in 1..n
          BY <2>0, <3>2
        <5> QED BY <5>1 DEF n
      <4>2. stack[th][n - 1] \in Tasks
        BY <2>0, <4>1, ElementOfSeq
      <4>3. todo' = [todo EXCEPT ![stack[th][n - 1]] = Tail(@)]
        BY <1>16, <3>2, <4>2 DEF RetireInPlace, Advanced
      <4>4. PICK v : todo' = [todo EXCEPT ![stack[th][n - 1]] = v]
        BY <4>3
      <4>5. \A x \in Threads : \A i \in 1..Len(stack[x]) :
              (x # th \/ i # n - 1) => todo'[stack[x][i]] = todo[stack[x][i]]
        <5> DEFINE m == n - 1
        <5>1. m \in 1..Len(stack[th]) /\ todo' = [todo EXCEPT ![stack[th][m]] = v]
          BY <4>1, <4>4
        <5> HIDE DEF m
        <5>2. \A x \in Threads : \A i \in 1..Len(stack[x]) :
              (x # th \/ i # m) => todo'[stack[x][i]] = todo[stack[x][i]]
          BY <5>1, TodoFrame
        <5> QED BY <5>2 DEF m
      <4> HIDE DEF n
      <4> QED BY <2>0, <4>5
    <3> QED BY <3>1, <3>2
  <2>1. ASSUME NEW x \in Threads, x # th PROVE Sound(x)'
    <3>1. pc'[x] = pc[x] /\ stack'[x] = stack[x] /\ target'[x] = target[x]
      BY <1>0, <1>16, <2>1 DEF RetireInPlace, TypeOK
    <3> QED BY <2>1, <2>a, <3>1, SoundFrame
  <2>2. Sound(th)'
    <3>1. \A i \in 1..n : i < n => todo[stack[th][i]] # <<>>
      BY <1>0 DEF Control, Sound
    <3>2. th \in Workers => n # 1
      BY <1>16 DEF RetireInPlace, Queued
    <3>3. \A i \in 1..n : i < n - 1 => todo'[stack[th][i]] = todo[stack[th][i]]
      BY <2>a
    <3>4. Len(stack'[th]) # 0 => stack'[th] # <<>>
      BY <2>0, EmptySeq
    <3> HIDE DEF n
    <3>5. th \in Workers => stack'[th] # <<>>
      BY <2>0, <3>2, <3>4
    <3>6. \A i \in 1..(n - 1) : i < n - 1 => todo'[stack'[th][i]] # <<>>
      BY <2>0, <3>1, <3>3
    <3> QED BY <2>0, <3>5, <3>6 DEF Sound
  <2> HIDE DEF n
  <2> QED BY <2>1, <2>2 DEF Control
<1>17. ASSUME NEW w \in Workers, FirstPop(w) PROVE Control'
  <2>1. ASSUME NEW x \in Threads, x # w PROVE Sound(x)'
    BY <1>0, <1>17, <2>1, SoundFrame DEF FirstPop, TypeOK
  <2>2. Sound(w)'
    <3>1. w \in Threads /\ pc[w] \in {"starting", "waiting"} /\ stack[w] = <<>> /\ stack' = stack
      BY <1>0, <1>17 DEF FirstPop, Control, Sound, Threads
    <3>2. pc'[w] = "none" \/ (pc'[w] = "taking" /\ target'[w] \in Tasks)
      <4>1. CASE queue = <<>>
        BY <1>0, <1>17, <3>1, <4>1 DEF FirstPop, TypeOK
      <4>2. CASE queue # <<>>
        <5>1. Head(queue) \in Tasks
          BY <1>0, <4>2, HeadTailProperties DEF TypeOK
        <5> QED BY <1>0, <1>17, <3>1, <4>2, <5>1 DEF FirstPop, TypeOK
      <4> QED BY <4>1, <4>2
    <3> QED BY <3>1, <3>2 DEF Sound
  <2> QED BY <2>1, <2>2 DEF Control
<1>18. ASSUME NEW w \in Workers, TakeJob(w) PROVE Control'
  <2>1. ASSUME NEW x \in Threads, x # w PROVE Sound(x)'
    BY <1>0, <1>18, <2>1, SoundFrame DEF TakeJob, TypeOK
  <2>2. Sound(w)'
    <3>1. /\ w \in Threads /\ target[w] \in Tasks /\ stack[w] = <<>>
          /\ stack'[w] = Append(stack[w], target[w]) /\ pc'[w] = "code"
      BY <1>0, <1>18 DEF TakeJob, TypeOK, Control, Sound, Threads
    <3>2. stack'[w] # <<>> /\ Len(stack'[w]) = 1
      BY <3>1
    <3> QED BY <3>1, <3>2 DEF Sound
  <2> QED BY <2>1, <2>2 DEF Control
<1>19. ASSUME NEW w \in Workers, MissJob(w) PROVE Control'
  <2>1. ASSUME NEW x \in Threads, x # w PROVE Sound(x)'
    BY <1>0, <1>19, <2>1, SoundFrame DEF MissJob, TypeOK
  <2>2. Sound(w)'
    BY <1>0, <1>19 DEF MissJob, TypeOK, Control, Sound, Threads
  <2> QED BY <2>1, <2>2 DEF Control
<1>20. ASSUME NEW w \in Workers, GoIdle(w) PROVE Control'
  <2>1. ASSUME NEW x \in Threads, x # w PROVE Sound(x)'
    BY <1>0, <1>20, <2>1, SoundFrame DEF GoIdle, TypeOK
  <2>2. Sound(w)'
    BY <1>0, <1>20 DEF GoIdle, TypeOK, Control, Sound, Threads
  <2> QED BY <2>1, <2>2 DEF Control
<1>21. ASSUME NEW w \in Workers, WakeUp(w) PROVE Control'
  <2>1. ASSUME NEW x \in Threads, x # w PROVE Sound(x)'
    BY <1>0, <1>21, <2>1, SoundFrame DEF WakeUp, TypeOK
  <2>2. Sound(w)'
    <3>1. w \in Threads /\ pc[w] \in {"starting", "waiting"} /\ stack[w] = <<>> /\ stack' = stack
      BY <1>0, <1>21 DEF WakeUp, Control, Sound, Threads
    <3>2. pc'[w] = "none" \/ (pc'[w] = "taking" /\ target'[w] \in Tasks)
      <4>1. CASE queue = <<>>
        BY <1>0, <1>21, <3>1, <4>1 DEF WakeUp, TypeOK
      <4>2. CASE queue # <<>>
        <5>1. Head(queue) \in Tasks
          BY <1>0, <4>2, HeadTailProperties DEF TypeOK
        <5> QED BY <1>0, <1>21, <3>1, <4>2, <5>1 DEF WakeUp, TypeOK
      <4> QED BY <4>1, <4>2
    <3> QED BY <3>1, <3>2 DEF Sound
  <2> QED BY <2>1, <2>2 DEF Control
<1>22. ASSUME NEW w \in Workers, TimeOut(w) PROVE Control'
  <2>1. ASSUME NEW x \in Threads, x # w PROVE Sound(x)'
    BY <1>0, <1>22, <2>1, SoundFrame DEF TimeOut, TypeOK
  <2>2. Sound(w)'
    BY <1>0, <1>22 DEF TimeOut, TypeOK, Control, Sound, Threads
  <2> QED BY <2>1, <2>2 DEF Control
<1>23. ASSUME NEW c \in Clients, NEW t \in Tasks, ClientDrop(c, t) PROVE Control'
  BY <1>0, <1>23, SoundFrame DEF ClientDrop, Dropped, Control
<1>24. ASSUME NEW c \in Clients, NEW d \in Clients, NEW t \in Tasks, Share(c, d, t) PROVE Control'
  BY <1>0, <1>24, SoundFrame DEF Share, Control
<1>25. CASE UNCHANGED vars
  BY <1>25, SoundFrame DEF vars, Control
<1> QED BY <1>1, <1>2, <1>3, <1>4, <1>5, <1>6, <1>7, <1>8, <1>9, <1>10, <1>11, <1>12, <1>13, <1>14, <1>15, <1>16, <1>17, <1>18, <1>19, <1>20, <1>21, <1>22, <1>23, <1>24, <1>25, NextCases

-----------------------------------------------------------------------------
(* Results                                                                 *)

LEMMA InitIInv ==
  ASSUME Init
  PROVE  IInv
<1>1. TypeOK
  BY TasksAssumption DEF Init, TypeOK, PCs
<1>2. /\ \A th \in Threads : stack[th] = <<>> /\ pc[th] \in {"code", "none"}
      /\ \A th \in Threads : pc[th] = "none" => th \in Workers
      /\ \A th \in Workers : pc[th] = "none"
      /\ \A t \in Tasks : ~job[t]
      /\ Len(queue) = 0 /\ idle = 0 /\ wakeups = 0 /\ pending = 0
  BY ThreadsAssumption DEF Init, Threads
<1>3. /\ Cardinality(At("starting")) = 0 /\ Cardinality(At("spawning")) = 0
      /\ Cardinality(At("waiting")) = 0
  <2>1. At("starting") = {} /\ At("spawning") = {} /\ At("waiting") = {}
    BY <1>2 DEF At
  <2> QED BY <2>1, FS_EmptySet
<1>4. QueueCovered /\ IdleExact
  BY <1>2, <1>3 DEF QueueCovered, IdleExact
<1>5. Control
  BY <1>2 DEF Control, Sound
<1>6. \A t : Runners(t) = {}
  BY <1>2 DEF Runners
<1>7. StackOnce /\ JobOff /\ UnbornIdle
  BY <1>2, <1>6 DEF StackOnce, JobOff, UnbornIdle
<1>8. Open = {}
  BY <1>2, <1>6 DEF Open
<1>9. PendingExact
  BY <1>2, <1>8, FS_EmptySet DEF PendingExact
<1> QED BY <1>1, <1>4, <1>5, <1>7, <1>9 DEF IInv

THEOREM Invariance == Spec => []IInv
<1>1. IInv /\ [Next]_vars => IInv'
  BY TypeStep, CountStep, RunStep, ControlStep DEF IInv
<1> QED BY InitIInv, <1>1, PTL DEF Spec

\* Every variable keeps its type; in particular no usize of the pool (`idle`,
\* `wakeups`, PENDING) is ever decremented below zero.
THEOREM TypeCorrect == Spec => []TypeOK
<1>1. IInv => TypeOK
  BY DEF IInv
<1> QED BY <1>1, Invariance, PTL

\* Every queued task is promised to exactly one thread of the pool, and every
\* promised wake-up to a thread that is waiting: no pop_front of `worker`
\* comes back empty, and no task stays in the queue with nobody coming.
THEOREM PoolCounters == Spec => []PoolExact
<1>1. IInv => PoolExact
  BY DEF IInv, PoolExact
<1> QED BY <1>1, Invariance, PTL

\* However resolves race with the pool, one thread at most runs the body of a
\* task, and none while its closure can still be taken.
THEOREM BodyRunsOnce == Spec => []RunOnce
<1>1. IInv => RunOnce
  <2> SUFFICES ASSUME IInv, NEW t \in Tasks PROVE Cardinality(Runners(t)) <= 1
    BY DEF IInv, JobOff, RunOnce
  <2>1. CASE Runners(t) = {}
    BY <2>1, FS_EmptySet
  <2>2. CASE Runners(t) # {}
    <3>1. PICK th : th \in Runners(t)
      BY <2>2
    <3>2. \A other \in Runners(t) : other = th
      BY <3>1 DEF Runners, IInv, StackOnce
    <3>3. Runners(t) = {th}
      BY <3>1, <3>2
    <3> QED BY <3>3, FS_Singleton
  <2> QED BY <2>1, <2>2
<1> QED BY <1>1, Invariance, PTL

-----------------------------------------------------------------------------
(* What the task pool makes of each task: it forgets none, its outcome goes  *)
(* to one resolve or is released, and so the pool implements AsyncTask.      *)

-----------------------------------------------------------------------------
(* The inductive invariant, beyond IInv                                    *)

\* The agent whose resolve put a task at place i of the stack of th; the task
\* that a thread of the pool has popped itself is at place 1, of nobody.
Caller(th, i) == IF i = 1 THEN th ELSE stack[th][i - 1]
InPlace(th, i) == ~(th \in Workers /\ i = 1)

Waits(th) == pc[th] \in {"check", "asleep"}

\* An agent keeps its reference to a handle as long as it resolves it.
CallersHold ==
  \A th \in Threads :
    /\ Waits(th) => Agent(th) \in holders[target[th]]
    /\ \A i \in 1..Len(stack[th]) :
         InPlace(th, i) => Caller(th, i) \in holders[stack[th][i]]

\* A slot says "Abandoned" as soon as the handle is gone, and only then.
SlotsKnowHandles ==
  \A t \in Tasks : /\ slot[t] = "Unborn" => holders[t] = {}
                   /\ slot[t] # "Unborn" => (slot[t] = "Abandoned" <=> holders[t] = {})

\* No outcome yet; an outcome that is at one place; the end of a task that
\* the thread th ran.
Awaited(t) == slot[t] \in {"Running", "Abandoned"} /\ handed[t] = 0
Settled(t) == /\ slot[t] \in {"Done", "Taken", "Abandoned"}
              /\ handed[t] = IF slot[t] = "Done" THEN 0 ELSE 1
Closing(th, t) ==
  IF pc[th] = "discard" THEN slot[t] = "Abandoned" /\ handed[t] = 0
  ELSE IF Queued(th) THEN Settled(t)
  ELSE slot[t] = "Taken" /\ handed[t] = 0

Outcome(t) ==
  /\ slot[t] = "Unborn" => handed[t] = 0
  /\ job[t] => Awaited(t)
  /\ \A th \in Runners(t) : IF Ended(th, t) THEN Closing(th, t) ELSE Awaited(t)
  /\ slot[t] # "Unborn" /\ ~job[t] /\ Runners(t) = {} => Settled(t)

OutcomeExact == \A t \in Tasks : Outcome(t)

OInv == CallersHold /\ SlotsKnowHandles /\ OutcomeExact

Inv == IInv /\ OInv

-----------------------------------------------------------------------------
(* Frames                                                                  *)

Ending == {"retire", "discard"}

\* A step does not change what th has to do with the task u.
Same(th, u) ==
  /\ th \in Runners(u)' <=> th \in Runners(u)
  /\ th \in Runners(u) =>
       /\ Ended(th, u)' <=> Ended(th, u)
       /\ Ended(th, u) => pc'[th] = pc[th] /\ (Queued(th)' <=> Queued(th))

LEMMA SameStack ==
  ASSUME NEW x \in Threads, NEW u, stack'[x] = stack[x],
         pc'[x] = pc[x] \/ (pc[x] \notin Ending /\ pc'[x] \notin Ending)
  PROVE  Same(x, u)
BY DEF Same, Runners, Ended, Queued, Top, Ending

\* The end of the task on top is nothing to the tasks below it.
LEMMA SameBelow ==
  ASSUME NEW x \in Threads, NEW u, stack'[x] = stack[x], Top(x) # u
  PROVE  Same(x, u)
BY DEF Same, Runners, Ended, Top

LEMMA SamePushed ==
  ASSUME TypeOK, NEW th \in Threads, NEW t \in Tasks, NEW u \in Tasks, u # t,
         stack' = [stack EXCEPT ![th] = Append(@, t)],
         pc[th] \notin Ending, pc'[th] \notin Ending
  PROVE  Same(th, u)
<1> DEFINE n == Len(stack[th])
<1>1. /\ n \in Nat /\ Len(stack'[th]) = n + 1
      /\ \A i \in 1..n : stack'[th][i] = stack[th][i]
      /\ stack'[th][n + 1] = t
  BY Push DEF TypeOK
<1>2. th \in Runners(u)' <=> th \in Runners(u)
  <2>1. 1..(n + 1) = 1..n \cup {n + 1}
    BY <1>1
  <2>2. (\E i \in 1..(n + 1) : stack'[th][i] = u) <=> (\E i \in 1..n : stack[th][i] = u)
    BY <1>1, <2>1
  <2> QED BY <1>1, <2>2 DEF Runners
<1>3. ~Ended(th, u) /\ ~Ended(th, u)'
  BY DEF Ended, Ending
<1> QED BY <1>2, <1>3 DEF Same

LEMMA SamePopped ==
  ASSUME TypeOK, NEW th \in Threads, stack[th] # <<>>, NEW u, u # Top(th),
         stack' = [stack EXCEPT ![th] = SubSeq(@, 1, Len(@) - 1)],
         pc'[th] \notin Ending
  PROVE  Same(th, u)
<1> DEFINE n == Len(stack[th])
<1>1. /\ n \in Nat /\ n >= 1 /\ stack[th][n] # u
      /\ Len(stack'[th]) = n - 1
      /\ \A i \in 1..(n - 1) : stack'[th][i] = stack[th][i]
  BY StackTop, Pop DEF TypeOK, Top
<1>2. th \in Runners(u)' <=> th \in Runners(u)
  <2>1. 1..n = 1..(n - 1) \cup {n}
    BY <1>1
  <2>2. (\E i \in 1..(n - 1) : stack'[th][i] = u) <=> (\E i \in 1..n : stack[th][i] = u)
    BY <1>1, <2>1
  <2> QED BY <1>1, <2>2 DEF Runners
<1>3. ~Ended(th, u) /\ ~Ended(th, u)'
  BY DEF Ended, Ending
<1> QED BY <1>2, <1>3 DEF Same

\* What does not touch a task leaves its outcome and its phase alone.
LEMMA TaskFrame ==
  ASSUME NEW u \in Tasks, \A x \in Threads : Same(x, u),
         job'[u] = job[u], slot'[u] = slot[u], handed'[u] = handed[u],
         Outcome(u)
  PROVE  Outcome(u)' /\ Phase(u)' = Phase(u)
<1>1. Runners(u)' = Runners(u)
  BY DEF Same, Runners
<1>2. \A x \in Runners(u) : Ended(x, u)' <=> Ended(x, u)
  BY DEF Same, Runners
<1>3. \A x \in Runners(u) : Ended(x, u) => (Closing(x, u)' <=> Closing(x, u))
  BY DEF Same, Runners, Closing, Settled
<1>4. Outcome(u)'
  BY <1>1, <1>2, <1>3 DEF Outcome, Awaited, Settled
<1>5. Phase(u)' = Phase(u)
  BY <1>1, <1>2 DEF Phase
<1> QED BY <1>4, <1>5

\* Who resolves what only depends on the places of the stacks and on the
\* threads that wait.
LEMMA ResolvingFrame ==
  ASSUME NEW x \in Threads, NEW u, stack'[x] = stack[x],
         Waits(x)' <=> Waits(x), Waits(x) => target'[x] = target[x]
  PROVE  Resolving(x, u)' <=> Resolving(x, u)
BY DEF Resolving, Waits

\* A task runs on one thread, at one place.
LEMMA OneRunner ==
  ASSUME Inv, NEW th \in Threads, NEW i \in 1..Len(stack[th])
  PROVE  /\ stack[th][i] \in Tasks
         /\ Runners(stack[th][i]) = {th}
         /\ ~job[stack[th][i]]
         /\ slot[stack[th][i]] # "Unborn"
         /\ \A j \in 1..Len(stack[th]) : stack[th][j] = stack[th][i] => j = i
<1>1. stack[th][i] \in Tasks
  BY ElementOfSeq DEF Inv, IInv, TypeOK
<1>2. th \in Runners(stack[th][i])
  BY DEF Runners
<1>3. \A x \in Runners(stack[th][i]) : x = th
  BY DEF Runners, Inv, IInv, StackOnce
<1> QED BY <1>1, <1>2, <1>3 DEF Inv, IInv, JobOff, UnbornIdle, StackOnce

LEMMA TopRunner ==
  ASSUME Inv, NEW th \in Threads, stack[th] # <<>>
  PROVE  /\ Top(th) \in Tasks
         /\ Runners(Top(th)) = {th}
         /\ ~job[Top(th)]
         /\ slot[Top(th)] # "Unborn"
         /\ Outcome(Top(th))
<1>1. Len(stack[th]) \in 1..Len(stack[th])
  BY StackTop DEF Inv, IInv
<1> QED BY <1>1, OneRunner DEF Top, Inv, OInv, OutcomeExact

\* Whoever resolves a task has an agent that holds the handle.
LEMMA ResolverHolds ==
  ASSUME Inv, NEW x \in Threads, NEW u \in Tasks, Resolving(x, u)
  PROVE  /\ holders[u] # {} /\ slot[u] \notin {"Unborn", "Abandoned"}
         /\ \/ Waits(x) /\ target[x] = u /\ Agent(x) \in holders[u]
            \/ \E i \in 1..Len(stack[x]) :
                 stack[x][i] = u /\ InPlace(x, i) /\ Caller(x, i) \in holders[u]
<1>1. \/ Waits(x) /\ target[x] = u /\ Agent(x) \in holders[u]
      \/ \E i \in 1..Len(stack[x]) :
           stack[x][i] = u /\ InPlace(x, i) /\ Caller(x, i) \in holders[u]
  BY DEF Resolving, Waits, InPlace, Inv, OInv, CallersHold
<1> QED BY <1>1 DEF Inv, OInv, SlotsKnowHandles

-----------------------------------------------------------------------------
(* The agents that hold handles                                            *)

\* A step after which no agent that resolves has lost its reference.
LEMMA CallersFrame ==
  ASSUME Inv, stack' = stack,
         \A x \in Threads : Waits(x)' => Waits(x) /\ target'[x] = target[x],
         \A u \in Tasks : holders[u] \subseteq holders'[u]
  PROVE  CallersHold'
<1> SUFFICES ASSUME NEW x \in Threads
             PROVE  /\ Waits(x)' => (Agent(x) \in holders[target[x]])'
                    /\ \A i \in 1..Len(stack'[x]) :
                         InPlace(x, i)' => (Caller(x, i) \in holders[stack[x][i]])'
  BY DEF CallersHold
<1>1. Waits(x)' => (Agent(x) \in holders[target[x]])'
  <2> SUFFICES ASSUME Waits(x)' PROVE (Agent(x) \in holders[target[x]])'
    OBVIOUS
  <2>1. Waits(x) /\ target'[x] = target[x] /\ Agent(x)' = Agent(x)
    BY DEF Agent, Top
  <2>2. target[x] \in Tasks /\ Agent(x) \in holders[target[x]]
    BY <2>1 DEF Inv, IInv, Control, Sound, Waits, OInv, CallersHold
  <2> QED BY <2>1, <2>2
<1>2. ASSUME NEW i \in 1..Len(stack'[x]), InPlace(x, i)'
      PROVE  (Caller(x, i) \in holders[stack[x][i]])'
  <2>1. stack[x][i] \in Tasks
    BY OneRunner
  <2>2. Caller(x, i) \in holders[stack[x][i]]
    BY <1>2 DEF InPlace, Inv, OInv, CallersHold
  <2> QED BY <2>1, <2>2 DEF Caller
<1> QED BY <1>1, <1>2

\* An agent that lets go of a handle is not one that resolves something.
LEMMA DropperIdle ==
  ASSUME Inv, NEW a,
         \/ a \in Clients /\ pc[a] = "code" /\ stack[a] = <<>>
         \/ \E th \in Threads : InBody(th) /\ a = Top(th)
  PROVE  /\ \A x \in Threads : Waits(x) => Agent(x) # a
         /\ \A x \in Threads : \A i \in 1..Len(stack[x]) : InPlace(x, i) => Caller(x, i) # a
<1>1. \A x \in Threads : x \notin Workers => x \in Clients /\ x \notin Tasks
  BY ThreadsAssumption DEF Threads
<1>2. \A x \in Threads : Waits(x) /\ stack[x] = <<>> => x \notin Workers
  BY DEF Inv, IInv, Control, Sound, Waits
<1>3. \A x \in Threads : stack[x] # <<>> => Top(x) \in Tasks
  BY TopRunner
<1>4. \A x \in Threads : \A i \in 1..Len(stack[x]) :
         i # 1 => i - 1 \in 1..Len(stack[x]) /\ Caller(x, i) = stack[x][i - 1]
  <2> SUFFICES ASSUME NEW x \in Threads, NEW i \in 1..Len(stack[x]), i # 1
               PROVE  i - 1 \in 1..Len(stack[x]) /\ Caller(x, i) = stack[x][i - 1]
    OBVIOUS
  <2>1. Len(stack[x]) \in Nat
    BY DEF Inv, IInv, TypeOK
  <2> QED BY <2>1 DEF Caller
<1>5. \A x \in Threads : \A i \in 1..Len(stack[x]) : stack[x][i] \in Tasks
  BY OneRunner
<1>6. ASSUME a \in Clients, pc[a] = "code", stack[a] = <<>>
      PROVE  /\ \A x \in Threads : Waits(x) => Agent(x) # a
             /\ \A x \in Threads : \A i \in 1..Len(stack[x]) : InPlace(x, i) => Caller(x, i) # a
  <2>1. a \notin Tasks
    BY <1>6, ThreadsAssumption
  <2>2. ASSUME NEW x \in Threads, Waits(x) PROVE Agent(x) # a
    BY <1>3, <1>6, <2>1, <2>2 DEF Agent, Waits
  <2>3. ASSUME NEW x \in Threads, NEW i \in 1..Len(stack[x]), InPlace(x, i)
        PROVE  Caller(x, i) # a
    <3>1. CASE i = 1
      <4>1. Len(stack[x]) # 0
        BY <3>1
      <4>2. stack[x] # <<>>
        BY <4>1, EmptySeq
      <4> QED BY <3>1, <4>2, <1>6 DEF Caller
    <3>2. CASE i # 1
      BY <1>4, <1>5, <2>1, <3>2
    <3> QED BY <3>1, <3>2
  <2> QED BY <2>2, <2>3
<1>7. ASSUME NEW th \in Threads, InBody(th), a = Top(th)
      PROVE  /\ \A x \in Threads : Waits(x) => Agent(x) # a
             /\ \A x \in Threads : \A i \in 1..Len(stack[x]) : InPlace(x, i) => Caller(x, i) # a
  <2>0. pc[th] = "code" /\ stack[th] # <<>> /\ a \in Tasks
    BY <1>3, <1>7 DEF InBody
  <2>1. \A x \in Threads : \A i \in 1..Len(stack[x]) :
          stack[x][i] = a => x = th /\ i = Len(stack[th])
    <3>1. Len(stack[th]) \in 1..Len(stack[th])
      BY <2>0, StackTop DEF Inv, IInv
    <3> QED BY <1>7, <3>1 DEF Top, Inv, IInv, StackOnce
  <2>2. ASSUME NEW x \in Threads, Waits(x) PROVE Agent(x) # a
    <3>1. CASE stack[x] = <<>>
      BY <1>1, <1>2, <2>0, <2>2, <3>1 DEF Agent
    <3>2. CASE stack[x] # <<>>
      <4>1. Len(stack[x]) \in 1..Len(stack[x])
        BY <3>2, StackTop DEF Inv, IInv
      <4>2. Agent(x) = stack[x][Len(stack[x])]
        BY <3>2 DEF Agent, Top
      <4> QED BY <2>0, <2>1, <2>2, <4>1, <4>2 DEF Waits
    <3> QED BY <3>1, <3>2
  <2>3. ASSUME NEW x \in Threads, NEW i \in 1..Len(stack[x]), InPlace(x, i)
        PROVE  Caller(x, i) # a
    <3>1. CASE i = 1
      BY <1>1, <2>0, <2>3, <3>1 DEF Caller, InPlace
    <3>2. CASE i # 1
      <4>1. Len(stack[th]) \in Nat
        BY DEF Inv, IInv, TypeOK
      <4>2. ASSUME Caller(x, i) = a PROVE FALSE
        <5>1. x = th /\ i - 1 = Len(stack[th])
          BY <1>4, <2>1, <3>2, <4>2
        <5>2. i \in 1..Len(stack[th])
          BY <5>1
        <5> QED BY <4>1, <5>1, <5>2
      <4> QED BY <4>2
    <3> QED BY <3>1, <3>2
  <2> QED BY <2>2, <2>3
<1> QED BY <1>6, <1>7

-----------------------------------------------------------------------------
(* The abstract state                                                      *)

Askers(t) == {th \in Threads : Resolving(th, t)}

LEMMA PhaseStays ==
  ASSUME \A u \in Tasks : Phase(u)' = Phase(u)
  PROVE  [u \in Tasks |-> Phase(u)]' = [u \in Tasks |-> Phase(u)]
OBVIOUS

LEMMA PhaseMoves ==
  ASSUME NEW t \in Tasks, NEW c, Phase(t)' = c,
         \A u \in Tasks : u # t => Phase(u)' = Phase(u)
  PROVE  [u \in Tasks |-> Phase(u)]' = [[u \in Tasks |-> Phase(u)] EXCEPT ![t] = c]
OBVIOUS

LEMMA AskingStays ==
  ASSUME \A x \in Threads, u \in Tasks : Resolving(x, u)' <=> Resolving(x, u)
  PROVE  [u \in Tasks |-> {x \in Threads : Resolving(x, u)}]' =
         [u \in Tasks |-> {x \in Threads : Resolving(x, u)}]
OBVIOUS

LEMMA AskingMoves ==
  ASSUME NEW t \in Tasks, NEW S, Askers(t)' = S,
         \A x \in Threads, u \in Tasks : u # t => (Resolving(x, u)' <=> Resolving(x, u))
  PROVE  [u \in Tasks |-> {x \in Threads : Resolving(x, u)}]' =
         [[u \in Tasks |-> {x \in Threads : Resolving(x, u)}] EXCEPT ![t] = S]
BY DEF Askers


-----------------------------------------------------------------------------
(* The steps of AsyncTask, in terms of the pool                            *)

Promised == [Promise!Next]_(Promise!vars)

AskingKept == \A x \in Threads, u \in Tasks : Resolving(x, u)' <=> Resolving(x, u)
AskingKeptBut(t) ==
  \A x \in Threads, u \in Tasks : u # t => (Resolving(x, u)' <=> Resolving(x, u))
PhasesKept == \A u \in Tasks : Phase(u)' = Phase(u)
PhasesKeptBut(t) == \A u \in Tasks : u # t => Phase(u)' = Phase(u)

LEMMA PromiseStutter ==
  ASSUME PhasesKept, AskingKept, handed' = handed
  PROVE  Promised
BY PhaseStays, AskingStays DEF Promised, PhasesKept, AskingKept, Promise!vars

LEMMA PromiseSpawn ==
  ASSUME NEW t \in Tasks, Phase(t) = "unborn", Phase(t)' = "waiting",
         PhasesKeptBut(t), AskingKept, handed' = handed
  PROVE  Promised
<1>1. Promise!Spawn(t)
  BY PhaseMoves, AskingStays
     DEF PhasesKeptBut, AskingKept, Promise!Spawn, Promise!Becomes
<1> QED BY <1>1 DEF Promised, Promise!Next

LEMMA PromiseRun ==
  ASSUME NEW t \in Tasks, Phase(t) = "waiting", Phase(t)' = "running",
         PhasesKeptBut(t), handed' = handed,
         \/ AskingKept
         \/ \E th \in Threads : AskingKeptBut(t) /\ Askers(t)' = Askers(t) \cup {th}
  PROVE  Promised
<1>1. CASE AskingKept
  <2>1. Promise!Run(t)
    BY <1>1, PhaseMoves, AskingStays
       DEF PhasesKeptBut, AskingKept, Promise!Run, Promise!Becomes
  <2> QED BY <2>1 DEF Promised, Promise!Next
<1>2. ASSUME NEW th \in Threads, AskingKeptBut(t), Askers(t)' = Askers(t) \cup {th}
      PROVE  Promised
  <2> DEFINE asking == [u \in Tasks |-> {x \in Threads : Resolving(x, u)}]
  <2>1. asking' = [asking EXCEPT ![t] = Askers(t) \cup {th}]
    BY <1>2, AskingMoves DEF AskingKeptBut
  <2>2. asking' = [asking EXCEPT ![t] = @ \cup {th}]
    BY <2>1 DEF Askers
  <2>3. Promise!Run(t)
    BY <2>2, PhaseMoves DEF PhasesKeptBut, Promise!Run, Promise!Becomes
  <2> QED BY <2>3 DEF Promised, Promise!Next
<1> QED BY <1>1, <1>2

LEMMA PromiseEnd ==
  ASSUME NEW t \in Tasks, Phase(t) = "running", Phase(t)' = "over",
         PhasesKeptBut(t), AskingKept, handed' = handed
  PROVE  Promised
<1>1. Promise!End(t)
  BY PhaseMoves, AskingStays
     DEF PhasesKeptBut, AskingKept, Promise!End, Promise!Becomes
<1> QED BY <1>1 DEF Promised, Promise!Next

LEMMA PromiseAsk ==
  ASSUME NEW t \in Tasks, NEW th \in Threads, Phase(t) # "unborn",
         PhasesKept, AskingKeptBut(t), Askers(t)' = Askers(t) \cup {th},
         handed' = handed
  PROVE  Promised
<1> DEFINE asking == [u \in Tasks |-> {x \in Threads : Resolving(x, u)}]
<1>1. asking' = [asking EXCEPT ![t] = Askers(t) \cup {th}]
  BY AskingMoves DEF AskingKeptBut
<1>2. asking' = [asking EXCEPT ![t] = @ \cup {th}]
  BY <1>1 DEF Askers
<1>3. Promise!Ask(th, t)
  BY <1>2, PhaseStays DEF PhasesKept, Promise!Ask
<1> QED BY <1>3 DEF Promised, Promise!Next

LEMMA PromiseAnswer ==
  ASSUME NEW t \in Tasks, NEW th \in Threads, Phase(t) = "over",
         PhasesKept, AskingKeptBut(t), th \in Askers(t), Askers(t)' = Askers(t) \ {th},
         \/ handed[t] = 0 /\ handed' = [handed EXCEPT ![t] = 1]
         \/ (handed[t] = 1 \/ Askers(t) # {th}) /\ handed' = handed
  PROVE  Promised
<1> DEFINE asking == [u \in Tasks |-> {x \in Threads : Resolving(x, u)}]
<1>1. asking' = [asking EXCEPT ![t] = Askers(t) \ {th}]
  BY AskingMoves DEF AskingKeptBut
<1>2. asking' = [asking EXCEPT ![t] = @ \ {th}] /\ asking[t] = Askers(t)
  BY <1>1 DEF Askers
<1>3. Promise!Answer(th, t)
  BY <1>2, PhaseStays DEF PhasesKept, Promise!Answer
<1>4. Promise!Give(th, t) \/ Promise!GiveDefault(th, t)
  BY <1>2, <1>3 DEF Promise!Give, Promise!GiveDefault
<1> QED BY <1>4 DEF Promised, Promise!Next

LEMMA PromiseRelease ==
  ASSUME NEW t \in Tasks, Phase(t) = "over", Askers(t) = {}, handed[t] = 0,
         PhasesKept, AskingKept, handed' = [handed EXCEPT ![t] = 1]
  PROVE  Promised
<1>1. Promise!Release(t)
  BY PhaseStays, AskingStays DEF PhasesKept, AskingKept, Askers, Promise!Release
<1> QED BY <1>1 DEF Promised, Promise!Next

-----------------------------------------------------------------------------
(* The steps of the pool                                                   *)

\* Steps that concern no task: the pool's own, those of a thread that goes to
\* sleep or wakes for nothing, an exception, a handle passed on.
LEMMA QuietStep ==
  ASSUME Inv, UNCHANGED <<job, slot, handed, stack>>,
         \A u \in Tasks : /\ holders[u] \subseteq holders'[u]
                          /\ holders[u] = {} => holders'[u] = {},
         \A x \in Threads : /\ pc'[x] = pc[x] \/ (pc[x] \notin Ending /\ pc'[x] \notin Ending)
                            /\ Waits(x)' <=> Waits(x)
                            /\ Waits(x) => target'[x] = target[x]
  PROVE  OInv' /\ Promised
<1>1. \A x \in Threads, u \in Tasks : Same(x, u)
  BY SameStack
<1>2. \A u \in Tasks : Outcome(u)' /\ Phase(u)' = Phase(u)
  BY <1>1, TaskFrame DEF Inv, OInv, OutcomeExact
<1>3. AskingKept
  BY ResolvingFrame DEF AskingKept
<1>4. CallersHold'
  BY CallersFrame
<1>5. SlotsKnowHandles'
  BY DEF Inv, OInv, SlotsKnowHandles
<1> QED BY <1>2, <1>3, <1>4, <1>5, PromiseStutter DEF OInv, OutcomeExact, PhasesKept

LEMMA QuietSteps ==
  ASSUME Inv,
         \/ \E th \in Threads, w \in Workers : StartWorker(th, w)
         \/ \E th \in Threads : Sleep(th) \/ SpuriousWake(th) \/ BodyRaise(th)
         \/ \E w \in Workers : FirstPop(w) \/ MissJob(w) \/ GoIdle(w) \/ WakeUp(w) \/ TimeOut(w)
         \/ \E c, d \in Clients, t \in Tasks : Share(c, d, t)
         \/ UNCHANGED vars
  PROVE  OInv' /\ Promised
<1>0. TypeOK /\ Workers \subseteq Threads /\ Clients \subseteq Threads
  BY DEF Inv, IInv, Threads
<1>1. ASSUME NEW th \in Threads, NEW w \in Workers, StartWorker(th, w) PROVE OInv' /\ Promised
  BY <1>0, <1>1, QuietStep DEF StartWorker, poolVars, taskVars, TypeOK, Waits, Ending
<1>2. ASSUME NEW th \in Threads, Sleep(th) PROVE OInv' /\ Promised
  BY <1>0, <1>2, QuietStep DEF Sleep, poolVars, taskVars, TypeOK, Waits, Ending
<1>3. ASSUME NEW th \in Threads, SpuriousWake(th) PROVE OInv' /\ Promised
  BY <1>0, <1>3, QuietStep DEF SpuriousWake, poolVars, taskVars, TypeOK, Waits, Ending
<1>4. ASSUME NEW th \in Threads, BodyRaise(th) PROVE OInv' /\ Promised
  BY <1>0, <1>4, QuietStep DEF BodyRaise, poolVars, Waits
<1>5. ASSUME NEW w \in Workers, FirstPop(w) PROVE OInv' /\ Promised
  BY <1>0, <1>5, QuietStep DEF FirstPop, taskVars, TypeOK, Waits, Ending
<1>6. ASSUME NEW w \in Workers, MissJob(w) PROVE OInv' /\ Promised
  BY <1>0, <1>6, QuietStep DEF MissJob, poolVars, taskVars, TypeOK, Waits, Ending
<1>7. ASSUME NEW w \in Workers, GoIdle(w) PROVE OInv' /\ Promised
  BY <1>0, <1>7, QuietStep DEF GoIdle, taskVars, TypeOK, Waits, Ending
<1>8. ASSUME NEW w \in Workers, WakeUp(w) PROVE OInv' /\ Promised
  BY <1>0, <1>8, QuietStep DEF WakeUp, taskVars, TypeOK, Waits, Ending
<1>9. ASSUME NEW w \in Workers, TimeOut(w) PROVE OInv' /\ Promised
  BY <1>0, <1>9, QuietStep DEF TimeOut, taskVars, TypeOK, Waits, Ending
<1>10. ASSUME NEW c \in Clients, NEW d \in Clients, NEW t \in Tasks, Share(c, d, t)
       PROVE  OInv' /\ Promised
  BY <1>0, <1>10, QuietStep DEF Share, poolVars, TypeOK, Waits
<1>11. ASSUME UNCHANGED vars PROVE OInv' /\ Promised
  BY <1>11, QuietStep DEF vars, Waits
<1> QED BY <1>1, <1>2, <1>3, <1>4, <1>5, <1>6, <1>7, <1>8, <1>9, <1>10, <1>11

\* submit: the caller owns the handle of a task that waits for a thread.
LEMMA CreateStep ==
  ASSUME Inv, NEW th \in Threads, NEW t \in Tasks,
         SpawnToIdle(th, t) \/ SpawnNewThread(th, t)
  PROVE  OInv' /\ Promised
<1>0. /\ Created(th, t) /\ stack' = stack /\ handed' = handed /\ target' = target
      /\ slot[t] = "Unborn" /\ job' = [job EXCEPT ![t] = TRUE]
      /\ slot' = [slot EXCEPT ![t] = "Running"]
      /\ job'[t] /\ slot'[t] = "Running"
      /\ \A u \in Tasks : u # t => job'[u] = job[u] /\ slot'[u] = slot[u]
      /\ \A x \in Threads : \/ pc'[x] = pc[x]
                            \/ pc[x] = "code" /\ pc'[x] = "spawning"
  BY DEF SpawnToIdle, SpawnNewThread, Created, Inv, IInv, TypeOK
<1>1. ~job[t] /\ Runners(t) = {} /\ holders[t] = {} /\ handed[t] = 0
  BY <1>0 DEF Inv, IInv, UnbornIdle, OInv, SlotsKnowHandles, OutcomeExact, Outcome
<1>2. /\ holders'[t] # {}
      /\ \A u \in Tasks : u # t => /\ holders[u] \subseteq holders'[u]
                                   /\ holders[u] = {} => holders'[u] = {}
  <2> DEFINE kept(u) == \E i \in 1..Len(Awaits[t]) : Awaits[t][i] = u /\ u \notin Internal
  <2>1. holders' = [u \in Tasks |-> IF u = t THEN {Agent(th)}
                                    ELSE IF kept(u) THEN holders[u] \cup {t} ELSE holders[u]]
    BY <1>0 DEF Created
  <2>2. \A u \in Tasks : kept(u) => Agent(th) \in holders[u]
    BY <1>0 DEF Created
  <2> HIDE DEF kept
  <2> QED BY <2>1, <2>2
<1>3. CallersHold'
  BY <1>0, <1>1, <1>2, CallersFrame DEF Waits
<1>4. SlotsKnowHandles'
  BY <1>0, <1>1, <1>2 DEF Inv, OInv, SlotsKnowHandles
<1>5. \A x \in Threads, u \in Tasks : Same(x, u)
  BY <1>0, SameStack DEF Ending
<1>6. \A u \in Tasks : u # t => Outcome(u)' /\ Phase(u)' = Phase(u)
  BY <1>0, <1>5, TaskFrame DEF Inv, OInv, OutcomeExact
<1>7. Runners(t)' = {}
  BY <1>0, <1>1 DEF Runners
<1>8. Outcome(t)'
  BY <1>0, <1>1, <1>7 DEF Outcome, Awaited
<1>9. Phase(t) = "unborn" /\ Phase(t)' = "waiting"
  BY <1>0, <1>1, <1>7 DEF Phase
<1>10. AskingKept
  BY <1>0, ResolvingFrame DEF AskingKept, Waits
<1>11. Promised
  BY <1>0, <1>6, <1>9, <1>10, PromiseSpawn DEF PhasesKeptBut
<1> QED BY <1>3, <1>4, <1>6, <1>8, <1>11 DEF OInv, OutcomeExact

\* run_job: the closure of t is taken, th runs it.
LEMMA RunTask ==
  ASSUME Inv, NEW th \in Threads, NEW t \in Tasks, job[t],
         job' = [job EXCEPT ![t] = FALSE],
         stack' = [stack EXCEPT ![th] = Append(@, t)],
         UNCHANGED <<slot, handed>>,
         pc[th] \notin Ending, pc'[th] \notin Ending,
         \A x \in Threads : x # th => pc'[x] = pc[x]
  PROVE  /\ OutcomeExact'
         /\ Phase(t) = "waiting" /\ Phase(t)' = "running" /\ PhasesKeptBut(t)
<1>0. /\ TypeOK /\ ~job'[t] /\ \A u \in Tasks : u # t => job'[u] = job[u]
      /\ \A x \in Threads : x # th => stack'[x] = stack[x]
  BY DEF Inv, IInv, TypeOK
<1>1. Runners(t) = {} /\ slot[t] # "Unborn" /\ Awaited(t)
  BY DEF Inv, IInv, JobOff, UnbornIdle, OInv, OutcomeExact, Outcome
<1>2. \A u \in Tasks : u # t => \A x \in Threads : Same(x, u)
  BY <1>0, SameStack, SamePushed
<1>3. \A u \in Tasks : u # t => Outcome(u)' /\ Phase(u)' = Phase(u)
  BY <1>0, <1>2, TaskFrame DEF Inv, OInv, OutcomeExact
<1>4. Runners(t)' = {th}
  <2>1. th \in Runners(t)'
    <3>1. /\ Len(stack'[th]) = Len(stack[th]) + 1 /\ Len(stack[th]) \in Nat
          /\ stack'[th][Len(stack[th]) + 1] = t
      BY <1>0, Push DEF TypeOK
    <3>2. Len(stack[th]) + 1 \in 1..Len(stack'[th])
      BY <3>1
    <3> QED BY <3>1, <3>2 DEF Runners
  <2>2. ASSUME NEW x \in Runners(t)', x # th PROVE FALSE
    BY <1>0, <1>1, <2>2 DEF Runners
  <2> QED BY <2>1, <2>2
<1>5. ~Ended(th, t)'
  BY DEF Ended, Ending
<1>6. Awaited(t)'
  BY <1>1 DEF Awaited
<1>7. Outcome(t)'
  BY <1>0, <1>1, <1>4, <1>5, <1>6 DEF Outcome
<1>8. Phase(t) = "waiting"
  BY <1>1 DEF Phase
<1>9. Phase(t)' = "running"
  BY <1>0, <1>1, <1>4, <1>5 DEF Phase
<1> QED BY <1>3, <1>7, <1>8, <1>9 DEF OutcomeExact, PhasesKeptBut

\* A resolve runs the task in place; it keeps its reference meanwhile.
LEMMA ResolveInPlaceStep ==
  ASSUME Inv, NEW th \in Threads, NEW t \in Tasks, ResolveInPlace(th, t)
  PROVE  OInv' /\ Promised
<1> DEFINE n == Len(stack[th])
<1>0. /\ TypeOK /\ pc[th] = "code" /\ pc' = pc /\ target' = target /\ holders' = holders
      /\ slot' = slot /\ handed' = handed /\ Agent(th) \in holders[t]
      /\ \A x \in Threads : x # th => stack'[x] = stack[x]
  BY DEF ResolveInPlace, MayResolve, poolVars, Inv, IInv, TypeOK
<1>1. /\ n \in Nat /\ Len(stack'[th]) = n + 1
      /\ \A i \in 1..n : stack'[th][i] = stack[th][i]
      /\ stack'[th][n + 1] = t
  BY Push DEF ResolveInPlace, TypeOK, Inv, IInv
<1>2. th \in Workers => n # 0
  BY <1>0, EmptySeq DEF Inv, IInv, Control, Sound, TypeOK
<1>3. /\ OutcomeExact'
      /\ Phase(t) = "waiting" /\ Phase(t)' = "running" /\ PhasesKeptBut(t)
  BY <1>0, RunTask DEF ResolveInPlace, Ending
<1>4. SlotsKnowHandles'
  BY <1>0 DEF Inv, OInv, SlotsKnowHandles
<1>5. \A x \in Threads : x # th => \A u : Resolving(x, u)' <=> Resolving(x, u)
  BY <1>0, ResolvingFrame DEF Waits
<1> HIDE DEF n
<1>6. \A u : Resolving(th, u)' <=> Resolving(th, u) \/ u = t
  <2>1. \A u : Resolving(th, u) <=> \E i \in 1..n : stack[th][i] = u /\ ~(th \in Workers /\ i = 1)
    BY <1>0 DEF Resolving, n
  <2>2. \A u : Resolving(th, u)' <=>
                 \E i \in 1..(n + 1) : stack'[th][i] = u /\ ~(th \in Workers /\ i = 1)
    BY <1>0, <1>1 DEF Resolving
  <2>3. 1..(n + 1) = 1..n \cup {n + 1} /\ n + 1 \in 1..(n + 1)
    BY <1>1
  <2>4. th \in Workers => n + 1 # 1
    BY <1>1, <1>2
  <2> QED BY <1>1, <2>1, <2>2, <2>3, <2>4
<1>7. AskingKeptBut(t)
  BY <1>5, <1>6 DEF AskingKeptBut
<1>8. Askers(t)' = Askers(t) \cup {th}
  BY <1>5, <1>6 DEF Askers
<1>9. Promised
  BY <1>0, <1>3, <1>7, <1>8, PromiseRun
<1>10. CallersHold'
  <2>1. ASSUME NEW x \in Threads, x # th, NEW i \in 1..Len(stack'[x]), InPlace(x, i)
        PROVE  (Caller(x, i) \in holders[stack[x][i]])'
    BY <1>0, <2>1 DEF Inv, OInv, CallersHold, Caller
  <2>2. ASSUME NEW i \in 1..Len(stack'[th]), InPlace(th, i)
        PROVE  (Caller(th, i) \in holders[stack[th][i]])'
    <3>1. CASE i \in 1..n
      <4>1. Caller(th, i) \in holders[stack[th][i]]
        BY <2>2, <3>1 DEF n, Inv, OInv, CallersHold
      <4>2. i # 1 => i - 1 \in 1..n
        BY <1>1, <3>1
      <4>3. Caller(th, i)' = Caller(th, i)
        BY <1>1, <4>2 DEF Caller
      <4> QED BY <1>0, <1>1, <3>1, <4>1, <4>3
    <3>2. CASE i \notin 1..n
      <4>1. i = n + 1 /\ n + 1 - 1 = n
        BY <1>1, <3>2
      <4>2. Caller(th, i)' = Agent(th)
        <5>1. CASE n = 0
          BY <1>0, <4>1, <5>1, EmptySeq DEF n, Caller, Agent, TypeOK
        <5>2. CASE n # 0
          <6>1. stack[th] # <<>>
            BY <1>0, <5>2, EmptySeq DEF n, TypeOK
          <6>2. Caller(th, i)' = stack'[th][n] /\ n \in 1..n
            BY <1>1, <4>1, <5>2 DEF Caller
          <6>3. stack'[th][n] = stack[th][n]
            BY <1>1, <6>2
          <6> QED BY <6>1, <6>2, <6>3 DEF Agent, Top, n
        <5> QED BY <5>1, <5>2
      <4> QED BY <1>0, <1>1, <4>1, <4>2
    <3> QED BY <3>1, <3>2
  <2>3. ASSUME NEW x \in Threads, Waits(x)' PROVE (Agent(x) \in holders[target[x]])'
    <3>1. x # th
      BY <1>0, <2>3 DEF Waits
    <3>2. Agent(x)' = Agent(x) /\ Waits(x)
      BY <1>0, <2>3, <3>1 DEF Agent, Top, Waits
    <3> QED BY <1>0, <3>2 DEF Inv, OInv, CallersHold
  <2>4. \A x \in Threads : \A i : InPlace(x, i)' <=> InPlace(x, i)
    BY DEF InPlace
  <2> QED BY <2>1, <2>2, <2>3, <2>4 DEF CallersHold
<1> QED BY <1>3, <1>4, <1>9, <1>10 DEF OInv

\* A thread of the pool runs the task it popped: no resolve began.
LEMMA TakeJobStep ==
  ASSUME Inv, NEW w \in Workers, TakeJob(w)
  PROVE  OInv' /\ Promised
<1>a. target[w] \in Tasks
  BY DEF TakeJob, Inv, IInv, Control, Sound, Threads
<1>b. PICK t \in Tasks : t = target[w]
  BY <1>a
<1>0. /\ TypeOK /\ w \in Threads /\ t \in Tasks /\ stack[w] = <<>>
      /\ pc[w] = "taking" /\ pc'[w] = "code" /\ job[t]
      /\ stack'[w] = Append(<<>>, t) /\ stack' = [stack EXCEPT ![w] = Append(@, t)]
      /\ holders' = holders /\ slot' = slot /\ handed' = handed
      /\ job' = [job EXCEPT ![t] = FALSE]
      /\ \A x \in Threads : x # w => /\ pc'[x] = pc[x] /\ stack'[x] = stack[x]
                                     /\ target'[x] = target[x]
  BY <1>b DEF TakeJob, poolVars, Inv, IInv, TypeOK, Control, Sound, Threads
<1>1. Len(stack'[w]) = 1 /\ Len(stack[w]) = 0
  BY <1>0
<1>2. /\ OutcomeExact'
      /\ Phase(t) = "waiting" /\ Phase(t)' = "running" /\ PhasesKeptBut(t)
  BY <1>0, RunTask DEF Ending
<1>3. SlotsKnowHandles'
  BY <1>0 DEF Inv, OInv, SlotsKnowHandles
<1>4. AskingKept
  <2>1. \A x \in Threads : x # w => \A u : Resolving(x, u)' <=> Resolving(x, u)
    BY <1>0, ResolvingFrame DEF Waits
  <2>2. \A u : ~Resolving(w, u) /\ ~Resolving(w, u)'
    BY <1>0, <1>1 DEF Resolving
  <2> QED BY <2>1, <2>2 DEF AskingKept
<1>5. CallersHold'
  <2>1. ASSUME NEW x \in Threads, x # w
        PROVE  /\ Waits(x)' => (Agent(x) \in holders[target[x]])'
               /\ \A i \in 1..Len(stack'[x]) :
                    InPlace(x, i)' => (Caller(x, i) \in holders[stack[x][i]])'
    BY <1>0, <2>1 DEF Inv, OInv, CallersHold, Waits, Agent, Top, InPlace, Caller
  <2>2. ~Waits(w)' /\ \A i \in 1..Len(stack'[w]) : ~InPlace(w, i)'
    BY <1>0, <1>1 DEF Waits, InPlace
  <2> QED BY <2>1, <2>2 DEF CallersHold
<1> QED BY <1>0, <1>2, <1>3, <1>4, <1>5, PromiseRun DEF OInv

\* Another thread has the closure: the resolve waits.
LEMMA ResolveElsewhereStep ==
  ASSUME Inv, NEW th \in Threads, NEW t \in Tasks, ResolveElsewhere(th, t)
  PROVE  OInv' /\ Promised
<1>0. /\ TypeOK /\ pc[th] = "code" /\ pc'[th] = "check" /\ target'[th] = t
      /\ Agent(th) \in holders[t] /\ UNCHANGED <<stack, job, slot, holders, handed>>
      /\ \A x \in Threads : x # th => pc'[x] = pc[x] /\ target'[x] = target[x]
  BY DEF ResolveElsewhere, MayResolve, taskVars, Inv, IInv, TypeOK
<1>1. \A x \in Threads, u \in Tasks : Same(x, u)
  BY <1>0, SameStack DEF Ending
<1>2. \A u \in Tasks : Outcome(u)' /\ Phase(u)' = Phase(u)
  BY <1>0, <1>1, TaskFrame DEF Inv, OInv, OutcomeExact
<1>3. \A x \in Threads : x # th => \A u : Resolving(x, u)' <=> Resolving(x, u)
  BY <1>0, ResolvingFrame DEF Waits
<1>4. \A u : Resolving(th, u)' <=> Resolving(th, u) \/ u = t
  BY <1>0 DEF Resolving
<1>5. AskingKeptBut(t) /\ Askers(t)' = Askers(t) \cup {th}
  BY <1>3, <1>4 DEF AskingKeptBut, Askers
<1>6. Phase(t) # "unborn"
  BY <1>0 DEF Phase, Inv, OInv, SlotsKnowHandles
<1>7. CallersHold'
  <2>1. ASSUME NEW x \in Threads
        PROVE  /\ Waits(x)' => (Agent(x) \in holders[target[x]])'
               /\ \A i \in 1..Len(stack'[x]) :
                    InPlace(x, i)' => (Caller(x, i) \in holders[stack[x][i]])'
    <3>1. Agent(x)' = Agent(x) /\ \A i : InPlace(x, i)' = InPlace(x, i) /\ Caller(x, i)' = Caller(x, i)
      BY <1>0 DEF Agent, Top, InPlace, Caller
    <3> QED BY <1>0, <3>1 DEF Inv, OInv, CallersHold, Waits
  <2> QED BY <2>1 DEF CallersHold
<1>8. SlotsKnowHandles'
  BY <1>0 DEF Inv, OInv, SlotsKnowHandles
<1> QED BY <1>0, <1>2, <1>5, <1>6, <1>7, <1>8, PromiseAsk DEF OInv, OutcomeExact, PhasesKept

\* The last reference of a handle goes: free_task releases an outcome that is
\* in the slot, else whoever runs the task will find it abandoned.
LEMMA DroppedStep ==
  ASSUME Inv, NEW a, NEW t \in Tasks, Dropped(a, t),
         \A x \in Threads : Waits(x) => Agent(x) # a,
         \A x \in Threads : \A i \in 1..Len(stack[x]) : InPlace(x, i) => Caller(x, i) # a
  PROVE  OInv' /\ Promised
<1>0. /\ TypeOK /\ a \in holders[t] /\ UNCHANGED <<stack, pc, target, job>>
      /\ holders'[t] = holders[t] \ {a}
      /\ \A u \in Tasks : u # t => /\ holders'[u] = holders[u] /\ slot'[u] = slot[u]
                                   /\ handed'[u] = handed[u]
  BY DEF Dropped, Inv, IInv, TypeOK
<1>1. \A x \in Threads, u \in Tasks : Same(x, u)
  BY <1>0, SameStack
<1>2. \A u \in Tasks : u # t => Outcome(u)' /\ Phase(u)' = Phase(u)
  BY <1>0, <1>1, TaskFrame DEF Inv, OInv, OutcomeExact
<1>3. AskingKept
  BY <1>0, ResolvingFrame DEF AskingKept, Waits
<1>4. CallersHold'
  <2>1. ASSUME NEW x \in Threads
        PROVE  /\ Waits(x)' => (Agent(x) \in holders[target[x]])'
               /\ \A i \in 1..Len(stack'[x]) :
                    InPlace(x, i)' => (Caller(x, i) \in holders[stack[x][i]])'
    <3>1. /\ Agent(x)' = Agent(x) /\ Waits(x)' = Waits(x)
          /\ \A i : InPlace(x, i)' = InPlace(x, i) /\ Caller(x, i)' = Caller(x, i)
      BY <1>0 DEF Agent, Top, InPlace, Caller, Waits
    <3>2. \A u \in Tasks : \A b \in holders[u] : b # a => b \in holders'[u]
      BY <1>0
    <3>3. Waits(x) => target[x] \in Tasks
      BY DEF Waits, Inv, IInv, Control, Sound
    <3>4. \A i \in 1..Len(stack[x]) : stack[x][i] \in Tasks
      BY OneRunner
    <3> QED BY <1>0, <3>1, <3>2, <3>3, <3>4 DEF Inv, OInv, CallersHold
  <2> QED BY <2>1 DEF CallersHold
<1>5. CASE holders[t] # {a}
  <2>1. slot' = slot /\ handed' = handed /\ holders'[t] # {}
    BY <1>0, <1>5 DEF Dropped
  <2>2. SlotsKnowHandles'
    BY <1>0, <2>1 DEF Inv, OInv, SlotsKnowHandles
  <2>3. Outcome(t)' /\ Phase(t)' = Phase(t)
    BY <1>0, <1>1, <2>1, TaskFrame DEF Inv, OInv, OutcomeExact
  <2> QED BY <1>2, <1>3, <1>4, <2>1, <2>2, <2>3, PromiseStutter
       DEF OInv, OutcomeExact, PhasesKept
<1>6. CASE holders[t] = {a}
  <2>1. /\ holders'[t] = {} /\ slot'[t] = "Abandoned"
        /\ handed' = [handed EXCEPT ![t] = IF slot[t] = "Done" THEN @ + 1 ELSE @]
    BY <1>0, <1>6 DEF Dropped, Inv, IInv, TypeOK
  <2>2. slot[t] \notin {"Unborn", "Abandoned"} /\ Outcome(t)
    BY <1>6 DEF Inv, OInv, SlotsKnowHandles, OutcomeExact
  <2>3. SlotsKnowHandles'
    BY <1>0, <2>1 DEF Inv, OInv, SlotsKnowHandles
  <2>4. \A x \in Threads : ~Resolving(x, t)
    BY <1>6, ResolverHolds
  <2>5. \A x \in Runners(t) : Ended(x, t) => Settled(t)
    <3> SUFFICES ASSUME NEW x \in Runners(t), Ended(x, t) PROVE Settled(t)
      OBVIOUS
    <3>1. Queued(x)
      <4>1. stack[x] # <<>> /\ x \in Threads
        BY DEF Runners
      <4>2. Len(stack[x]) \in 1..Len(stack[x]) /\ stack[x][Len(stack[x])] = t
        BY <1>0, <4>1, StackTop DEF Ended, Top
      <4> QED BY <2>4, <4>1, <4>2 DEF Resolving, Queued
    <3> QED BY <2>2, <3>1 DEF Outcome, Closing
  <2>6. \/ slot[t] = "Done" /\ handed[t] = 0 /\ handed'[t] = 1
        \/ slot[t] # "Done" /\ handed'[t] = handed[t]
    <3>1. slot[t] = "Done" => handed[t] = 0
      BY <2>2, <2>5 DEF Outcome, Awaited, Settled
    <3> QED BY <1>0, <2>1, <3>1 DEF TypeOK
  <2>7. Outcome(t)'
    <3>1. Runners(t)' = Runners(t)
      BY <1>0 DEF Runners
    <3>2. Awaited(t) => Awaited(t)'
      BY <2>1, <2>6 DEF Awaited
    <3>3. Settled(t) => Settled(t)'
      BY <2>1, <2>6, <2>2 DEF Settled
    <3>4. \A x \in Runners(t) : Ended(x, t)' = Ended(x, t) /\ pc[x] = pc'[x] /\ Queued(x)' = Queued(x)
      BY <1>0 DEF Runners, Ended, Top, Queued
    <3>5. \A x \in Runners(t) : Ended(x, t) => Closing(x, t)'
      <4> SUFFICES ASSUME NEW x \in Runners(t), Ended(x, t) PROVE Closing(x, t)'
        OBVIOUS
      <4>1. stack[x] # <<>> /\ x \in Threads
        BY DEF Runners
      <4>2. Len(stack[x]) \in 1..Len(stack[x]) /\ stack[x][Len(stack[x])] = t
        BY <1>0, <4>1, StackTop DEF Ended, Top
      <4>3. Queued(x)
        BY <2>4, <4>1, <4>2 DEF Resolving, Queued
      <4>4. pc[x] # "discard"
        BY <2>2 DEF Outcome, Closing
      <4> QED BY <2>5, <3>3, <3>4, <4>3, <4>4 DEF Closing
    <3> QED BY <1>0, <2>1, <2>2, <3>1, <3>2, <3>3, <3>4, <3>5 DEF Outcome
  <2>8. Phase(t)' = Phase(t)
    <3>1. Runners(t)' = Runners(t)
      BY <1>0 DEF Runners
    <3>2. \A x \in Runners(t) : Ended(x, t)' = Ended(x, t)
      BY <1>0 DEF Runners, Ended, Top
    <3> QED BY <1>0, <2>1, <2>2, <3>1, <3>2 DEF Phase
  <2>9. Promised
    <3>1. CASE slot[t] = "Done"
      <4>1. ~job[t] /\ \A x \in Runners(t) : Ended(x, t)
        BY <2>2, <3>1 DEF Outcome, Awaited
      <4>2. Phase(t) = "over"
        BY <2>2, <4>1 DEF Phase
      <4>3. handed[t] = 0 /\ handed' = [handed EXCEPT ![t] = 1]
        BY <2>1, <2>6, <3>1
      <4>4. Askers(t) = {}
        BY <2>4 DEF Askers
      <4> QED BY <1>2, <1>3, <2>8, <4>2, <4>3, <4>4, PromiseRelease DEF PhasesKept
    <3>2. CASE slot[t] # "Done"
      <4>1. handed' = handed
        BY <1>0, <2>1, <3>2 DEF TypeOK
      <4> QED BY <1>2, <1>3, <2>8, <4>1, PromiseStutter DEF PhasesKept
    <3> QED BY <3>1, <3>2
  <2> QED BY <1>2, <1>4, <2>3, <2>7, <2>9 DEF OInv, OutcomeExact
<1> QED BY <1>5, <1>6

LEMMA DropSteps ==
  ASSUME Inv, NEW t \in Tasks,
         \/ \E c \in Clients : ClientDrop(c, t)
         \/ \E th \in Threads : BodyDrop(th, t)
  PROVE  OInv' /\ Promised
<1>1. ASSUME NEW c \in Clients, ClientDrop(c, t) PROVE OInv' /\ Promised
  BY <1>1, DropperIdle, DroppedStep DEF ClientDrop
<1>2. ASSUME NEW th \in Threads, BodyDrop(th, t) PROVE OInv' /\ Promised
  <2>1. PICK a : a = Top(th)
    OBVIOUS
  <2>2. InBody(th) /\ Dropped(a, t)
    BY <1>2, <2>1 DEF BodyDrop
  <2> QED BY <2>1, <2>2, DropperIdle, DroppedStep
<1> QED BY <1>1, <1>2

\* A resolve that waited leaves: with the outcome if it is still in the slot,
\* else with the default value, and then somebody else has or gets the outcome.
LEMMA TakeSlotStep ==
  ASSUME Inv, NEW th \in Threads, TakeSlot(th)
  PROVE  OInv' /\ Promised
<1>1. target[th] \in Tasks /\ TypeOK
  BY DEF TakeSlot, Inv, IInv, Control, Sound
<1>2. PICK t \in Tasks : t = target[th]
  BY <1>1
<1>3. /\ pc[th] = "check" /\ pc'[th] = "code" /\ slot[t] # "Running" /\ slot'[t] = "Taken"
      /\ handed' = [handed EXCEPT ![t] = IF slot[t] = "Done" THEN @ + 1 ELSE @]
      /\ UNCHANGED <<stack, job, holders>>
      /\ \A x \in Threads : x # th => pc'[x] = pc[x] /\ target'[x] = target[x]
      /\ \A u \in Tasks : u # t => slot'[u] = slot[u] /\ handed'[u] = handed[u]
  BY <1>1, <1>2 DEF TakeSlot, TypeOK
<1>4. Resolving(th, t)
  BY <1>2, <1>3 DEF Resolving
<1>5. slot[t] \in {"Done", "Taken"} /\ holders[t] # {} /\ Outcome(t) /\ handed[t] \in Nat
  BY <1>1, <1>3, <1>4, ResolverHolds DEF TypeOK, Inv, OInv, OutcomeExact
<1>6. ~job[t] /\ \A x \in Runners(t) : Ended(x, t) /\ Closing(x, t) /\ x # th
  BY <1>3, <1>5 DEF Outcome, Awaited, Ended
<1>7. \A x \in Runners(t) : ~Queued(x) => Resolving(x, t)
  <2> SUFFICES ASSUME NEW x \in Runners(t), ~Queued(x) PROVE Resolving(x, t)
    OBVIOUS
  <2>1. stack[x] # <<>> /\ x \in Threads
    BY DEF Runners
  <2>2. Len(stack[x]) \in 1..Len(stack[x]) /\ stack[x][Len(stack[x])] = t
    BY <1>1, <1>6, <2>1, StackTop DEF Ended, Top
  <2> QED BY <2>2 DEF Resolving, Queued
<1>8. \A x \in Threads, u \in Tasks : Same(x, u)
  BY <1>3, SameStack DEF Ending
<1>9. \A u \in Tasks : u # t => Outcome(u)' /\ Phase(u)' = Phase(u)
  BY <1>3, <1>8, TaskFrame DEF Inv, OInv, OutcomeExact
<1>10. Phase(t) = "over" /\ Phase(t)' = "over"
  <2>1. Runners(t)' = Runners(t) /\ \A x \in Runners(t) : Ended(x, t)'
    BY <1>3, <1>6 DEF Runners, Ended, Top
  <2> QED BY <1>3, <1>5, <1>6, <2>1 DEF Phase
<1>11. /\ slot[t] = "Done" => handed[t] = 0
       /\ \/ Settled(t) /\ \A x \in Runners(t) : Queued(x)
          \/ slot[t] = "Taken" /\ handed[t] = 0 /\ \E x \in Runners(t) : ~Queued(x)
  <2>1. CASE \A x \in Runners(t) : Queued(x)
    <3>1. Settled(t)
      BY <1>5, <1>6, <2>1 DEF Outcome, Closing
    <3> QED BY <2>1, <3>1 DEF Settled
  <2>2. ASSUME NEW x \in Runners(t), ~Queued(x)
        PROVE  slot[t] = "Taken" /\ handed[t] = 0
    BY <1>5, <1>6, <2>2 DEF Closing
  <2> QED BY <2>1, <2>2
<1>12. Outcome(t)'
  <2>1. Runners(t)' = Runners(t)
    BY <1>3 DEF Runners
  <2>2. \A x \in Runners(t) : Ended(x, t)' /\ pc'[x] = pc[x] /\ Queued(x)' = Queued(x)
    BY <1>3, <1>6 DEF Runners, Ended, Top, Queued
  <2>3. CASE Settled(t) /\ \A x \in Runners(t) : Queued(x)
    <3>1. Settled(t)'
      BY <1>1, <1>3, <1>5, <1>11, <2>3 DEF Settled, TypeOK
    <3>2. \A x \in Runners(t) : pc[x] # "discard"
      BY <1>5, <1>6 DEF Closing
    <3> QED BY <1>3, <1>6, <2>1, <2>2, <2>3, <3>1, <3>2 DEF Outcome, Closing
  <2>4. CASE slot[t] = "Taken" /\ handed[t] = 0 /\ \E x \in Runners(t) : ~Queued(x)
    <3>1. PICK y \in Runners(t) : ~Queued(y)
      BY <2>4
    <3>2. \A x \in Runners(t) : x = y
      BY <3>1 DEF Runners, Inv, IInv, StackOnce
    <3>3. handed'[t] = 0
      BY <1>1, <1>3, <2>4 DEF TypeOK
    <3>4. pc[y] # "discard"
      BY <1>5, <1>6 DEF Closing
    <3> QED BY <1>3, <1>6, <2>1, <2>2, <3>1, <3>2, <3>3, <3>4 DEF Outcome, Closing
  <2> QED BY <1>11, <2>3, <2>4
<1>13. \A x \in Threads : x # th => \A u : Resolving(x, u)' <=> Resolving(x, u)
  BY <1>3, ResolvingFrame DEF Waits
<1>14. \A u \in Tasks : Resolving(th, u)' <=> Resolving(th, u) /\ u # t
  <2>1. \A i \in 1..Len(stack[th]) : stack[th][i] # t
    BY <1>6 DEF Runners
  <2> QED BY <1>2, <1>3, <2>1 DEF Resolving
<1>15. AskingKeptBut(t) /\ th \in Askers(t) /\ Askers(t)' = Askers(t) \ {th}
  BY <1>4, <1>13, <1>14 DEF AskingKeptBut, Askers
<1>16. \/ handed[t] = 0 /\ handed' = [handed EXCEPT ![t] = 1]
       \/ (handed[t] = 1 \/ Askers(t) # {th}) /\ handed' = handed
  <2>1. CASE slot[t] = "Done"
    <3>1. handed[t] = 0
      BY <1>11, <2>1
    <3> QED BY <1>3, <2>1, <3>1
  <2>2. CASE slot[t] = "Taken"
    <3>1. handed' = handed
      BY <1>1, <1>3, <2>2 DEF TypeOK
    <3>2. CASE Settled(t)
      BY <2>2, <3>1, <3>2 DEF Settled
    <3>3. CASE \E x \in Runners(t) : ~Queued(x)
      BY <1>6, <1>7, <3>1, <3>3 DEF Askers, Runners
    <3> QED BY <1>11, <3>2, <3>3
  <2> QED BY <1>5, <2>1, <2>2
<1>17. CallersHold'
  BY <1>3, CallersFrame DEF Waits
<1>18. SlotsKnowHandles'
  BY <1>3, <1>5 DEF Inv, OInv, SlotsKnowHandles
<1>19. PhasesKept
  BY <1>9, <1>10 DEF PhasesKept
<1>20. Promised
  BY <1>10, <1>15, <1>16, <1>19, PromiseAnswer
<1> QED BY <1>9, <1>12, <1>17, <1>18, <1>20 DEF OInv, OutcomeExact

\* The body of t is over on the thread th, which now closes the task.
LEMMA EndTask ==
  ASSUME Inv, NEW th \in Threads, NEW t \in Tasks, BodyOver(th), t = Top(th),
         UNCHANGED <<stack, target, job, holders, handed>>,
         \A u \in Tasks : u # t => slot'[u] = slot[u],
         \A x \in Threads : x # th => \/ pc'[x] = pc[x]
                                      \/ pc[x] = "asleep" /\ pc'[x] = "check",
         \/ /\ pc'[th] = "retire" /\ Queued(th)
            /\ slot[t] # "Abandoned" /\ slot'[t] = "Done"
         \/ /\ pc'[th] = "discard" /\ slot[t] = "Abandoned" /\ slot'[t] = "Abandoned"
         \/ /\ pc'[th] = "retire" /\ ~Queued(th) /\ slot'[t] = "Taken"
  PROVE  OInv' /\ Promised
<1>1. /\ pc[th] = "code" /\ stack[th] # <<>> /\ pc'[th] \in Ending
  BY DEF BodyOver, InBody, Ending
<1>2. Runners(t) = {th} /\ ~job[t] /\ slot[t] # "Unborn" /\ Outcome(t)
  BY <1>1, TopRunner
<1>3. Len(stack[th]) \in 1..Len(stack[th]) /\ stack[th][Len(stack[th])] = t
  BY <1>1, StackTop DEF Inv, IInv, Top
<1>4. Runners(t)' = {th} /\ ~Ended(th, t) /\ Ended(th, t)'
  BY <1>1, <1>2 DEF Runners, Ended, Ending, Top
<1>5. Awaited(t)
  BY <1>2, <1>4 DEF Outcome
<1>6. Phase(t) = "running"
  BY <1>2, <1>4 DEF Phase
<1>7. slot'[t] # "Unborn" /\ Phase(t)' = "over"
  <2>1. slot'[t] # "Unborn"
    OBVIOUS
  <2> QED BY <1>2, <1>4, <2>1 DEF Phase
<1>8. Outcome(t)'
  <2>1. Closing(th, t)'
    BY <1>5 DEF Closing, Awaited, Settled, Queued
  <2> QED BY <1>2, <1>4, <1>7, <2>1 DEF Outcome
<1>9. \A x \in Threads, u \in Tasks : u # t => Same(x, u)
  <2>1. ASSUME NEW x \in Threads, NEW u \in Tasks, u # t PROVE Same(x, u)
    <3>1. CASE x = th
      BY <2>1, <3>1, SameBelow
    <3>2. CASE x # th
      BY <3>2, SameStack DEF Ending
    <3> QED BY <3>1, <3>2
  <2> QED BY <2>1
<1>10. \A u \in Tasks : u # t => Outcome(u)' /\ Phase(u)' = Phase(u)
  BY <1>9, TaskFrame DEF Inv, OInv, OutcomeExact
<1>11. \A x \in Threads : Waits(x)' <=> Waits(x)
  BY <1>1 DEF Waits, Ending
<1>12. AskingKept
  BY <1>11, ResolvingFrame DEF AskingKept
<1>13. CallersHold'
  BY <1>11, CallersFrame
<1>14. slot'[t] = "Abandoned" <=> holders[t] = {}
  <2>1. ~Queued(th) => Resolving(th, t)
    BY <1>3 DEF Queued, Resolving
  <2>2. ~Queued(th) => holders[t] # {}
    BY <2>1, ResolverHolds
  <2> QED BY <1>2, <2>2 DEF Inv, OInv, SlotsKnowHandles
<1>15. SlotsKnowHandles'
  BY <1>7, <1>14 DEF Inv, OInv, SlotsKnowHandles
<1>16. Promised
  BY <1>6, <1>7, <1>10, <1>12, PromiseEnd DEF PhasesKeptBut
<1> QED BY <1>8, <1>10, <1>13, <1>15, <1>16 DEF OInv, OutcomeExact

LEMMA EndSteps ==
  ASSUME Inv, NEW th \in Threads, StoreOutcome(th) \/ FindAbandoned(th) \/ MarkTaken(th)
  PROVE  OInv' /\ Promised
<1>0. TypeOK /\ BodyOver(th) /\ stack[th] # <<>>
  BY DEF Inv, IInv, StoreOutcome, FindAbandoned, MarkTaken, BodyOver, InBody
<1>1. Top(th) \in Tasks
  BY <1>0, StackTop
<1>2. PICK t \in Tasks : t = Top(th)
  BY <1>1
<1>3. CASE StoreOutcome(th)
  <2>1. \A x \in Threads : x # th => pc'[x] = pc[x] \/ (pc[x] = "asleep" /\ pc'[x] = "check")
    BY <1>0, <1>3, WokenType DEF StoreOutcome
  <2>2. pc'[th] = "retire"
    BY <1>0, <1>3, WokenType DEF StoreOutcome
  <2>3. slot'[t] = "Done" /\ \A u \in Tasks : u # t => slot'[u] = slot[u]
    BY <1>0, <1>2, <1>3 DEF StoreOutcome, TypeOK
  <2> QED BY <1>0, <1>2, <1>3, <2>1, <2>2, <2>3, EndTask DEF StoreOutcome
<1>4. CASE FindAbandoned(th)
  <2>1. pc'[th] = "discard" /\ \A x \in Threads : x # th => pc'[x] = pc[x]
    BY <1>0, <1>4 DEF FindAbandoned, TypeOK
  <2> QED BY <1>0, <1>2, <1>4, <2>1, EndTask DEF FindAbandoned, taskVars
<1>5. CASE MarkTaken(th)
  <2>1. pc'[th] = "retire" /\ \A x \in Threads : x # th => pc'[x] = pc[x]
    BY <1>0, <1>5 DEF MarkTaken, TypeOK
  <2>2. slot'[t] = "Taken" /\ \A u \in Tasks : u # t => slot'[u] = slot[u]
    BY <1>0, <1>2, <1>5 DEF MarkTaken, TypeOK
  <2> QED BY <1>0, <1>2, <1>5, <2>1, <2>2, EndTask DEF MarkTaken
<1> QED BY <1>3, <1>4, <1>5

\* The outcome of an abandoned task: nobody can ask for it any more.
LEMMA ReleaseOutcomeStep ==
  ASSUME Inv, NEW th \in Threads, ReleaseOutcome(th)
  PROVE  OInv' /\ Promised
<1>0. /\ TypeOK /\ pc[th] = "discard" /\ stack[th] # <<>> /\ Queued(th)
  BY DEF ReleaseOutcome, Inv, IInv, Control, Sound
<1>1. Top(th) \in Tasks
  BY <1>0, StackTop
<1>2. PICK t \in Tasks : t = Top(th)
  BY <1>1
<1>3. /\ pc'[th] = "retire" /\ UNCHANGED <<stack, target, job, slot, holders>>
      /\ \A x \in Threads : x # th => pc'[x] = pc[x]
      /\ handed' = [handed EXCEPT ![t] = @ + 1]
      /\ \A u \in Tasks : u # t => handed'[u] = handed[u]
  BY <1>0, <1>2 DEF ReleaseOutcome, TypeOK
<1>4. Runners(t) = {th} /\ ~job[t] /\ slot[t] # "Unborn" /\ Outcome(t) /\ Ended(th, t)
  BY <1>0, <1>2, TopRunner DEF Ended
<1>5. slot[t] = "Abandoned" /\ handed[t] = 0
  BY <1>0, <1>4 DEF Outcome, Closing
<1>6. handed' = [handed EXCEPT ![t] = 1] /\ handed'[t] = 1
  BY <1>0, <1>3, <1>5 DEF TypeOK
<1>7. Runners(t)' = {th} /\ Ended(th, t)' /\ Queued(th)'
  BY <1>0, <1>2, <1>3, <1>4 DEF Runners, Ended, Top, Queued
<1>8. Phase(t) = "over" /\ Phase(t)' = "over"
  BY <1>3, <1>4, <1>7 DEF Phase
<1>9. Outcome(t)'
  BY <1>3, <1>4, <1>5, <1>6, <1>7 DEF Outcome, Closing, Settled
<1>10. \A x \in Threads, u \in Tasks : u # t => Same(x, u)
  <2>1. ASSUME NEW x \in Threads, NEW u \in Tasks, u # t PROVE Same(x, u)
    <3>1. CASE x = th
      BY <1>2, <1>3, <2>1, <3>1, SameBelow
    <3>2. CASE x # th
      BY <1>3, <3>2, SameStack
    <3> QED BY <3>1, <3>2
  <2> QED BY <2>1
<1>11. \A u \in Tasks : u # t => Outcome(u)' /\ Phase(u)' = Phase(u)
  BY <1>3, <1>10, TaskFrame DEF Inv, OInv, OutcomeExact
<1>12. \A x \in Threads : Waits(x)' <=> Waits(x)
  BY <1>0, <1>3 DEF Waits
<1>13. AskingKept
  BY <1>3, <1>12, ResolvingFrame DEF AskingKept
<1>14. CallersHold'
  BY <1>3, <1>12, CallersFrame
<1>15. SlotsKnowHandles'
  BY <1>3 DEF Inv, OInv, SlotsKnowHandles
<1>16. Askers(t) = {}
  BY <1>5, ResolverHolds DEF Askers
<1>17. Promised
  BY <1>5, <1>6, <1>8, <1>11, <1>13, <1>16, PromiseRelease DEF PhasesKept
<1> QED BY <1>9, <1>11, <1>14, <1>15, <1>17 DEF OInv, OutcomeExact

\* The task on top of th is over and leaves the stack.
LEMMA RetireTask ==
  ASSUME Inv, NEW th \in Threads, NEW t \in Tasks, stack[th] # <<>>, t = Top(th),
         pc[th] = "retire", pc'[th] \in {"code", "resting"},
         stack' = [stack EXCEPT ![th] = SubSeq(@, 1, Len(@) - 1)],
         UNCHANGED <<job, slot, holders, target>>,
         \A x \in Threads : x # th => pc'[x] = pc[x],
         \A u \in Tasks : u # t => handed'[u] = handed[u],
         Settled(t)'
  PROVE  OInv' /\ PhasesKept /\ Phase(t) = "over"
<1> DEFINE n == Len(stack[th])
<1>1. /\ TypeOK /\ n \in Nat /\ n >= 1 /\ stack[th][n] = t
      /\ Len(stack'[th]) = n - 1
      /\ \A i \in 1..(n - 1) : stack'[th][i] = stack[th][i]
      /\ \A x \in Threads : x # th => stack'[x] = stack[x]
  BY StackTop, Pop DEF Inv, IInv, TypeOK, Top
<1>2. Runners(t) = {th} /\ ~job[t] /\ slot[t] # "Unborn" /\ Outcome(t) /\ Ended(th, t)
  BY TopRunner DEF Ended
<1>3. Runners(t)' = {}
  <2>1. \A x \in Threads : x # th => x \notin Runners(t)'
    BY <1>1, <1>2 DEF Runners
  <2>2. \A i \in 1..(n - 1) : stack[th][i] # t
    <3> SUFFICES ASSUME NEW i \in 1..(n - 1), stack[th][i] = t PROVE FALSE
      OBVIOUS
    <3>1. i \in 1..n /\ n \in 1..n
      <4> HIDE DEF n
      <4> QED BY <1>1
    <3>2. i = n
      BY <1>1, <3>1, OneRunner
    <3> HIDE DEF n
    <3> QED BY <1>1, <3>2
  <2>3. th \notin Runners(t)'
    <3> HIDE DEF n
    <3> QED BY <1>1, <2>2 DEF Runners
  <2> QED BY <2>1, <2>3 DEF Runners
<1>4. Outcome(t)'
  BY <1>2, <1>3 DEF Outcome
<1>5. Phase(t) = "over" /\ Phase(t)' = "over"
  BY <1>2, <1>3 DEF Phase
<1>6. \A u \in Tasks : u # t => Outcome(u)' /\ Phase(u)' = Phase(u)
  <2>1. ASSUME NEW u \in Tasks, u # t PROVE \A x \in Threads : Same(x, u)
    <3>1. Same(th, u)
      BY <1>1, <2>1, SamePopped DEF Ending
    <3>2. \A x \in Threads : x # th => Same(x, u)
      BY <1>1, SameStack
    <3> QED BY <3>1, <3>2
  <2> QED BY <2>1, TaskFrame DEF Inv, OInv, OutcomeExact
<1>7. CallersHold'
  <2>1. ASSUME NEW x \in Threads, x # th
        PROVE  /\ Waits(x)' => (Agent(x) \in holders[target[x]])'
               /\ \A i \in 1..Len(stack'[x]) :
                    InPlace(x, i)' => (Caller(x, i) \in holders[stack[x][i]])'
    <3>1. /\ Agent(x)' = Agent(x) /\ Waits(x)' = Waits(x)
          /\ \A i : InPlace(x, i)' = InPlace(x, i) /\ Caller(x, i)' = Caller(x, i)
      BY <1>1, <2>1 DEF Agent, Top, InPlace, Caller, Waits
    <3> QED BY <1>1, <2>1, <3>1 DEF Inv, OInv, CallersHold
  <2>2. ~Waits(th)'
    BY DEF Waits
  <2>3. ASSUME NEW i \in 1..Len(stack'[th]), InPlace(th, i)'
        PROVE  (Caller(th, i) \in holders[stack[th][i]])'
    <3>1. i \in 1..(n - 1) /\ i \in 1..n /\ (i # 1 => i - 1 \in 1..(n - 1))
      <4> HIDE DEF n
      <4> QED BY <1>1
    <3>2. Caller(th, i) \in holders[stack[th][i]]
      BY <2>3, <3>1 DEF InPlace, Inv, OInv, CallersHold
    <3> HIDE DEF n
    <3>3. Caller(th, i)' = Caller(th, i)
      BY <1>1, <3>1 DEF Caller
    <3> QED BY <1>1, <3>1, <3>2, <3>3
  <2> QED BY <2>1, <2>2, <2>3 DEF CallersHold
<1>8. SlotsKnowHandles'
  BY DEF Inv, OInv, SlotsKnowHandles
<1> QED BY <1>4, <1>5, <1>6, <1>7, <1>8 DEF OInv, OutcomeExact, PhasesKept

LEMMA RetireQueuedStep ==
  ASSUME Inv, NEW th \in Threads, RetireQueued(th)
  PROVE  OInv' /\ Promised
<1>0. TypeOK /\ pc[th] = "retire" /\ Queued(th) /\ stack[th] # <<>>
  BY DEF RetireQueued, Inv, IInv, Control, Sound
<1>1. Top(th) \in Tasks
  BY <1>0, StackTop
<1>2. PICK t \in Tasks : t = Top(th)
  BY <1>1
<1>3. /\ pc'[th] = "resting" /\ \A x \in Threads : x # th => pc'[x] = pc[x]
      /\ stack' = [stack EXCEPT ![th] = SubSeq(@, 1, Len(@) - 1)]
      /\ UNCHANGED <<job, slot, holders, target, handed>>
      /\ \A x \in Threads : x # th => stack'[x] = stack[x]
  BY <1>0 DEF RetireQueued, TypeOK
<1>4. Runners(t) = {th} /\ Outcome(t) /\ Ended(th, t)
  BY <1>0, <1>2, TopRunner DEF Ended
<1>5. Settled(t)'
  <2>1. Settled(t)
    BY <1>0, <1>4 DEF Outcome, Closing
  <2> QED BY <1>3, <2>1 DEF Settled
<1>6. OInv' /\ PhasesKept
  BY <1>0, <1>2, <1>3, <1>5, RetireTask
<1>7. AskingKept
  <2>1. \A x \in Threads : x # th => \A u : Resolving(x, u)' <=> Resolving(x, u)
    BY <1>3, ResolvingFrame DEF Waits
  <2>2. \A u : ~Resolving(th, u) /\ ~Resolving(th, u)'
    <3>1. th \in Workers /\ Len(stack[th]) = 1 /\ Len(stack'[th]) = 0
      <4>1. Len(stack'[th]) = Len(stack[th]) - 1
        BY <1>0, <1>3, Pop DEF TypeOK
      <4> QED BY <1>0, <4>1 DEF Queued
    <3> QED BY <1>0, <1>3, <3>1 DEF Resolving
  <2> QED BY <2>1, <2>2 DEF AskingKept
<1> QED BY <1>3, <1>6, <1>7, PromiseStutter

\* The resolve that ran the task returns with its outcome.
LEMMA RetireInPlaceStep ==
  ASSUME Inv, NEW th \in Threads, RetireInPlace(th)
  PROVE  OInv' /\ Promised
<1> DEFINE n == Len(stack[th])
<1>0. TypeOK /\ pc[th] = "retire" /\ ~Queued(th) /\ stack[th] # <<>>
  BY DEF RetireInPlace, Inv, IInv, Control, Sound
<1>1. Top(th) \in Tasks
  BY <1>0, StackTop
<1>2. PICK t \in Tasks : t = Top(th)
  BY <1>1
<1>3. /\ pc'[th] = "code" /\ \A x \in Threads : x # th => pc'[x] = pc[x]
      /\ stack' = [stack EXCEPT ![th] = SubSeq(@, 1, Len(@) - 1)]
      /\ UNCHANGED <<job, slot, holders, target>>
      /\ \A x \in Threads : x # th => stack'[x] = stack[x]
      /\ handed' = [handed EXCEPT ![t] = @ + 1]
      /\ \A u \in Tasks : u # t => handed'[u] = handed[u]
  BY <1>0, <1>2 DEF RetireInPlace, TypeOK
<1>4. Runners(t) = {th} /\ Outcome(t) /\ Ended(th, t)
  BY <1>0, <1>2, TopRunner DEF Ended
<1>5. slot[t] = "Taken" /\ handed[t] = 0
  BY <1>0, <1>4 DEF Outcome, Closing
<1>6. handed' = [handed EXCEPT ![t] = 1] /\ handed'[t] = 1
  BY <1>0, <1>3, <1>5 DEF TypeOK
<1>7. Settled(t)'
  BY <1>3, <1>5, <1>6 DEF Settled
<1>8. OInv' /\ PhasesKept /\ Phase(t) = "over"
  BY <1>0, <1>2, <1>3, <1>7, RetireTask
<1>9. /\ n \in Nat /\ n >= 1 /\ stack[th][n] = t
      /\ Len(stack'[th]) = n - 1
      /\ \A i \in 1..(n - 1) : stack'[th][i] = stack[th][i]
  BY <1>0, <1>2, <1>3, StackTop, Pop DEF TypeOK, Top
<1>10. ~(th \in Workers /\ n = 1)
  BY <1>0 DEF Queued
<1>11. \A i \in 1..n : stack[th][i] = t => i = n
  <2>1. n \in 1..n
    <3> HIDE DEF n
    <3> QED BY <1>9
  <2> QED BY <1>9, <2>1, OneRunner
<1>12. \A x \in Threads : x # th => \A u : Resolving(x, u)' <=> Resolving(x, u)
  BY <1>3, ResolvingFrame DEF Waits
<1>13. \A u : Resolving(th, u)' <=> Resolving(th, u) /\ u # t
  <2>1. \A u : Resolving(th, u) <=> \E i \in 1..n : stack[th][i] = u /\ ~(th \in Workers /\ i = 1)
    BY <1>0 DEF Resolving
  <2>2. \A u : Resolving(th, u)' <=>
                 \E i \in 1..(n - 1) : stack'[th][i] = u /\ ~(th \in Workers /\ i = 1)
    BY <1>3, <1>9 DEF Resolving
  <2> HIDE DEF n
  <2>3. 1..n = 1..(n - 1) \cup {n} /\ n \notin 1..(n - 1)
    BY <1>9
  <2>4. ASSUME NEW u, Resolving(th, u)' PROVE Resolving(th, u) /\ u # t
    BY <1>9, <1>11, <2>1, <2>2, <2>3, <2>4
  <2>5. ASSUME NEW u, Resolving(th, u), u # t PROVE Resolving(th, u)'
    <3>1. PICK i \in 1..n : stack[th][i] = u /\ ~(th \in Workers /\ i = 1)
      BY <2>1, <2>5
    <3>2. i \in 1..(n - 1)
      BY <1>9, <2>3, <2>5, <3>1
    <3> QED BY <1>9, <2>2, <3>1, <3>2
  <2> QED BY <2>4, <2>5
<1>14. Resolving(th, t)
  <2>1. n \in 1..n
    <3> HIDE DEF n
    <3> QED BY <1>9
  <2> QED BY <1>9, <1>10, <2>1 DEF Resolving
<1>15. AskingKeptBut(t) /\ th \in Askers(t) /\ Askers(t)' = Askers(t) \ {th}
  BY <1>12, <1>13, <1>14 DEF AskingKeptBut, Askers
<1>16. Promised
  BY <1>5, <1>6, <1>8, <1>15, PromiseAnswer
<1> QED BY <1>8, <1>16

-----------------------------------------------------------------------------
(* Results                                                                 *)

LEMMA OutcomeStep ==
  ASSUME Inv, [Next]_vars
  PROVE  OInv' /\ Promised
BY NextCases, QuietSteps, CreateStep, ResolveInPlaceStep, TakeJobStep,
   ResolveElsewhereStep, DropSteps, TakeSlotStep, EndSteps, ReleaseOutcomeStep,
   RetireQueuedStep, RetireInPlaceStep

LEMMA InitOutcome ==
  ASSUME Init
  PROVE  OInv /\ Promise!Init
<1>1. /\ \A x \in Threads : stack[x] = <<>> /\ Len(stack[x]) = 0 /\ ~Waits(x)
      /\ \A t \in Tasks : slot[t] = "Unborn" /\ ~job[t] /\ holders[t] = {} /\ handed[t] = 0
      /\ handed = [t \in Tasks |-> 0]
  BY DEF Init, Waits
<1>2. \A t : Runners(t) = {}
  BY <1>1 DEF Runners
<1>3. OInv
  BY <1>1, <1>2 DEF OInv, CallersHold, SlotsKnowHandles, OutcomeExact, Outcome
<1>4. \A t \in Tasks : Phase(t) = "unborn"
  BY <1>1, <1>2 DEF Phase
<1>5. \A t \in Tasks : {x \in Threads : Resolving(x, t)} = {}
  BY <1>1 DEF Resolving, Waits
<1>6. Promise!Init
  BY <1>1, <1>4, <1>5 DEF Promise!Init
<1> QED BY <1>3, <1>6

\* What a slot holds, who may take it and who will: an inductive invariant.
LEMMA OutcomeInvariance == Spec => []Inv
<1>1. Init => Inv
  BY InitIInv, InitOutcome DEF Inv
<1>2. Inv /\ [Next]_vars => IInv'
  BY TypeStep, CountStep, RunStep, ControlStep DEF Inv, IInv
<1>3. Inv /\ [Next]_vars => Inv'
  BY <1>2, OutcomeStep DEF Inv
<1> QED BY <1>1, <1>3, PTL DEF Spec

\* The pool implements AsyncTask: a body runs once, a resolve returns after
\* the end of the body, one resolve gets the outcome and the others the
\* default value, and an outcome is released only when nobody asks for it.
THEOREM PoolKeepsPromise == Spec => KeepsPromise
<1>1. Init => Promise!Init
  BY InitOutcome
<1>2. Inv /\ [Next]_vars => [Promise!Next]_(Promise!vars)
  BY OutcomeStep DEF Promised
<1> QED BY <1>1, <1>2, OutcomeInvariance, PTL DEF Spec, KeepsPromise, Promise!Spec

\* A task whose closure is there stays in the queue, or with the thread that
\* popped it until that thread or a resolve takes the closure.
LEMMA ReachedStep ==
  ASSUME Inv, NoTaskForgotten, [Next]_vars
  PROVE  NoTaskForgotten'
<1>0. TypeOK /\ Workers \subseteq Threads
  BY DEF Inv, IInv, Threads
<1> DEFINE InQueue(u) == \E i \in 1..Len(queue) : queue[i] = u
           Popped(u) == \E w \in Workers : pc[w] = "taking" /\ target[w] = u
<1>1. \A u \in Tasks : job[u] => InQueue(u) \/ Popped(u)
  BY DEF NoTaskForgotten
<1>2. ASSUME \A u \in Tasks : job'[u] => job[u], queue' = queue,
             \A w \in Workers : pc[w] = "taking" => pc'[w] = "taking" /\ target'[w] = target[w]
      PROVE  NoTaskForgotten'
  BY <1>1, <1>2 DEF NoTaskForgotten
<1>3. ASSUME NEW th \in Threads, NEW t \in Tasks, SpawnToIdle(th, t) \/ SpawnNewThread(th, t)
      PROVE  NoTaskForgotten'
  <2>1. /\ queue' = Append(queue, t) /\ target' = target /\ pc[th] = "code"
        /\ \A u \in Tasks : u # t => (job'[u] <=> job[u])
        /\ \A x \in Threads : x # th => pc'[x] = pc[x]
    BY <1>0, <1>3 DEF SpawnToIdle, SpawnNewThread, Created, TypeOK
  <2>2. /\ Len(queue') = Len(queue) + 1 /\ Len(queue) \in Nat /\ queue'[Len(queue) + 1] = t
        /\ \A i \in 1..Len(queue) : queue'[i] = queue[i]
    BY <1>0, <2>1, Push DEF TypeOK
  <2>3. InQueue(t)'
    <3>1. Len(queue) + 1 \in 1..Len(queue')
      BY <2>2
    <3> QED BY <2>2, <3>1
  <2>4. \A u : InQueue(u) => InQueue(u)'
    <3>1. 1..Len(queue) \subseteq 1..Len(queue')
      BY <2>2
    <3> QED BY <2>2, <3>1
  <2>5. \A u : Popped(u) => Popped(u)'
    BY <1>0, <2>1
  <2> HIDE DEF InQueue, Popped
  <2>6. \A u \in Tasks : job'[u] => InQueue(u)' \/ Popped(u)'
    BY <1>1, <2>1, <2>3, <2>4, <2>5
  <2> QED BY <2>6 DEF InQueue, Popped, NoTaskForgotten
<1>4. ASSUME NEW w \in Workers, FirstPop(w) \/ WakeUp(w) PROVE NoTaskForgotten'
  <2>1. CASE queue = <<>>
    BY <1>0, <1>2, <1>4, <2>1 DEF FirstPop, WakeUp, taskVars, TypeOK
  <2>2. CASE queue # <<>>
    <3>1. /\ queue' = Tail(queue) /\ pc'[w] = "taking" /\ target'[w] = Head(queue)
          /\ job' = job /\ pc[w] # "taking"
          /\ \A x \in Threads : x # w => pc'[x] = pc[x] /\ target'[x] = target[x]
      BY <1>0, <1>4, <2>2 DEF FirstPop, WakeUp, taskVars, TypeOK
    <3>2. /\ Len(queue) \in Nat /\ Len(queue) # 0 /\ Len(queue') = Len(queue) - 1
          /\ Head(queue) = queue[1]
          /\ \A i \in 1..Len(queue') : queue'[i] = queue[i + 1]
      BY <1>0, <2>2, <3>1, EmptySeq DEF TypeOK
    <3>3. \A u : u = queue[1] => Popped(u)'
      BY <3>1, <3>2
    <3>4. \A u \in Tasks : InQueue(u) => InQueue(u)' \/ Popped(u)'
      <4> SUFFICES ASSUME NEW u \in Tasks, InQueue(u) PROVE InQueue(u)' \/ Popped(u)'
        OBVIOUS
      <4>1. PICK i \in 1..Len(queue) : queue[i] = u
        OBVIOUS
      <4>2. CASE i = 1
        BY <3>3, <4>1, <4>2
      <4>3. CASE i # 1
        <5>1. i - 1 \in 1..Len(queue') /\ (i - 1) + 1 = i
          BY <3>2, <4>3
        <5> QED BY <3>2, <4>1, <5>1
      <4> QED BY <4>2, <4>3
    <3>5. \A u : Popped(u) => Popped(u)'
      BY <1>0, <3>1
    <3> HIDE DEF InQueue, Popped
    <3>6. \A u \in Tasks : job'[u] => InQueue(u)' \/ Popped(u)'
      BY <1>1, <3>1, <3>4, <3>5
    <3> QED BY <3>6 DEF InQueue, Popped, NoTaskForgotten
  <2> QED BY <2>1, <2>2
<1>5. ASSUME NEW w \in Workers, TakeJob(w) \/ MissJob(w) PROVE NoTaskForgotten'
  <2>1. target[w] \in Tasks
    BY <1>0, <1>5 DEF TakeJob, MissJob, Inv, IInv, Control, Sound
  <2>2. /\ queue' = queue /\ ~job'[target[w]]
        /\ \A u \in Tasks : job'[u] => job[u]
        /\ \A x \in Threads : x # w => pc'[x] = pc[x] /\ target'[x] = target[x]
    BY <1>0, <1>5, <2>1 DEF TakeJob, MissJob, poolVars, taskVars, TypeOK
  <2>3. \A u \in Tasks : job'[u] /\ Popped(u) => Popped(u)'
    BY <1>0, <2>2
  <2>4. \A u : InQueue(u) => InQueue(u)'
    BY <2>2
  <2> HIDE DEF InQueue, Popped
  <2>5. \A u \in Tasks : job'[u] => InQueue(u)' \/ Popped(u)'
    BY <1>1, <2>2, <2>3, <2>4
  <2> QED BY <2>5 DEF InQueue, Popped, NoTaskForgotten
<1>6. ASSUME NEW th \in Threads, NEW t \in Tasks,
             ResolveInPlace(th, t) \/ ResolveElsewhere(th, t)
      PROVE  NoTaskForgotten'
  BY <1>0, <1>2, <1>6
     DEF ResolveInPlace, ResolveElsewhere, MayResolve, poolVars, taskVars, TypeOK
<1>7. ASSUME NEW t \in Tasks, \/ \E th \in Threads : BodyDrop(th, t)
                              \/ \E c \in Clients : ClientDrop(c, t)
      PROVE  NoTaskForgotten'
  BY <1>2, <1>7 DEF BodyDrop, ClientDrop, Dropped, poolVars
<1>8. ASSUME NEW c \in Clients, NEW d \in Clients, NEW t \in Tasks, Share(c, d, t)
      PROVE  NoTaskForgotten'
  BY <1>2, <1>8 DEF Share, poolVars
<1>9. ASSUME NEW th \in Threads, NEW w \in Workers, StartWorker(th, w)
      PROVE  NoTaskForgotten'
  BY <1>0, <1>2, <1>9 DEF StartWorker, poolVars, taskVars, TypeOK
<1>10. ASSUME NEW th \in Threads, Sleep(th) \/ SpuriousWake(th) \/ BodyRaise(th)
       PROVE  NoTaskForgotten'
  BY <1>0, <1>2, <1>10 DEF Sleep, SpuriousWake, BodyRaise, poolVars, taskVars, TypeOK
<1>11. ASSUME NEW th \in Threads, TakeSlot(th) PROVE NoTaskForgotten'
  BY <1>0, <1>2, <1>11 DEF TakeSlot, poolVars, TypeOK
<1>12. ASSUME NEW th \in Threads, StoreOutcome(th) PROVE NoTaskForgotten'
  <2>1. \A x \in Threads : pc[x] = "taking" => pc'[x] = "taking"
    <3>1. pc[th] = "code"
      BY <1>12 DEF StoreOutcome, BodyOver, InBody
    <3> QED BY <1>0, <1>12, <3>1, WokenType DEF StoreOutcome
  <2> QED BY <1>0, <1>2, <1>12, <2>1 DEF StoreOutcome, poolVars
<1>13. ASSUME NEW th \in Threads,
              \/ FindAbandoned(th) \/ ReleaseOutcome(th) \/ MarkTaken(th)
              \/ RetireQueued(th) \/ RetireInPlace(th)
       PROVE  NoTaskForgotten'
  BY <1>0, <1>2, <1>13
     DEF FindAbandoned, ReleaseOutcome, MarkTaken, RetireQueued, RetireInPlace,
         BodyOver, InBody, poolVars, taskVars, TypeOK
<1>14. ASSUME NEW w \in Workers, GoIdle(w) \/ TimeOut(w) PROVE NoTaskForgotten'
  BY <1>0, <1>2, <1>14 DEF GoIdle, TimeOut, taskVars, TypeOK
<1>15. CASE UNCHANGED vars
  BY <1>2, <1>15 DEF vars
<1> QED BY <1>3, <1>4, <1>5, <1>6, <1>7, <1>8, <1>9, <1>10, <1>11, <1>12, <1>13, <1>14,
           <1>15, NextCases

\* What becomes of a task that is over: its outcome was given or released
\* once, or is in the slot of a handle that somebody has.
LEMMA OverAccounted ==
  ASSUME Inv, NEW t \in Tasks, slot[t] # "Unborn", ~job[t], Runners(t) = {}
  PROVE  IF slot[t] = "Done" THEN handed[t] = 0 /\ holders[t] # {} ELSE handed[t] = 1
<1>1. Settled(t)
  BY DEF Inv, OInv, OutcomeExact, Outcome
<1>2. slot[t] = "Done" => holders[t] # {}
  BY DEF Inv, OInv, SlotsKnowHandles
<1> QED BY <1>1, <1>2 DEF Settled

\* No task is lost by the pool, however resolves, wake-ups and timeouts race;
\* an abandoned task leaves no outcome behind; and when PENDING is down to
\* zero, which is all that `settle` waits for, no task is running and the
\* outcome of each is given, released or in reach of its handle.
THEOREM OutcomesAccounted == Spec => []TasksAccounted
<1>1. Init => NoTaskForgotten
  BY DEF Init, NoTaskForgotten
<1>2. Spec => []NoTaskForgotten
  BY <1>1, ReachedStep, OutcomeInvariance, PTL DEF Spec
<1>3. Inv => AbandonedReleased
  <2> SUFFICES ASSUME Inv, NEW t \in Tasks, slot[t] # "Unborn", holders[t] = {}, ~job[t],
                      Runners(t) = {}
               PROVE  handed[t] = 1
    BY DEF AbandonedReleased
  <2> QED BY OverAccounted DEF Inv, OInv, SlotsKnowHandles
<1>4. Inv => SettledMeansAccounted
  <2> SUFFICES ASSUME Inv, pending = 0, NEW t \in Tasks, slot[t] # "Unborn"
               PROVE  /\ Runners(t) = {}
                      /\ IF slot[t] = "Done" THEN handed[t] = 0 /\ holders[t] # {}
                                             ELSE handed[t] = 1
    BY DEF SettledMeansAccounted
  <2>1. IsFiniteSet(Open)
    BY ThreadsFinite, FS_Subset DEF Open
  <2>2. Open = {}
    BY <2>1, FS_EmptySet DEF Inv, IInv, PendingExact
  <2>3. ~job[t] /\ Runners(t) = {}
    BY <2>2 DEF Open
  <2> QED BY <2>3, OverAccounted
<1>5. Inv => AbandonedReleased /\ SettledMeansAccounted
  BY <1>3, <1>4
<1>6. NoTaskForgotten /\ AbandonedReleased /\ SettledMeansAccounted => TasksAccounted
  BY DEF TasksAccounted
<1> QED BY <1>2, <1>5, <1>6, OutcomeInvariance, PTL

\* The outcome of a task is given to one resolve or released, never both and
\* never twice, whatever the order of the resolves, of the last release of the
\* handle and of the end of the task.
THEOREM OutcomeGivenOnce == Spec => []OutcomeOnce
<1>1. Inv => OutcomeOnce
  <2> SUFFICES ASSUME Inv, NEW t \in Tasks PROVE handed[t] <= 1
    BY DEF OutcomeOnce
  <2>1. Outcome(t)
    BY DEF Inv, OInv, OutcomeExact
  <2>2. CASE Runners(t) = {}
    BY <2>1, <2>2 DEF Outcome, Awaited, Settled
  <2>3. CASE Runners(t) # {}
    <3>1. PICK th : th \in Runners(t)
      BY <2>3
    <3> QED BY <2>1, <3>1 DEF Outcome, Awaited, Closing, Settled
  <2> QED BY <2>2, <2>3
<1> QED BY <1>1, OutcomeInvariance, PTL

\* Once a resolve or the last release of the handle emptied the slot, no late
\* end of the task fills it again, and nobody resolves an abandoned task.
THEOREM SlotsMonotone == Spec => SlotMonotone
<1> DEFINE Good == \A t \in Tasks :
              /\ slot[t] \in {"Taken", "Abandoned"} => slot'[t] \in {"Taken", "Abandoned"}
              /\ slot[t] = "Abandoned" => slot'[t] = "Abandoned"
<1>1. ASSUME Inv, [Next]_vars PROVE Good
  <2>0. TypeOK
    BY <1>1 DEF Inv, IInv
  <2>1. ASSUME NEW th \in Threads, NEW t \in Tasks, SpawnToIdle(th, t) \/ SpawnNewThread(th, t)
        PROVE  Good
    BY <2>0, <2>1 DEF SpawnToIdle, SpawnNewThread, Created, TypeOK
  <2>2. ASSUME NEW a, NEW t \in Tasks, Dropped(a, t) PROVE Good
    BY <2>0, <2>2 DEF Dropped, TypeOK
  <2>3. ASSUME NEW th \in Threads, TakeSlot(th) PROVE Good
    <3>1. target[th] \in Tasks /\ Resolving(th, target[th])
      BY <1>1, <2>3 DEF TakeSlot, Resolving, Inv, IInv, Control, Sound
    <3>2. slot[target[th]] # "Abandoned"
      BY <1>1, <3>1, ResolverHolds
    <3> QED BY <2>0, <2>3, <3>2 DEF TakeSlot, TypeOK
  <2>4. ASSUME NEW th \in Threads, StoreOutcome(th) \/ MarkTaken(th) PROVE Good
    <3>1. /\ pc[th] = "code" /\ stack[th] # <<>>
      BY <2>4 DEF StoreOutcome, MarkTaken, BodyOver, InBody
    <3>2. PICK t \in Tasks : t = Top(th)
      BY <2>0, <3>1, StackTop
    <3>3. Awaited(t)
      <4>1. th \in Runners(t) /\ ~Ended(th, t) /\ Outcome(t)
        BY <1>1, <3>1, <3>2, TopRunner DEF Ended
      <4> QED BY <4>1 DEF Outcome
    <3>4. CASE StoreOutcome(th)
      BY <2>0, <3>2, <3>3, <3>4 DEF StoreOutcome, Awaited, TypeOK
    <3>5. CASE MarkTaken(th)
      <4>1. Len(stack[th]) \in 1..Len(stack[th]) /\ stack[th][Len(stack[th])] = t
        BY <2>0, <3>1, <3>2, StackTop DEF Top
      <4>2. Resolving(th, t)
        BY <3>5, <4>1 DEF MarkTaken, Queued, Resolving
      <4>3. slot[t] # "Abandoned"
        BY <1>1, <4>2, ResolverHolds
      <4> QED BY <2>0, <3>2, <3>5, <4>3 DEF MarkTaken, TypeOK
    <3> QED BY <2>4, <3>4, <3>5
  <2>5. ASSUME slot' = slot PROVE Good
    BY <2>5
  <2> HIDE DEF Good
  <2> QED BY <1>1, <2>1, <2>2, <2>3, <2>4, <2>5, NextCases
       DEF ResolveInPlace, ResolveElsewhere, BodyDrop, ClientDrop, StartWorker, Sleep,
           SpuriousWake, BodyRaise, FindAbandoned, ReleaseOutcome, RetireQueued,
           RetireInPlace, FirstPop, TakeJob, MissJob, GoIdle, WakeUp, TimeOut, Share,
           poolVars, taskVars, vars
<1> QED BY <1>1, OutcomeInvariance, PTL DEF Spec, SlotMonotone
=============================================================================
