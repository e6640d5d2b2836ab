----------------------------- MODULE ParkProofs -----------------------------
(***************************************************************************)
(* Who runs while the collector runs, for every number of threads of the   *)
(* program and of threads that call it.                                    *)
(***************************************************************************)
EXTENDS Park, FiniteSetTheorems, TLAPS

-----------------------------------------------------------------------------
(* The inductive invariant                                                 *)

\* StopTheWorld is not inductive: Decide needs RUNNING to be exact, and the
\* threads that come back need EXCLUSIVE to stay set, which depends on there
\* being a single collection.
IInv == TypeOK /\ RunningExact /\ OneCollection /\ ExclusiveOwned /\ StopTheWorld

-----------------------------------------------------------------------------
(* How a step changes the set of counted threads                           *)

LEMMA CountedFinite == IsFiniteSet(Threads) /\ IsFiniteSet(Counted)
<1>1. IsFiniteSet({Main} \cup Own)
  BY ThreadsAssumption, FS_Singleton, FS_Union
<1>2. IsFiniteSet(Threads)
  BY <1>1, ThreadsAssumption, FS_Union DEF Threads
<1> QED BY <1>2, FS_Subset DEF Counted

\* RUNNING goes up by one when one more thread is counted...
LEMMA CountUp ==
  ASSUME TypeOK, RunningExact, NEW th \in Threads, th \notin Counted,
         Counted' = Counted \cup {th}, running' = running + 1
  PROVE  RunningExact' /\ running' \in Nat
<1> DEFINE A == Counted
           B == Counted'
<1>1. Cardinality(A \cup {th}) = Cardinality(A) + 1
  BY CountedFinite, FS_AddElement
<1>2. running = Cardinality(A) /\ running \in Nat
  BY DEF RunningExact, TypeOK
<1>3. B = A \cup {th}
  OBVIOUS
<1>4. running' = Cardinality(B)
  <2> HIDE DEF A, B
  <2> QED BY <1>1, <1>2, <1>3
<1> QED BY <1>2, <1>4 DEF RunningExact

\* ...and down by one when one less is.
LEMMA CountDown ==
  ASSUME TypeOK, RunningExact, NEW th \in Threads, th \in Counted,
         Counted' = Counted \ {th}, running' = running - 1
  PROVE  RunningExact' /\ running' \in Nat
<1> DEFINE A == Counted
           B == Counted'
<1>1. Cardinality(A \ {th}) = Cardinality(A) - 1
  BY CountedFinite, FS_RemoveElement
<1>2. running = Cardinality(A)
  BY DEF RunningExact
<1>3. B = A \ {th} /\ IsFiniteSet(B)
  BY CountedFinite, FS_RemoveElement
<1>4. running' = Cardinality(B) /\ Cardinality(B) \in Nat
  <2>1. Cardinality(B) \in Nat
    BY <1>3, FS_CardinalityType
  <2> HIDE DEF A, B
  <2> QED BY <1>1, <1>2, <1>3, <2>1
<1> QED BY <1>4 DEF RunningExact

LEMMA CountSame ==
  ASSUME TypeOK, RunningExact, Counted' = Counted, running' = running
  PROVE  RunningExact' /\ running' \in Nat
BY DEF RunningExact, TypeOK

\* A collection that finds RUNNING at 1 is the only counted thread.
LEMMA AloneMeansAlone ==
  ASSUME TypeOK, RunningExact, running = 1, NEW c \in Threads, c \in Counted
  PROVE  \A th \in Threads \ {c} : pc[th] \notin Probing \cup Busy
<1>1. PICK x : Counted = {x}
  BY CountedFinite, FS_Singleton DEF RunningExact
<1> QED BY <1>1 DEF Counted

-----------------------------------------------------------------------------
(* Steps                                                                   *)

LEMMA InitInv == Init => IInv
<1> SUFFICES ASSUME Init PROVE IInv
  OBVIOUS
<1> USE DEF Init
<1>1. TypeOK
  <2>1. Main \in Threads /\ 0 \in 0..MaxCollections
    BY BoundAssumption DEF Threads
  <2>2. pc \in [Threads -> PCs]
    BY DEF PCs, Outside, Probing, Busy
  <2>3. /\ refs \in [Threads -> {0, 1}] /\ seen \in [Threads -> Int]
        /\ hire \in [Threads -> Threads]
    BY <2>1
  <2>4. running \in Nat /\ count \in Int /\ done \in 0..MaxCollections
    BY <2>1
  <2>5. exclusive \in BOOLEAN /\ collecting \in BOOLEAN /\ multi \in BOOLEAN
    OBVIOUS
  <2> QED BY <2>2, <2>3, <2>4, <2>5 DEF TypeOK
<1>2. RunningExact
  <2>1. Counted = {Main}
    BY DEF Counted, Probing, Busy, Threads
  <2> QED BY <2>1, FS_Singleton DEF RunningExact
<1>3. OneCollection /\ ExclusiveOwned /\ StopTheWorld
  BY DEF OneCollection, ExclusiveOwned, StopTheWorld, Collector
<1> QED BY <1>1, <1>2, <1>3 DEF IInv

USE DEF PCs, Outside, Probing, Busy

\* RUNNING follows the threads through every step.
LEMMA StepCounts ==
  ASSUME IInv, NEW th \in Threads,
         \/ Counting(th) \/ Creating(th) \/ Living(th)
         \/ Park(th) \/ Wake(th) \/ Resuming(th)
         \/ BackPressure(th) \/ PassGate(th) \/ Claim(th) \/ Unfull(th) \/ Collecting(th)
  PROVE  RunningExact' /\ running' \in Nat
<1> USE DEF IInv
<1> DEFINE Same == Counted' = Counted /\ running' = running
<1>0. pc \in [Threads -> PCs] /\ hire \in [Threads -> Threads]
  BY DEF TypeOK
<1>same. ASSUME Same PROVE RunningExact' /\ running' \in Nat
  BY <1>same, CountSame
<1>1. CASE Counting(th)
  <2>1. Same
    BY <1>0, <1>1 DEF Counting, AddAtomic, AddLoad, AddStore, Goto, Counted
  <2> QED BY <2>1, <1>same
<1>2. CASE Announce(th) \/ Hire(th) \/ Created(th)
  <2>1. Same
    BY <1>0, <1>2 DEF Announce, Hire, Created, Counted, Threads
  <2> QED BY <2>1, <1>same
<1>3. CASE Guard(th)
  <2>1. Counted' = Counted \cup {hire[th]} /\ hire[th] \notin Counted
    BY <1>0, <1>3 DEF Guard, Counted
  <2> QED BY <2>1, <1>0, <1>3, CountUp DEF Guard
<1>4. CASE SpawnFails(th)
  <2>1. Counted' = Counted \ {hire[th]} /\ hire[th] \in Counted
    BY <1>0, <1>4 DEF SpawnFails, Counted
  <2> QED BY <2>1, <1>0, <1>4, CountDown DEF SpawnFails
<1>5. CASE StartOwn(th) \/ Enter(th)
  <2>1. Same
    BY <1>0, <1>5 DEF StartOwn, Enter, Goto, Counted
  <2> QED BY <2>1, <1>same
<1>6. CASE EndOwn(th) \/ LeaveForeign(th) \/ Park(th) \/ Undo(th)
  <2>1. Counted' = Counted \ {th} /\ th \in Counted
    BY <1>0, <1>6 DEF EndOwn, LeaveForeign, Park, Undo, Goto, Counted
  <2>2. running' = running - 1
    BY <1>6 DEF EndOwn, LeaveForeign, Park, Undo
  <2> QED BY <2>1, <2>2, CountDown
<1>7. CASE Raise(th)
  <2>1. Counted' = Counted \cup {th} /\ th \notin Counted
    BY <1>0, <1>7 DEF Raise, Goto, Counted
  <2> QED BY <2>1, <1>7, CountUp DEF Raise
<1>8. CASE Wake(th) \/ Probe(th) \/ Respin(th)
  <2>1. Same
    BY <1>0, <1>8 DEF Wake, Probe, Respin, Goto, Counted
  <2> QED BY <2>1, <1>same
<1>9. CASE BackPressure(th) \/ PassGate(th) \/ Claim(th) \/ Unfull(th)
  <2>1. Same
    BY <1>0, <1>9 DEF BackPressure, PassGate, Claim, Unfull, Goto, Counted
  <2> QED BY <2>1, <1>same
<1>10. CASE Collecting(th)
  <2>1. Same
    BY <1>0, <1>10 DEF Collecting, Stop, Decide, GiveUp, Reopen, EndBeside,
                       Close, Goto, Counted
  <2> QED BY <2>1, <1>same
<1> QED BY <1>1, <1>2, <1>3, <1>4, <1>5, <1>6, <1>7, <1>8, <1>9, <1>10
        DEF Creating, Living, Resuming

\* Every variable keeps its type.
LEMMA StepTypes ==
  ASSUME IInv, running' \in Nat, NEW th \in Threads,
         \/ Counting(th) \/ Creating(th) \/ Living(th)
         \/ Park(th) \/ Wake(th) \/ Resuming(th)
         \/ BackPressure(th) \/ PassGate(th) \/ Claim(th) \/ Unfull(th) \/ Collecting(th)
  PROVE  TypeOK'
<1> USE DEF IInv, TypeOK, counters
<1>0. Delta(th) \in Int /\ refs[th] + Delta(th) \in {0, 1}
  BY DEF Delta
<1>00. Own \subseteq Threads
  BY DEF Threads
<1>1. CASE Counting(th)
  BY <1>0, <1>1 DEF Counting, AddAtomic, AddLoad, AddStore, Goto
<1>2. CASE Announce(th)
  BY <1>2 DEF Announce
<1>2a. CASE Hire(th)
  <2>1. PICK child \in Own :
          /\ pc' = [pc EXCEPT ![th] = "hiring", ![child] = "booked"]
          /\ hire' = [hire EXCEPT ![th] = child]
    BY <1>2a DEF Hire
  <2>2. child \in Threads
    BY <1>00
  <2>3. hire' \in [Threads -> Threads] /\ pc' \in [Threads -> PCs]
    BY <2>1, <2>2
  <2> QED BY <2>3, <1>2a DEF Hire
<1>3. CASE Created(th) \/ Guard(th) \/ SpawnFails(th)
  BY <1>3 DEF Created, Guard, SpawnFails
<1>4. CASE Living(th) \/ Park(th) \/ Wake(th) \/ Resuming(th)
  BY <1>4 DEF Living, StartOwn, EndOwn, Enter, LeaveForeign, Park, Wake,
              Resuming, Raise, Probe, Undo, Respin, Goto
<1>5. CASE BackPressure(th) \/ PassGate(th) \/ Unfull(th) \/ Collecting(th)
  BY <1>5 DEF BackPressure, PassGate, Unfull, Collecting, Stop, Decide, GiveUp, Reopen,
              EndBeside, Close, Goto
<1>6. CASE Claim(th)
  <2>1. done' \in 0..MaxCollections
    BY <1>6, BoundAssumption DEF Claim
  <2> QED BY <1>6, <2>1 DEF Claim
<1> QED BY <1>1, <1>2, <1>2a, <1>3, <1>4, <1>5, <1>6 DEF Creating

\* The collector of the moment, and what EXCLUSIVE says of it.
LEMMA StepCollector ==
  ASSUME IInv, NEW th \in Threads,
         \/ Counting(th) \/ Creating(th) \/ Living(th)
         \/ Park(th) \/ Wake(th) \/ Resuming(th)
         \/ BackPressure(th) \/ PassGate(th) \/ Claim(th) \/ Unfull(th) \/ Collecting(th)
  PROVE  OneCollection' /\ ExclusiveOwned'
<1> USE DEF IInv, OneCollection, ExclusiveOwned, Collector
<1>0. /\ pc \in [Threads -> PCs] /\ hire \in [Threads -> Threads]
      /\ exclusive \in BOOLEAN /\ collecting \in BOOLEAN
  BY DEF TypeOK
<1> DEFINE Stopped(c) == pc[c] \in {"stopping", "alone", "giveup"}
           Quiet == /\ \A c \in Threads : pc[c] \in Collector \/ pc'[c] \in Collector
                                             => pc'[c] = pc[c]
                    /\ UNCHANGED <<exclusive, collecting>>
\* A step that moves no collector changes neither fact.
<1>quiet. ASSUME Quiet PROVE OneCollection' /\ ExclusiveOwned'
  BY <1>0, <1>quiet
<1>1. CASE Counting(th)
  <2>1. Quiet
    BY <1>0, <1>1 DEF Counting, AddAtomic, AddLoad, AddStore, Goto
  <2> QED BY <2>1, <1>quiet
<1>2. CASE Creating(th)
  <2>1. Quiet
    BY <1>0, <1>2 DEF Creating, Announce, Hire, Guard, Created, SpawnFails, Threads
  <2> QED BY <2>1, <1>quiet
<1>3. CASE Living(th) \/ Park(th) \/ Wake(th) \/ Resuming(th)
  <2>1. Quiet
    BY <1>0, <1>3 DEF Living, StartOwn, EndOwn, Enter, LeaveForeign, Park, Wake,
                      Resuming, Raise, Probe, Undo, Respin, Goto
  <2> QED BY <2>1, <1>quiet
<1>4. CASE BackPressure(th) \/ PassGate(th) \/ Unfull(th)
  <2>1. Quiet
    BY <1>0, <1>4 DEF BackPressure, PassGate, Unfull, Goto
  <2> QED BY <2>1, <1>quiet
<1>5. CASE Claim(th)
  BY <1>0, <1>5 DEF Claim
<1>6. CASE Stop(th)
  BY <1>0, <1>6 DEF Stop, Goto
<1>7. CASE Decide(th)
  BY <1>0, <1>7 DEF Decide
<1>8. CASE GiveUp(th) \/ Reopen(th)
  BY <1>0, <1>8 DEF GiveUp, Reopen, Goto
<1>9. CASE EndBeside(th) \/ Close(th)
  BY <1>0, <1>9 DEF EndBeside, Close, Goto
<1> QED BY <1>1, <1>2, <1>3, <1>4, <1>5, <1>6, <1>7, <1>8, <1>9 DEF Collecting

\* While a collection is alone, nobody starts to touch values.
LEMMA StepStops ==
  ASSUME IInv, NEW th \in Threads,
         \/ Counting(th) \/ Creating(th) \/ Living(th)
         \/ Park(th) \/ Wake(th) \/ Resuming(th)
         \/ BackPressure(th) \/ PassGate(th) \/ Claim(th) \/ Unfull(th) \/ Collecting(th)
  PROVE  StopTheWorld'
<1> USE DEF IInv, StopTheWorld
<1>0. /\ pc \in [Threads -> PCs] /\ hire \in [Threads -> Threads]
      /\ exclusive \in BOOLEAN
  BY DEF TypeOK
<1> DEFINE Still == /\ \A c \in Threads : pc'[c] = "alone" => pc[c] = "alone"
                    /\ \A c \in Threads \ {th} : pc[c] = "alone" =>
                         exclusive' /\ \A u \in Threads : pc'[u] \in Busy
                                                            => pc[u] \in Busy
                    /\ pc[th] = "alone" => pc' = pc /\ exclusive' = exclusive
\* A step that lets nobody in keeps the world stopped.
<1>still. ASSUME Still PROVE StopTheWorld'
  BY <1>0, <1>still
<1>1. CASE Counting(th)
  <2>1. Still
    BY <1>0, <1>1 DEF Counting, AddAtomic, AddLoad, AddStore, Goto
  <2> QED BY <2>1, <1>still
<1>2. CASE Creating(th)
  <2>1. Still
    BY <1>0, <1>2 DEF Creating, Announce, Hire, Guard, Created, SpawnFails, Threads
  <2> QED BY <2>1, <1>still
<1>3. CASE Living(th) \/ Park(th) \/ Wake(th) \/ Resuming(th)
  <2>1. Still
    BY <1>0, <1>3 DEF Living, StartOwn, EndOwn, Enter, LeaveForeign, Park, Wake,
                      Resuming, Raise, Probe, Undo, Respin, Goto
  <2> QED BY <2>1, <1>still
<1>4. CASE BackPressure(th) \/ PassGate(th) \/ Unfull(th) \/ Claim(th)
  <2>1. Still
    BY <1>0, <1>4 DEF BackPressure, PassGate, Unfull, Claim, Goto
  <2> QED BY <2>1, <1>still
<1>5. CASE Decide(th)
  <2>1. CASE running = 1
    <3>1. th \in Counted /\ exclusive
      BY <1>5 DEF Decide, Counted, ExclusiveOwned
    <3>2. \A u \in Threads \ {th} : pc[u] \notin Probing \cup Busy
      BY <2>1, <3>1, AloneMeansAlone
    <3> QED BY <1>0, <1>5, <2>1, <3>1, <3>2 DEF Decide
  <2>2. CASE running # 1
    <3>1. Still
      BY <1>0, <1>5, <2>2 DEF Decide
    <3> QED BY <3>1, <1>still
  <2> QED BY <2>1, <2>2
<1>6. CASE Reopen(th)
  BY <1>0, <1>6 DEF Reopen, Goto
<1>7. CASE Stop(th) \/ GiveUp(th) \/ EndBeside(th) \/ Close(th)
  <2>1. Still
    BY <1>0, <1>7 DEF Stop, GiveUp, EndBeside, Close, Goto
  <2> QED BY <2>1, <1>still
<1> QED BY <1>1, <1>2, <1>3, <1>4, <1>5, <1>6, <1>7 DEF Collecting

LEMMA StepInv == IInv /\ [Next]_vars => IInv'
<1> SUFFICES ASSUME IInv, [Next]_vars PROVE IInv'
  OBVIOUS
<1>1. CASE Next
  <2>1. PICK th \in Threads :
          \/ Counting(th) \/ Creating(th) \/ Living(th)
          \/ Park(th) \/ Wake(th) \/ Resuming(th)
          \/ BackPressure(th) \/ PassGate(th) \/ Claim(th) \/ Unfull(th) \/ Collecting(th)
    BY <1>1 DEF Next
  <2>2. RunningExact' /\ running' \in Nat
    BY <2>1, StepCounts
  <2>3. TypeOK'
    BY <2>1, <2>2, StepTypes
  <2>4. OneCollection' /\ ExclusiveOwned'
    BY <2>1, StepCollector
  <2>5. StopTheWorld'
    BY <2>1, StepStops
  <2> QED BY <2>2, <2>3, <2>4, <2>5 DEF IInv
<1>2. CASE UNCHANGED vars
  BY <1>2 DEF vars, IInv, TypeOK, RunningExact, Counted, OneCollection,
              ExclusiveOwned, StopTheWorld
<1> QED BY <1>1, <1>2

-----------------------------------------------------------------------------
(* Theorems                                                                *)

\* The strengthened invariant holds in every reachable state.
THEOREM Invariance == Spec => []IInv
BY InitInv, StepInv, PTL DEF Spec

\* The counters keep their types: RUNNING is never decremented below zero.
THEOREM TypeCorrect == Spec => []TypeOK
<1>1. IInv => TypeOK
  BY DEF IInv
<1> QED BY Invariance, <1>1, PTL

\* A collection that works in place is the only thread that runs, however
\* park, resume, enter and the creation of threads interleave with it.
THEOREM CollectorAlone == Spec => []StopTheWorld
<1>1. IInv => StopTheWorld
  BY DEF IInv
<1> QED BY Invariance, <1>1, PTL

\* RUNNING is exact, collections exclude each other and EXCLUSIVE is never
\* left set.
THEOREM CollectorFlags == Spec => []FlagsExact
<1>1. IInv => FlagsExact
  BY DEF IInv, FlagsExact
<1> QED BY Invariance, <1>1, PTL

-----------------------------------------------------------------------------
(* Counts                                                                  *)

Referring == {th \in Threads : refs[th] = 1}

\* As long as MULTI_THREADED is not set, Main is the only thread there is:
\* what it loaded is still the count when it stores.
SoleThread == ~multi => \A th \in Threads \ {Main} : pc[th] = "absent"
LoadedFresh == \A th \in Threads : pc[th] = "plain" => ~multi /\ seen[th] = count

CountInv == TypeOK /\ SoleThread /\ LoadedFresh /\ CountExact

\* Adding Delta to the count keeps up with the reference gained or lost.
LEMMA CountFollows ==
  ASSUME TypeOK, CountExact, NEW th \in Threads,
         refs' = [refs EXCEPT ![th] = @ + Delta(th)],
         count' = count + Delta(th)
  PROVE  CountExact'
<1> DEFINE A == Referring
           B == Referring'
<1>0. refs \in [Threads -> {0, 1}] /\ count = Cardinality(A) /\ count \in Int
  BY DEF TypeOK, CountExact, Referring
<1>1. IsFiniteSet(A)
  BY CountedFinite, FS_Subset DEF Referring
<1>2. CASE refs[th] = 0
  <2>1. B = A \cup {th} /\ th \notin A
    BY <1>0, <1>2 DEF Referring, Delta
  <2>2. Cardinality(A \cup {th}) = Cardinality(A) + 1
    BY <1>1, <2>1, FS_AddElement
  <2>3. count' = count + 1
    BY <1>2 DEF Delta
  <2>4. count' = Cardinality(B)
    <3> HIDE DEF A, B
    <3> QED BY <1>0, <2>1, <2>2, <2>3
  <2> QED BY <2>4 DEF CountExact, Referring
<1>3. CASE refs[th] = 1
  <2>1. B = A \ {th} /\ th \in A
    BY <1>0, <1>3 DEF Referring, Delta
  <2>2. Cardinality(A \ {th}) = Cardinality(A) - 1
    BY <1>1, <2>1, FS_RemoveElement
  <2>3. count' = count - 1
    BY <1>0, <1>3 DEF Delta
  <2>4. count' = Cardinality(B)
    <3> HIDE DEF A, B
    <3> QED BY <1>0, <2>1, <2>2, <2>3
  <2> QED BY <2>4 DEF CountExact, Referring
<1> QED BY <1>0, <1>2, <1>3

LEMMA StepCountInv ==
  ASSUME Announced, CountInv, TypeOK', [Next]_vars
  PROVE  CountInv'
<1> USE DEF CountInv
<1>0. pc \in [Threads -> PCs] /\ hire \in [Threads -> Threads] /\ multi \in BOOLEAN
      /\ seen \in [Threads -> Int] /\ Main \in Threads /\ Own \subseteq Threads
  BY DEF TypeOK, Threads
<1> USE DEF SoleThread, LoadedFresh
<1>1. ASSUME UNCHANGED <<count, refs>> PROVE CountExact'
  BY <1>1 DEF CountExact
<1>2. CASE Next
  <2>1. PICK th \in Threads :
          \/ Counting(th) \/ Creating(th) \/ Living(th)
          \/ Park(th) \/ Wake(th) \/ Resuming(th)
          \/ BackPressure(th) \/ PassGate(th) \/ Claim(th) \/ Unfull(th) \/ Collecting(th)
    BY <1>2 DEF Next
  <2>2. CASE AddAtomic(th)
    <3>1. CountExact'
      BY <2>2, CountFollows DEF AddAtomic
    <3> QED BY <3>1, <2>2, <1>0 DEF AddAtomic
  <2>3. CASE AddLoad(th)
    <3>1. CountExact'
      BY <2>3, <1>1 DEF AddLoad
    <3> QED BY <3>1, <2>3, <1>0 DEF AddLoad, Goto
  <2>4. CASE AddStore(th)
    <3>1. CountExact'
      BY <2>4, CountFollows DEF AddStore, Goto
    <3> QED BY <3>1, <2>4, <1>0 DEF AddStore, Goto
  <2>5. CASE Creating(th)
    <3>1. CountExact'
      BY <2>5, <1>1 DEF Creating, Announce, Hire, Guard, Created, SpawnFails, counters
    <3>2. SoleThread'
      BY <2>5, <1>0 DEF Creating, Announce, Hire, Guard, Created, SpawnFails, counters
    <3>3. LoadedFresh'
      BY <2>5, <1>0 DEF Creating, Announce, Hire, Guard, Created, SpawnFails, counters
    <3> QED BY <3>1, <3>2, <3>3
  <2>6. CASE Living(th) \/ Park(th) \/ Wake(th) \/ Resuming(th)
    <3> USE DEF Living, StartOwn, EndOwn, Enter, LeaveForeign, Park, Wake,
                Resuming, Raise, Probe, Undo, Respin, Goto, counters
    <3>1. CountExact'
      BY <2>6, <1>1
    <3>2. SoleThread' /\ LoadedFresh'
      BY <2>6, <1>0
    <3> QED BY <3>1, <3>2
  <2>7. CASE BackPressure(th) \/ PassGate(th) \/ Claim(th) \/ Unfull(th) \/ Collecting(th)
    <3> USE DEF BackPressure, PassGate, Claim, Unfull, Collecting, Stop, Decide, GiveUp,
                Reopen, EndBeside, Close, Goto, counters
    <3>1. CountExact'
      BY <2>7, <1>1
    <3>2. SoleThread' /\ LoadedFresh'
      BY <2>7, <1>0
    <3> QED BY <3>1, <3>2
  <2> QED BY <2>1, <2>2, <2>3, <2>4, <2>5, <2>6, <2>7 DEF Counting
<1>3. CASE UNCHANGED vars
  BY <1>1, <1>3 DEF vars
<1> QED BY <1>2, <1>3

\* When a thread that will call Ocara code is announced before it exists,
\* no update of a count is ever lost, plain as the first ones are.
THEOREM NoLostCount == Announced => (Spec => []CountExact)
<1> SUFFICES ASSUME Announced PROVE Spec => []CountExact
  OBVIOUS
<1>1. Init => CountInv
  <2> SUFFICES ASSUME Init PROVE CountInv
    OBVIOUS
  <2>1. TypeOK
    BY InitInv DEF IInv
  <2>2. Referring = {Main}
    BY DEF Referring, Init, Threads
  <2>3. CountExact
    BY <2>2, FS_Singleton DEF CountExact, Referring, Init
  <2> QED BY <2>1, <2>3 DEF CountInv, SoleThread, LoadedFresh, Init
<1>2. CountInv /\ TypeOK' /\ [Next]_vars => CountInv'
  BY StepCountInv
<1>3. CountInv => CountExact
  BY DEF CountInv
<1> QED BY <1>1, <1>2, <1>3, TypeCorrect, PTL DEF Spec
=============================================================================
