----------------------------- MODULE Generators -----------------------------
(***************************************************************************)
(* emit / message<T>: generators as state machines                         *)
(* (lower/builder.d/message_gen.rs, stmt.d; runtime/src/lib.rs).           *)
(*                                                                         *)
(* A generator has no stack of its own: each resume is a new native call,  *)
(* and whatever outlives an `emit` sits in the fields of a counted block,  *)
(* the frame.  Its `try` blocks are inlined: every resume pushes again on  *)
(* TRY_STACK those that are open at the place where it starts, and every   *)
(* exit is to take its own off.  The body of a generator is any nesting of *)
(* blocks, up to MaxDepth, with one declaration in each.                   *)
(***************************************************************************)
EXTENDS Integers, Sequences, FiniteSets, SequencesExt

CONSTANTS
  Gens,           \* frames of generators
  Values,         \* counted values: parameters, locals, emitted, raised
  Null,
  JumpsOutOfTry,  \* does the program leave a generator's try by return, break or continue?
  MaxDepth,       \* bound: nested blocks of a generator
  MaxCount,       \* bound: references to a value
  MaxCalls,       \* bound: native frames
  MaxKept,        \* bound: elements of an array that fromMessage fills
  MaxLost         \* bound: forgotten references to a value

ASSUME NullAssumption   == Null \notin Gens \cup Values
ASSUME JumpsAssumption  == JumpsOutOfTry \in BOOLEAN
ASSUME GensAssumption   == IsFiniteSet(Gens)
ASSUME BoundsAssumption == /\ {MaxCount, MaxKept, MaxLost} \subseteq Nat
                           /\ {MaxDepth, MaxCalls} \subseteq Nat \ {0}

VARIABLES
  pc,       \* "run", "exit" (uncaught), or "wild": a jump into a native frame that is gone
  native,   \* the native stack: functions (with or without a try) and resumes
  tries,    \* TRY_STACK
  gens,     \* the frames
  count,    \* references to each value; -1 when one is given back twice
  ret,      \* what a resume has just returned to the activation on top
  lost,     \* references that no field holds any more, never given back (ghost)
  orphans   \* frames that no variable holds any more, never freed (ghost)

vars == <<pc, native, tries, gens, count, ret, lost, orphans>>

Depths == 1..MaxDepth
Modes  == {"for", "drain", "once"}   \* for x in g(), Array::fromMessage(g()), f(g())
Kinds  == {"body", "while", "for", "stmt", "try", "caught", "handler"}

\* What consumes a generator: the frame, and the values taken from it (the
\* loop variable, or the elements of the array).
NoUse  == [gen |-> Null, mode |-> "for", held |-> <<>>]
Uses   == [gen : Gens \cup {Null}, mode : Modes, held : Seq(Values)]
Blocks == [kind : Kinds, declared : BOOLEAN, raised : Values \cup {Null}]
Block(kind) == [kind |-> kind, declared |-> FALSE, raised |-> Null]

NoFrame ==
  [stage |-> "none", param |-> Null, value |-> Null, blocks |-> <<>>,
   local |-> [d \in Depths |-> Null], err |-> [d \in Depths |-> Null],
   use |-> [d \in Depths |-> NoUse]]

\* stage: __state, with "left" for a resume that an exception ended.
GenFrames ==
  [stage : {"none", "start", "suspended", "running", "left", "done"},
   param : Values \cup {Null}, value : Values \cup {Null}, blocks : Seq(Blocks),
   local : [Depths -> Values \cup {Null}], err : [Depths -> Values \cup {Null}],
   use : [Depths -> Uses]]

\* depth: TRY_STACK when the activation began; id tells activations apart
\* that follow each other at the same place of the stack.
Activations ==
  [kind : {"fn", "resume"}, id : Nat, tried : BOOLEAN, depth : Nat,
   gen : Gens \cup {Null}, use : Uses]
TryFrames == [id : Nat, level : Nat, unwind : Nat]

Function(id, tried) ==
  [kind |-> "fn", id |-> id, tried |-> tried, depth |-> Len(tries), gen |-> Null, use |-> NoUse]

TypeOK ==
  /\ pc \in {"run", "exit", "wild"} /\ ret \in {"none", "value", "end"}
  /\ native \in Seq(Activations) /\ Len(native) \in 1..MaxCalls
  /\ tries \in Seq(TryFrames)
  /\ gens \in [Gens -> GenFrames] /\ orphans \subseteq Gens
  /\ count \in [Values -> Int] /\ lost \in [Values -> Nat]

Init ==
  /\ pc = "run" /\ ret = "none" /\ tries = <<>>
  /\ native = <<[kind |-> "fn", id |-> 1, tried |-> FALSE, depth |-> 0, gen |-> Null, use |-> NoUse]>>
  /\ gens = [g \in Gens |-> NoFrame] /\ orphans = {}
  /\ count = [v \in Values |-> 0] /\ lost = [v \in Values |-> 0]

Top   == Last(native)
Here  == Len(native)
G     == Top.gen                      \* the generator that runs, if one does
Depth == Len(gens[G].blocks)
Innermost == Last(gens[G].blocks)

\* The activation on top goes on with its code.
InFunction == pc = "run" /\ ret = "none" /\ Top.kind = "fn"
AtWork     == /\ pc = "run" /\ ret = "none" /\ Top.kind = "resume" /\ Innermost.kind \notin {"caught", "stmt"}
              /\ Innermost.kind = "for" => gens[G].use[Depth].held # <<>>

\* The elements that the array being filled by this generator holds.
Kept == LET c == native[Here - 1] IN
  IF c.kind = "fn" THEN Len(c.use.held) ELSE Len(gens[c.gen].use[Len(gens[c.gen].blocks)].held)

\* A native frame that is neither on the stack nor in a frame of TRY_STACK.
Fresh == CHOOSE n \in 1..(Here + Len(tries) + 1) :
           /\ \A i \in 1..Here : native[i].id # n
           /\ \A i \in DOMAIN tries : tries[i].id # n

\* References are counted over the places that hold them: the elements of a
\* sequence, the fields of a frame, or those of a family of either.
Join(F) == [p \in UNION {{i} \X DOMAIN F[i] : i \in DOMAIN F} |-> F[p[1]][p[2]]]

Times(ws, v)     == Cardinality({i \in DOMAIN ws : ws[i] = v})
Taken(cnt, v)    == [cnt EXCEPT ![v] = @ + 1]
Released(cnt, ws) == [v \in Values |-> IF cnt[v] >= Times(ws, v) THEN cnt[v] - Times(ws, v) ELSE -1]
Forget(ws) == /\ lost' = [v \in Values |-> lost[v] + Times(ws, v)]
              /\ \A v \in Values : lost'[v] <= MaxLost
Room(v)          == count[v] < MaxCount

-----------------------------------------------------------------------------
(* Frames: __new, __drop, blocks                                           *)

\* The counted fields, hidden ones included; the bindings of `on` are not.
Fields(f) == Join(<<<<f.param, f.value>>, f.local, Join([d \in Depths |-> f.use[d].held])>>)

Inner(f) == {f.use[d].gen : d \in {e \in Depths : f.use[e].mode = "for"}} \ {Null}

\* The frames that go with those of S, generators that they are iterating: the
\* least set that holds them.
Tree(gs, S) ==
  {g \in Gens : \A T \in SUBSET Gens : S \subseteq T /\ (\A h \in T : Inner(gs[h]) \subseteq T) => g \in T}

\* __drop: what frames give back when they are released.
GivenByDrop(gs, S) == Join([g \in Tree(gs, S) |-> Fields(gs[g])])
LostByDrop(gs, S)  == Join([g \in Tree(gs, S) |-> gs[g].err])
AfterDrop(gs, S)   == [g \in Gens |-> IF g \in Tree(gs, S) THEN NoFrame ELSE gs[g]]

Consumes(b) == b.kind \in {"for", "stmt"}

\* What leaving the blocks above k gives back: their locals, the loop
\* variables, the arrays...
GivenByBlocks(f, k) ==
  Join([d \in (k + 1)..Len(f.blocks) |->
         Join(<<IF f.blocks[d].declared THEN <<f.local[d]>> ELSE <<>>,
                IF Consumes(f.blocks[d]) THEN f.use[d].held ELSE <<>>>>)])

\* Fault: the frame that a loop iterates is forgotten.
Fault_FramesOfBlocks_None(f, k) == {}

\* ...and the generators that they iterate.
FramesOfBlocks(f, k) ==
  {f.use[d].gen : d \in {e \in (k + 1)..Len(f.blocks) : Consumes(f.blocks[e])}} \ {Null}

\* Fault: the fields of the blocks stay as they are.
Fault_LeaveBlocks_NotCleared(f, k) == [f EXCEPT !.blocks = SubSeq(@, 1, k)]

\* clear_local: what is given back is set to null, for __drop.
LeaveBlocks(f, k) ==
  LET left(d) == d > k /\ d <= Len(f.blocks)
  IN [f EXCEPT
       !.blocks = SubSeq(@, 1, k),
       !.local  = [d \in Depths |-> IF left(d) /\ f.blocks[d].declared THEN Null ELSE @[d]],
       !.use    = [d \in Depths |-> IF left(d) /\ Consumes(f.blocks[d]) THEN NoUse ELSE @[d]]]

TriesOf(f)  == {d \in DOMAIN f.blocks : f.blocks[d].kind = "try"}
LoopsOf(f)  == {d \in DOMAIN f.blocks : f.blocks[d].kind \in {"while", "for"}}
Deepest(S)  == IF S = {} THEN 0 ELSE CHOOSE d \in S : \A e \in S : e <= d

\* The generator that runs leaves the blocks above k, its frame in stage st.
Leave(k, st) ==
  LET S  == FramesOfBlocks(gens[G], k)
      gs == [gens EXCEPT ![G] = [LeaveBlocks(@, k) EXCEPT !.stage = st]]
  IN /\ gens'  = AfterDrop(gs, S)
     /\ count' = Released(count, Join(<<GivenByBlocks(gens[G], k), GivenByDrop(gs, S)>>))
     /\ Forget(LostByDrop(gs, S))

-----------------------------------------------------------------------------
(* The consumer: for, Array::fromMessage, a scalar                         *)

NewFrame(v) == [NoFrame EXCEPT !.stage = "start", !.param = v]

\* A function consumes a generator: its frame takes the argument.
Start == \E g \in Gens, m \in Modes, v \in Values :
  /\ InFunction /\ Top.use = NoUse /\ gens[g].stage = "none" /\ Room(v)
  /\ native' = [native EXCEPT ![Here].use = [NoUse EXCEPT !.gen = g, !.mode = m]]
  /\ gens' = [gens EXCEPT ![g] = NewFrame(v)]
  /\ count' = Taken(count, v)
  /\ UNCHANGED <<pc, tries, ret, lost, orphans>>

\* So does a generator: the frame, the loop variable and the array sit in
\* hidden fields, which may still hold what an exception left there.
StartInside == \E g \in Gens \ {G}, m \in Modes, v \in Values :
  LET d == Depth + 1
      u == gens[G].use[d]
  IN /\ AtWork /\ Depth < MaxDepth /\ gens[g].stage = "none" /\ Room(v)
     /\ gens' = [gens EXCEPT
          ![g] = NewFrame(v),
          ![G].blocks = Append(@, Block(IF m = "for" THEN "for" ELSE "stmt")),
          ![G].use[d] = [NoUse EXCEPT !.gen = g, !.mode = m]]
     /\ count' = Taken(count, v)
     /\ Forget(u.held) /\ orphans' = orphans \cup ({u.gen} \ {Null})
     /\ UNCHANGED <<pc, native, tries, ret>>

\* What the activation on top consumes.
Use == IF Top.kind = "fn" THEN Top.use
       ELSE IF Consumes(Innermost) THEN gens[G].use[Depth] ELSE NoUse
Put(gs, u) == /\ native' = [native EXCEPT ![Here].use = IF Top.kind = "fn" THEN u ELSE @]
              /\ gens' = IF Top.kind = "fn" THEN gs ELSE [gs EXCEPT ![G].use[Depth] = u]

\* The place of the frames of TRY_STACK of a generator that starts again.
Unwinds == Cardinality({i \in 1..Here : native[i].kind = "fn"})
Entry(id, d) == [id |-> id, level |-> d, unwind |-> Unwinds]

\* Fault: only the innermost try is entered again.
Fault_Reentered_Innermost(f, id) ==
  IF TriesOf(f) = {} THEN <<>> ELSE <<Entry(id, Deepest(TriesOf(f)))>>

\* build_reentry_stub: try_enter and setjmp for every try that is open there.
Reentered(f, id) ==
  [i \in 1..Cardinality(TriesOf(f)) |->
     Entry(id, CHOOSE d \in TriesOf(f) : Cardinality({e \in TriesOf(f) : e <= d}) = i)]

\* call_resume, at the head of the loop or once.
Resume ==
  LET g == Use.gen
  IN /\ pc = "run" /\ ret = "none" /\ g # Null /\ Here < MaxCalls
     /\ Use.mode \in {"for", "once"} => Use.held = <<>>
     /\ native' = Append(native, [kind |-> "resume", id |-> Fresh, tried |-> FALSE,
                                  depth |-> Len(tries), gen |-> g, use |-> NoUse])
     /\ tries' = tries \o Reentered(gens[g], Fresh)
     /\ gens' = [gens EXCEPT ![g].stage = "running",
                             ![g].blocks = IF @ = <<>> THEN <<Block("body")>> ELSE @]
     /\ UNCHANGED <<pc, count, ret, lost, orphans>>

\* bind_loop_var, __array_push: the value of the frame is retained.
TakeValue ==
  LET v == gens[Use.gen].value
  IN /\ ret = "value" /\ ret' = "none" /\ Use.mode # "once"
     /\ Put(gens, [Use EXCEPT !.held = Append(@, v)])
     /\ count' = Taken(count, v)
     /\ UNCHANGED <<pc, tries, lost, orphans>>

\* lower_message_scalar: retain what was emitted, if anything was, then free
\* the frame.
TakeOnce ==
  LET g == Use.gen
      v == gens[g].value
  IN /\ ret # "none" /\ ret' = "none" /\ Use.mode = "once"
     /\ Put(AfterDrop(gens, {g}), [Use EXCEPT !.gen = Null, !.held = IF v = Null THEN <<>> ELSE <<v>>])
     /\ count' = Released(IF v = Null THEN count ELSE Taken(count, v), GivenByDrop(gens, {g}))
     /\ Forget(LostByDrop(gens, {g}))
     /\ UNCHANGED <<pc, tries, orphans>>

\* free_frame, once the generator is exhausted.
Drained ==
  LET g == Use.gen
  IN /\ ret = "end" /\ ret' = "none" /\ Use.mode = "drain"
     /\ Put(AfterDrop(gens, {g}), [Use EXCEPT !.gen = Null])
     /\ count' = Released(count, GivenByDrop(gens, {g}))
     /\ Forget(LostByDrop(gens, {g}))
     /\ UNCHANGED <<pc, tries, orphans>>

\* A function gives back what it holds of the generator that it consumes.
EndUse(ns) ==
  LET S == IF Use.mode = "for" THEN {Use.gen} \ {Null} ELSE {}
  IN /\ native' = ns
     /\ gens' = AfterDrop(gens, S)
     /\ count' = Released(count, Join(<<Use.held, GivenByDrop(gens, S)>>))
     /\ Forget(LostByDrop(gens, S))

\* The loop is over: exhausted, or left by a break; the array or the scalar
\* has been used.
EndStatement ==
  /\ pc = "run" /\ Use # NoUse
  /\ \/ ret = "end" /\ Use.mode = "for"
     \/ ret = "none" /\ Use.gen = Null
     \/ ret = "none" /\ Top.kind = "fn" /\ Use.mode = "for" /\ Use.held # <<>>
  /\ IF Top.kind = "fn" THEN EndUse([native EXCEPT ![Here].use = NoUse])
                        ELSE Leave(Depth - 1, gens[G].stage) /\ UNCHANGED native
  /\ ret' = "none"
  /\ UNCHANGED <<pc, tries, orphans>>

\* The function runs code of its own, between two resumes.
InCode == InFunction /\ (Use.gen # Null => Use.mode = "for" /\ Use.held # <<>>)

\* end_iteration
NextInFunction ==
  /\ InFunction /\ Use.mode = "for" /\ Use.held # <<>>
  /\ native' = [native EXCEPT ![Here].use.held = <<>>]
  /\ count' = Released(count, Use.held)
  /\ UNCHANGED <<pc, tries, gens, ret, lost, orphans>>

\* The function calls another one, inside a try (__ocara_try_exec) or not.
Call == \E tried \in BOOLEAN :
  /\ InCode /\ Here < MaxCalls
  /\ native' = Append(native, Function(Fresh, tried))
  /\ tries' = IF tried THEN Append(tries, Entry(Fresh, 0)) ELSE tries
  /\ UNCHANGED <<pc, gens, count, ret, lost, orphans>>

\* release_all, then the trampoline sets the depth that it found.
Return ==
  /\ InCode /\ Here > 1
  /\ EndUse(Front(native))
  /\ tries' = IF Top.tried THEN SubSeq(tries, 1, Top.depth) ELSE tries
  /\ UNCHANGED <<pc, ret, orphans>>

-----------------------------------------------------------------------------
(* raise                                                                   *)

Rank(ns, i) == Cardinality({j \in 1..i : ns[j].kind = "fn"})
UseOf(ns, gs, i) ==
  IF ns[i].kind = "fn" THEN ns[i].use
  ELSE LET f == gs[ns[i].gen] IN IF f.blocks # <<>> /\ Consumes(Last(f.blocks)) THEN f.use[Len(f.blocks)] ELSE NoUse

\* The longjmp to frame t, whose native frame is at `at`: unwind_to gives back
\* what the functions on the way hold; nothing gives back what the generators
\* on the way hold, nor the frames that sit in no field (drain, once).  The
\* handler of a function runs at once, and gives the exception back.
Land(v, ns, gs, cnt, ws, t, at) ==
  LET skipped == {i \in DOMAIN ns : ns[i].kind = "fn" /\ Rank(ns, i) > t.unwind}
      tracked == {ns[i].use.gen : i \in {j \in skipped : ns[j].use.mode = "for"}} \ {Null}
      astray  == {UseOf(ns, gs, i).gen : i \in {j \in at..Len(ns) : UseOf(ns, gs, j).mode # "for"}} \ {Null}
      ended   == {ns[i].gen : i \in (at + 1)..Len(ns)}
      kept    == [g \in Gens |-> [gs[g] EXCEPT
                   !.stage = IF g \in ended THEN "left" ELSE @,
                   !.use = [d \in Depths |-> IF @[d].gen \in astray THEN [@[d] EXCEPT !.gen = Null] ELSE @[d]]]]
      words   == Join(<<Join([i \in skipped |-> ns[i].use.held]), GivenByDrop(kept, tracked)>>)
      after   == AfterDrop(kept, tracked)
      target  == ns[at]
  IN /\ Forget(Join(<<ws, LostByDrop(kept, tracked)>>))
     /\ orphans' = orphans \cup astray
     /\ IF target.kind = "fn"
          THEN /\ native' = SubSeq(ns, 1, at - 1) /\ tries' = SubSeq(tries, 1, target.depth)
               /\ gens' = after
               /\ count' = Released(cnt, Join(<<words, <<v>>>>))
          ELSE /\ native' = SubSeq(ns, 1, at) /\ tries' = Front(tries)
               /\ gens' = [after EXCEPT ![target.gen].blocks =
                             Append(SubSeq(@, 1, t.level - 1), [Block("caught") EXCEPT !.raised = v])]
               /\ count' = Released(cnt, words)
     /\ UNCHANGED <<pc, ret>>

\* __ocara_fail
Fail(v, ns, gs, cnt, ws) ==
  LET t  == Last(tries)
      at == {i \in DOMAIN ns : ns[i].id = t.id}
  IN IF tries = <<>> \/ at = {}
       THEN /\ pc' = IF tries = <<>> THEN "exit" ELSE "wild"
            /\ UNCHANGED <<native, tries, gens, count, ret, lost, orphans>>
       ELSE Land(v, ns, gs, cnt, ws, t, CHOOSE i \in at : TRUE)

\* A function that the code on top calls raises: the code cleans nothing up.
Throw == \E v \in Values :
  /\ Room(v)
  /\ AtWork \/ InCode
  /\ Fail(v, native, gens, Taken(count, v), <<>>)

\* lower_raise in a function: its words are given back and cleared, then the jump.
RaiseInFunction == \E v \in Values :
  LET S == {Use.gen} \ {Null}
  IN /\ Room(v) /\ InCode
     /\ Fail(v, [native EXCEPT ![Here].use = NoUse], AfterDrop(gens, S),
             Released(Taken(count, v), Join(<<Use.held, GivenByDrop(gens, S)>>)), LostByDrop(gens, S))

\* release_for_raise: what was opened since the entry of the innermost try.
RaiseFrom(f) == IF TriesOf(f) = {} THEN 0 ELSE Deepest(TriesOf(f)) - 1

\* lower_raise in a generator.  The exception of an `on` that is being left
\* stays in its binding.
RaiseInside == \E v \in Values :
  LET f  == gens[G]
      k  == RaiseFrom(f)
      S  == FramesOfBlocks(f, k)
      gs == [gens EXCEPT ![G] = LeaveBlocks(f, k)]
  IN /\ Room(v) /\ AtWork
     /\ Fail(v, native, AfterDrop(gs, S),
             Released(Taken(count, v), Join(<<GivenByBlocks(f, k), GivenByDrop(gs, S)>>)), LostByDrop(gs, S))

\* The handler block of an inlined try: the first clause that matches binds
\* the exception...
Match ==
  /\ pc = "run" /\ Top.kind = "resume" /\ Innermost.kind = "caught"
  /\ gens' = [gens EXCEPT ![G].blocks[Depth] = Block("handler"), ![G].err[Depth] = Innermost.raised]
  /\ Forget(<<gens[G].err[Depth]>>)
  /\ UNCHANGED <<pc, native, tries, count, ret, orphans>>

\* ...and when none does, it goes on.
Propagate ==
  /\ pc = "run" /\ Top.kind = "resume" /\ Innermost.kind = "caught"
  /\ Fail(Innermost.raised, native, [gens EXCEPT ![G].blocks = Front(@)], count, <<>>)

-----------------------------------------------------------------------------
(* The body of a generator                                                 *)

\* A counted local; the same declaration may find what an exception left.
Declare == \E v \in Values :
  /\ AtWork /\ ~Innermost.declared /\ Room(v)
  /\ gens' = [gens EXCEPT ![G].blocks[Depth].declared = TRUE, ![G].local[Depth] = v]
  /\ count' = Taken(count, v)
  /\ Forget(<<gens[G].local[Depth]>>)
  /\ UNCHANGED <<pc, native, tries, ret, orphans>>

\* while, and lower_try_in_generator.
Open == \E kind \in {"while", "try"} :
  /\ AtWork /\ Depth < MaxDepth
  /\ gens' = [gens EXCEPT ![G].blocks = Append(@, Block(kind))]
  /\ tries' = IF kind = "try" THEN Append(tries, Entry(Top.id, Depth + 1)) ELSE tries
  /\ UNCHANGED <<pc, native, count, ret, lost, orphans>>

\* The end of a while, or of the body of a try (try_exit).
Close ==
  /\ AtWork /\ Innermost.kind \in {"while", "try"}
  /\ Leave(Depth - 1, gens[G].stage)
  /\ tries' = IF Innermost.kind = "try" THEN Front(tries) ELSE tries
  /\ UNCHANGED <<pc, native, ret, orphans>>

\* The end of an `on`: the exception is given back, its binding set to null.
CloseHandler ==
  /\ AtWork /\ Innermost.kind = "handler"
  /\ LET k == Depth - 1
         f == gens[G]
     IN /\ gens' = [gens EXCEPT ![G] = [LeaveBlocks(f, k) EXCEPT !.err[Depth] = Null]]
        /\ count' = Released(count, Join(<<GivenByBlocks(f, k), <<f.err[Depth]>>>>))
  /\ UNCHANGED <<pc, native, tries, ret, lost, orphans>>

\* The end of an iteration, or continue, maybe from inner blocks; a try that
\* is left this way is not taken off TRY_STACK.
Iterate ==
  LET f == gens[G]
      l == Deepest(LoopsOf(f))
      k == [LeaveBlocks(f, l) EXCEPT !.blocks[l].declared = FALSE,
                                     !.local[l] = IF f.blocks[l].declared THEN Null ELSE @,
                                     !.use[l].held = IF Consumes(f.blocks[l]) THEN <<>> ELSE @]
      S == FramesOfBlocks(f, l)
      gs == [gens EXCEPT ![G] = k]
  IN /\ AtWork /\ l > 0 /\ (l < Depth \/ Innermost.declared \/ Innermost.kind = "for")
     /\ JumpsOutOfTry \/ \A d \in TriesOf(f) : d < l
     /\ gens' = AfterDrop(gs, S)
     /\ count' = Released(count,
          Join(<<GivenByBlocks(f, l - 1), GivenByDrop(gs, S)>>))
     /\ Forget(LostByDrop(gs, S))
     /\ UNCHANGED <<pc, native, tries, ret, orphans>>

\* break
Break ==
  LET l == Deepest(LoopsOf(gens[G]))
  IN /\ AtWork /\ l > 0
     /\ JumpsOutOfTry \/ \A d \in TriesOf(gens[G]) : d < l
     /\ Leave(l - 1, gens[G].stage)
     /\ UNCHANGED <<pc, native, tries, ret, orphans>>

\* return, or the end of the body: emit_generator_exhausted.
Finish ==
  /\ AtWork /\ (JumpsOutOfTry \/ TriesOf(gens[G]) = {})
  /\ Leave(0, "done")
  /\ native' = Front(native) /\ ret' = "end"
  /\ UNCHANGED <<pc, tries, orphans>>

\* emit: the frame takes the value and gives back the previous one; one
\* try_exit for each try that is open; a native return.
Emit == \E v \in Values :
  /\ AtWork /\ Room(v) /\ Kept < MaxKept
  /\ gens' = [gens EXCEPT ![G].value = v, ![G].stage = "suspended"]
  /\ count' = Released(Taken(count, v), <<gens[G].value>>)
  /\ tries' = SubSeq(tries, 1, Len(tries) - Cardinality(TriesOf(gens[G])))
  /\ native' = Front(native) /\ ret' = "value"
  /\ UNCHANGED <<pc, lost, orphans>>

Consume == \/ Start \/ StartInside \/ Resume \/ TakeValue \/ TakeOnce \/ Drained
           \/ EndStatement \/ NextInFunction \/ Call \/ Return
Except  == Throw \/ RaiseInFunction \/ RaiseInside \/ Match \/ Propagate
Run     == \/ Declare \/ Open \/ Close \/ CloseHandler \/ Iterate \/ Break
           \/ Finish \/ Emit

Next == Consume \/ Except \/ Run

Spec == Init /\ [][Next]_vars

-----------------------------------------------------------------------------
(* Properties                                                              *)

\* TRY_STACK holds exactly the tries that the native frames in progress have
\* open, innermost last: the next raise lands in a native frame that still
\* exists, and in the handler that the program names.
Begin(i) == native[i].depth
End(i)   == IF i = Here THEN Len(tries) ELSE native[i + 1].depth

\* The levels of the tries that a native frame has open.
Levels(i) == IF native[i].kind = "fn" THEN (IF native[i].tried THEN {0} ELSE {})
                                      ELSE TriesOf(gens[native[i].gen])

TriesExact ==
  /\ native[1].depth = 0
  /\ \A i \in 1..Here :
       LET mine == (Begin(i) + 1)..End(i) IN
       /\ Begin(i) <= End(i)
       /\ {tries[k].level : k \in mine} = Levels(i)
       /\ \A k \in mine : /\ tries[k].id = native[i].id
                          /\ \A l \in mine : k < l => tries[k].level < tries[l].level

\* The native stack and TRY_STACK agree.
StacksExact == TypeOK /\ TriesExact

\* "retrouve exactement sa profondeur d'avant cet appel `__resume` (invariant
\* indispensable)", lower/stmt.d/statements.rs: a resume that returns leaves
\* TRY_STACK as deep as it found it.
DepthRestored == [][ret = "none" /\ ret' # "none" => Len(tries') = Top.depth]_vars

Allocated == {g \in Gens : gens[g].stage # "none"}

\* Every reference is in exactly one place (a field of a frame, a variable of
\* a function, an exception on its way) or known to be forgotten: whichever
\* way blocks, loops and generators are left, none is given back twice.
CountsExact ==
  pc = "run" => \A v \in Values :
    count[v] = lost[v]
      + Times(Join([g \in Allocated |->
                Join(<<Fields(gens[g]), gens[g].err, [d \in DOMAIN gens[g].blocks |-> gens[g].blocks[d].raised]>>)]), v)
      + Times(Join([i \in 1..Here |-> native[i].use.held]), v)

Owners(g) ==
  {<<i, 0>> : i \in {j \in 1..Here : native[j].use.gen = g}}
  \cup {p \in Allocated \X Depths : gens[p[1]].use[p[2]].gen = g}

\* A frame is held once, by what consumes it, until it is freed; a frame that
\* runs, or that a generator which runs is iterating, is there.
FrameOwned ==
  pc = "run" =>
    /\ \A g \in Gens : Cardinality(Owners(g)) = IF g \in Allocated \ orphans THEN 1 ELSE 0
    /\ \A i \in 1..Here : native[i].kind = "resume" => gens[native[i].gen].stage = "running"
=============================================================================
