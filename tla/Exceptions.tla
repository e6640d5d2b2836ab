----------------------------- MODULE Exceptions -----------------------------
(***************************************************************************)
(* raise / try / on: what a thread leaves behind when it jumps             *)
(* (runtime/src/lib.rs, rc.rs, mutex.rs; src/lower).                       *)
(*                                                                         *)
(* `raise` is a longjmp: no code of the functions that it skips runs       *)
(* again.  Four stacks of the thread stand in for that code: TRY_STACK     *)
(* (where to jump, and how far the next two went), UNWIND (the functions   *)
(* that hold references), RESOURCES (what to close), and the native stack, *)
(* whose frames the other three point into.                                *)
(***************************************************************************)
EXTENDS Integers, Sequences, FiniteSets, SequencesExt

CONSTANTS
  Values,      \* counted values: locals and exceptions
  Resources,   \* scoped or consumed connections, files, mutexes
  Mutexes,     \* mutexes that withLock takes
  Null,
  MaxCalls,    \* bound: native frames
  MaxWords,    \* bound: references that the functions on the stack hold
  MaxTry       \* MAX_TRY_DEPTH (64 in the code)

ASSUME NullAssumption   == Null \notin Values \cup Mutexes
ASSUME BoundsAssumption == {MaxCalls, MaxWords, MaxTry} \subseteq Nat /\ MaxCalls > 0

VARIABLES
  pc,          \* "run", or "exit": an uncaught exception, or too many tries
  calls,       \* the native stack
  frames,      \* TRY_STACK
  unwind,      \* UNWIND: the native frames that registered their words
  resources,   \* RESOURCES: a resource, and the native frame of its slot
  open,        \* the resources that are open
  locked,      \* the mutexes that the thread holds
  count,       \* count[v]: references; 0 when v is not allocated, -1 freed twice
  returned,    \* TRY_RETURN: the value that a return hands out of a try
  stray        \* values passed on without their reference (ghost)

vars == <<pc, calls, frames, unwind, resources, open, locked, count, returned, stray>>

\* Native frames: an Ocara function, `use C(...)` while C_init runs,
\* __ocara_try_exec before and after the longjmp, Mutex_withLock.
Kinds == {"fn", "new", "try", "handler", "lock"}

\* How a native frame that calls one function was left by it ("none": not
\* yet), or what a try asks of the function that it is in: TRY_NORMAL,
\* TRY_RETURN, and "break" for TRY_BREAK and TRY_CONTINUE.
Codes == {"none", "normal", "return", "break"}

\* words: the references that unwind_to would give back; err: the exception
\* that run_closure_catching returned.
Activations == [kind : Kinds, words : Seq(Values), mutex : Mutexes \cup {Null},
                err : Values \cup {Null}, code : Codes]

TypeOK ==
  /\ pc \in {"run", "exit"} /\ calls \in Seq(Activations)
  /\ frames \in Seq([act : Nat, unwind : Nat, resources : Nat])
  /\ unwind \in Seq(Nat) /\ resources \in Seq([res : Resources, act : Nat])
  /\ open \subseteq Resources /\ locked \subseteq Mutexes
  /\ count \in [Values -> Int] /\ returned \in Values \cup {Null} /\ stray \subseteq Values
  /\ Len(calls) \in 1..MaxCalls /\ Len(frames) <= MaxTry

Activation(kind, words, mutex) ==
  [kind |-> kind, words |-> words, mutex |-> mutex, err |-> Null, code |-> "none"]

Init ==
  /\ pc = "run" /\ calls = <<Activation("fn", <<>>, Null)>>
  /\ frames = <<>> /\ unwind = <<1>> /\ resources = <<>>
  /\ open = {} /\ locked = {}
  /\ count = [v \in Values |-> 0] /\ returned = Null /\ stray = {}

Here == Len(calls)
Top  == Last(calls)

\* The frame on top is of these kinds and runs...
Runs(kinds) == pc = "run" /\ Top.err = Null /\ Top.code = "none" /\ Top.kind \in kinds

\* ...or the function that it called is back.
Back(kinds) == pc = "run" /\ Top.code # "none" /\ Top.kind \in kinds

\* in_try_fn: the function on top is the body of a try or its handler.
InTry == Here > 1 /\ calls[Here - 1].kind \in {"try", "handler"}

\* The references to v that the native frames S of the stack cs hold.
References(cs, S, v) == UNION {{i} \X {j \in DOMAIN cs[i].words : cs[i].words[j] = v} : i \in S}

\* How often each value is in the words ws, or in those of S.
Times(ws)         == [v \in Values |-> Cardinality({j \in DOMAIN ws : ws[j] = v})]
TimesIn(cs, S)    == [v \in Values |-> Cardinality(References(cs, S, v))]

Retained(cnt, v)  == [cnt EXCEPT ![v] = @ + 1]
Released(cnt, times) ==
  [v \in Values |-> IF cnt[v] >= times[v] THEN cnt[v] - times[v] ELSE -1]

\* Within the bound, n more references can be held.
Room(n) == Cardinality(UNION {{i} \X DOMAIN calls[i].words : i \in 1..Here}) + n <= MaxWords

\* The resources of the native frame on top, and RESOURCES without those of
\* S, each taken out of its place.
Own == {e.res : e \in {x \in ToSet(resources) : x.act = Here}}
OthersOf(S) ==
  LET others[n \in 0..Len(resources)] ==
        IF n = 0 THEN <<>>
        ELSE IF resources[n].res \in S THEN others[n - 1] ELSE Append(others[n - 1], resources[n])
  IN others[Len(resources)]

-----------------------------------------------------------------------------
(* Functions, their locals and their resources                             *)

\* A function registers its words on entry (finish_unwind).
Call ==
  /\ Runs({"fn", "new", "try", "handler", "lock"}) /\ Here < MaxCalls
  /\ calls' = Append(calls, Activation("fn", <<>>, Null))
  /\ unwind' = Append(unwind, Here + 1)
  /\ UNCHANGED <<pc, frames, resources, open, locked, count, returned, stray>>

\* A counted local: a new value...
NewLocal == \E v \in Values :
  /\ Runs({"fn"}) /\ Room(1) /\ count[v] = 0
  /\ calls' = [calls EXCEPT ![Here].words = Append(@, v)]
  /\ count' = Retained(count, v)
  /\ UNCHANGED <<pc, frames, unwind, resources, open, locked, returned, stray>>

\* The values that the code of the function on top can name: its own, and
\* those that its caller passed (a handler: the exception).
Visible == ToSet(Top.words) \cup (IF Here > 1 THEN ToSet(calls[Here - 1].words) ELSE {})

\* ...or one more reference to a value.
Bind == \E v \in Visible :
  /\ Runs({"fn"}) /\ Room(1)
  /\ calls' = [calls EXCEPT ![Here].words = Append(@, v)]
  /\ count' = Retained(count, v)
  /\ UNCHANGED <<pc, frames, unwind, resources, open, locked, returned, stray>>

\* register_unwind: a resource is registered once it is open.
Open == \E r \in Resources \ open :
  /\ Runs({"fn"})
  /\ open' = open \cup {r} /\ resources' = Append(resources, [res |-> r, act |-> Here])
  /\ UNCHANGED <<pc, calls, frames, unwind, locked, count, returned, stray>>

\* emit_drop_if_owned: the end of its block, or an explicit close.
Close == \E r \in Own :
  /\ Runs({"fn"})
  /\ open' = open \ {r} /\ resources' = OthersOf({r})
  /\ UNCHANGED <<pc, calls, frames, unwind, locked, count, returned, stray>>

\* release_all, then __rc_unwind_pop.
LeaveFunction(cnt) ==
  /\ open' = open \ Own /\ resources' = OthersOf(Own)
  /\ count' = Released(cnt, Times(Top.words))
  /\ unwind' = Front(unwind)
  /\ UNCHANGED <<pc, frames, locked, stray>>

\* The native stack without the frame on top, the code in the hands of its
\* caller; an Ocara function only hears of it from a try.
Popped(code) ==
  IF calls[Here - 1].kind = "fn" THEN Front(calls) ELSE [Front(calls) EXCEPT ![Here - 1].code = code]

\* The end of the function.
Return ==
  /\ Runs({"fn"}) /\ Here > 1
  /\ LeaveFunction(count) /\ calls' = Popped("normal")
  /\ UNCHANGED returned

\* guard_new_object: the object is registered while its constructor runs.
New == \E v \in Values :
  /\ Runs({"fn"}) /\ Here < MaxCalls /\ count[v] = 0 /\ Room(1)
  /\ calls' = Append(calls, Activation("new", <<v>>, Null))
  /\ unwind' = Append(unwind, Here + 1)
  /\ count' = Retained(count, v)
  /\ UNCHANGED <<pc, frames, resources, open, locked, returned, stray>>

\* C_init returned: the object belongs to the function from here on.
EndNew ==
  /\ Back({"new"})
  /\ calls' = [Front(calls) EXCEPT ![Here - 1].words = @ \o Top.words]
  /\ unwind' = Front(unwind)
  /\ UNCHANGED <<pc, frames, resources, open, locked, count, returned, stray>>

-----------------------------------------------------------------------------
(* try, on, withLock                                                       *)

\* Fault: the depth of RESOURCES stays that of a zeroed frame.
Fault_Frame_Unset(act) == [act |-> act, unwind |-> Len(unwind), resources |-> 0]

\* What a try frame remembers when it is pushed.
Frame(act) == [act |-> act, unwind |-> Len(unwind), resources |-> Len(resources)]

\* The native stack without the trampoline of a try: the function that the
\* try is in gets the code, unless the body or the handler came to its end.
Handed == [Front(calls) EXCEPT ![Here - 1].code = IF Top.code = "normal" THEN "none" ELSE Top.code]

\* Entering a try at MAX_TRY_DEPTH aborts the process.
Push(activation) ==
  IF Len(frames) >= MaxTry
    THEN pc' = "exit" /\ UNCHANGED <<calls, frames>>
    ELSE /\ calls' = Append(calls, activation) /\ frames' = Append(frames, Frame(Here + 1))
         /\ UNCHANGED pc

\* __ocara_try_exec
Try ==
  /\ Runs({"fn"}) /\ Here < MaxCalls
  /\ Push(Activation("try", <<>>, Null))
  /\ UNCHANGED <<unwind, resources, open, locked, count, returned, stray>>

\* A return out of the body of a try, or of its handler: the value has its
\* reference before the locals lose theirs, and waits in TRY_RETURN.
ReturnInTry == \E v \in Visible :
  /\ Runs({"fn"}) /\ InTry
  /\ LeaveFunction(Retained(count, v)) /\ calls' = Popped("return")
  /\ returned' = v

\* A return without a value, a break or a continue (lower_break, lower_continue).
ExitInTry == \E code \in {"return", "break"} :
  /\ Runs({"fn"}) /\ InTry
  /\ LeaveFunction(count) /\ calls' = Popped(code)
  /\ UNCHANGED returned

\* Fault: a return out of the body leaves the frame on TRY_STACK.
Fault_EndTry_StaysPushed ==
  /\ Back({"try"})
  /\ calls' = Handed
  /\ frames' = IF Top.code = "return" THEN frames ELSE Front(frames)
  /\ UNCHANGED <<pc, unwind, resources, open, locked, count, returned, stray>>

\* The body is over: the code goes to the function that the try is in.
EndTry ==
  /\ Back({"try"})
  /\ calls' = Handed /\ frames' = Front(frames)
  /\ UNCHANGED <<pc, unwind, resources, open, locked, count, returned, stray>>

\* dispatch_try_exit: a try around this one gets the same code...
PassOn ==
  /\ Back({"fn"}) /\ InTry
  /\ LeaveFunction(count) /\ calls' = Popped(Top.code)
  /\ UNCHANGED returned

\* ...a break leaves the blocks of the loop, with what they hold...
LeaveLoop == \E n \in 0..Len(Top.words), S \in SUBSET Own :
  /\ Back({"fn"}) /\ ~InTry /\ Top.code = "break"
  /\ calls' = [calls EXCEPT ![Here].words = SubSeq(@, 1, n), ![Here].code = "none"]
  /\ count' = Released(count, Times(SubSeq(Top.words, n + 1, Len(Top.words))))
  /\ open' = open \ S /\ resources' = OthersOf(S)
  /\ UNCHANGED <<pc, frames, unwind, locked, returned, stray>>

\* ...and a return takes the value; the caller keeps it or drops it.
ReturnFromTry == \E keeps \in BOOLEAN :
  LET value == IF returned = Null THEN <<>> ELSE <<returned>>
  IN /\ Back({"fn"}) /\ ~InTry /\ Here > 1 /\ Top.code = "return"
     /\ keeps => calls[Here - 1].kind = "fn" /\ Room(Len(value) - Len(Top.words))
     /\ LeaveFunction(IF keeps THEN count ELSE Released(count, Times(value)))
     /\ calls' = IF keeps THEN [Front(calls) EXCEPT ![Here - 1].words = @ \o value] ELSE Popped("normal")
     /\ returned' = Null

\* Mutex_withLock
WithLock == \E m \in Mutexes \ locked :
  /\ Runs({"fn"}) /\ Here < MaxCalls
  /\ Push(Activation("lock", <<>>, m))
  /\ locked' = IF pc' = "run" THEN locked \cup {m} ELSE locked
  /\ UNCHANGED <<unwind, resources, open, count, returned, stray>>

EndLock ==
  /\ Back({"lock"})
  /\ calls' = Front(calls) /\ frames' = Front(frames)
  /\ locked' = locked \ {Top.mutex}
  /\ UNCHANGED <<pc, unwind, resources, open, count, returned, stray>>

-----------------------------------------------------------------------------
(* raise                                                                   *)

\* What __ocara_try_exec and run_closure_catching do after the longjmp: the
\* exception is held for the time of the handler, or returned to withLock.
Landed(act, v) ==
  IF act.kind = "try" THEN Activation("handler", <<v>>, Null) ELSE [act EXCEPT !.err = v]

\* __ocara_fail, from the native stack cs, with the resources still open, what
\* is still registered, and the counts.
Fail(v, cs, opened, registered, cnt) ==
  IF frames = <<>>
    THEN pc' = "exit" /\ UNCHANGED <<calls, frames, unwind, resources, open, count>>
    ELSE LET f       == Last(frames)
             target  == cs[f.act]
             skipped == {unwind[i] : i \in (f.unwind + 1)..Len(unwind)}
         IN /\ resources' = SubSeq(registered, 1, f.resources)
            /\ open' = opened \ {registered[i].res : i \in (f.resources + 1)..Len(registered)}
            /\ count' = Released(cnt, TimesIn(cs, skipped))
            /\ calls' = Append(SubSeq(cs, 1, f.act - 1), Landed(target, v))
            /\ unwind' = IF target.kind = "try" THEN Append(SubSeq(unwind, 1, f.unwind), f.act)
                                                ELSE SubSeq(unwind, 1, f.unwind)
            /\ frames' = Front(frames)
            /\ UNCHANGED pc

\* Fault: the words of the function are not cleared once they are released.
Fault_Raise_KeepsWords == \E v \in Visible \cup {x \in Values : count[x] = 0} :
  /\ Runs({"fn"})
  /\ Fail(v, calls, open \ Own, OthersOf(Own), Released(Retained(count, v), Times(Top.words)))
  /\ UNCHANGED <<locked, returned, stray>>

\* lower_raise of a value that the code names, or of a new one: the reference
\* is taken, the function gives back what it holds (release_for_raise; the
\* words are cleared), then jumps.
Raise == \E v \in Visible \cup {x \in Values : count[x] = 0} :
  /\ Runs({"fn"})
  /\ LET cleared == [calls EXCEPT ![Here].words = <<>>]
     IN Fail(v, cleared, open \ Own, OthersOf(Own), Released(Retained(count, v), Times(Top.words)))
  /\ UNCHANGED <<locked, returned, stray>>

\* A builtin throws (exception.rs): the function that called it cleans nothing up.
Throw == \E v \in Values :
  /\ Runs({"fn"}) /\ count[v] = 0
  /\ Fail(v, calls, open, resources, Retained(count, v))
  /\ UNCHANGED <<locked, returned, stray>>

\* release_held: the clause is over; its code goes where the body's would.
EndHandler ==
  /\ Back({"handler"})
  /\ count' = Released(count, Times(Top.words))
  /\ unwind' = Front(unwind) /\ calls' = Handed
  /\ UNCHANGED <<pc, frames, resources, open, locked, returned, stray>>

\* No clause matches: the same exception goes on, while the trampoline has
\* it registered.
Propagate ==
  /\ Runs({"handler"})
  /\ Fail(Top.words[1], calls, open, resources, count)
  /\ stray' = stray \cup {Top.words[1]}
  /\ UNCHANGED <<locked, returned>>

\* Fault: the exception goes on before the mutex is given back.
Fault_LockFails_StaysLocked ==
  /\ pc = "run" /\ Top.kind = "lock" /\ Top.err # Null
  /\ Fail(Top.err, calls, open, resources, count)
  /\ UNCHANGED <<locked, returned, stray>>

\* withLock: the closure raised; the mutex is given back, then the exception
\* goes on.
LockFails ==
  /\ pc = "run" /\ Top.kind = "lock" /\ Top.err # Null
  /\ locked' = locked \ {Top.mutex}
  /\ Fail(Top.err, calls, open, resources, count)
  /\ UNCHANGED <<returned, stray>>

Next == \/ Call \/ NewLocal \/ Bind \/ Open \/ Close \/ Return \/ New \/ EndNew
        \/ Try \/ ReturnInTry \/ ExitInTry \/ EndTry \/ PassOn \/ LeaveLoop \/ ReturnFromTry
        \/ WithLock \/ EndLock
        \/ Raise \/ Throw \/ EndHandler \/ Propagate \/ LockFails

Spec == Init /\ [][Next]_vars

-----------------------------------------------------------------------------
(* Properties                                                              *)

Catches(act)   == act.kind \in {"try", "lock"} /\ act.err = Null
Registers(act) == act.kind \in {"fn", "new", "handler"}

\* The numbers s are those of S, in increasing order.
Enumerates(s, S) ==
  /\ \A i, j \in DOMAIN s : i < j => s[i] < s[j]
  /\ {s[i] : i \in DOMAIN s} = S

\* A longjmp always lands in a native frame that is still there and waits
\* for it: TRY_STACK lists exactly the ones that do, outermost first.
LandsAlive ==
  Enumerates([i \in DOMAIN frames |-> frames[i].act], {i \in DOMAIN calls : Catches(calls[i])})

\* UNWIND points at the words of native frames that are still there: no
\* dangling pointer, and none that holds references is missing.
UnwindExact == Enumerates(unwind, {i \in DOMAIN calls : Registers(calls[i])})

\* The two stacks that point into the native one never point at a frame that is gone.
StacksExact == TypeOK /\ LandsAlive /\ UnwindExact

\* No reference is lost, and none is given back twice, whichever way
\* functions are left; the references that Propagate mishandles aside.  A value
\* in TRY_RETURN is on its way to the function that the tries are in: no
\* program code runs, and no other return overwrites it, before it is taken.
CountsExact ==
  /\ returned # Null => Top.code = "return"
  /\ pc = "run" => \A v \in Values \ stray :
       count[v] = Cardinality(References(calls, 1..Len(calls), v))
                  + Cardinality({i \in 1..Len(calls) : calls[i].err = v})
                  + (IF returned = v THEN 1 ELSE 0)

\* A resource is open exactly as long as its variable exists: the function
\* that declared it is still there, and will close it once.
ClosedOnce ==
  /\ open = {e.res : e \in ToSet(resources)} /\ Cardinality(open) = Len(resources)
  /\ \A e \in ToSet(resources) : e.act <= Len(calls) /\ calls[e.act].kind = "fn"

\* A mutex is held exactly while its withLock is on the stack.
LockHeld == pc = "run" => locked = {calls[i].mutex : i \in 1..Len(calls)} \ {Null}

\* What a function opened or locked is given back once, whichever way it is left.
GivenBackOnce == ClosedOnce /\ LockHeld

\* An exception closes nothing of the functions that survive it.
CallersKept ==
  [][\A e \in ToSet(resources) : e.res \notin open' => e.act >= Len(calls')]_vars

\* The exception that a clause gets is still allocated ("Un gestionnaire qui
\* releve sort par longjmp et transfere la meme reference plus haut", lib.rs).
CaughtAlive ==
  \A i \in 1..Len(calls) : calls[i].kind = "handler" => count[calls[i].words[1]] > 0
=============================================================================
