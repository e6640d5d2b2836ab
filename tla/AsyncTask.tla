----------------------------- MODULE AsyncTask -----------------------------
(***************************************************************************)
(* What a program may rely on when it calls an `async` function            *)
(* (runtime/src/task.rs 1-20): the body runs at most once, on any thread;  *)
(* a resolve returns after the end of the body; one resolve gets the       *)
(* outcome, the others the default value; an outcome that nobody asks for  *)
(* is released.                                                            *)
(***************************************************************************)
EXTENDS Naturals

CONSTANTS Tasks, Threads

VARIABLES
  phase,   \* phase[t]: "unborn", "waiting", "running" or "over"
  asking,  \* asking[t]: the threads in a resolve of t
  handed   \* handed[t]: how often the outcome of t was given or released

vars == <<phase, asking, handed>>

Init ==
  /\ phase = [t \in Tasks |-> "unborn"]
  /\ asking = [t \in Tasks |-> {}]
  /\ handed = [t \in Tasks |-> 0]

Becomes(t, before, after) == phase[t] = before /\ phase' = [phase EXCEPT ![t] = after]

Spawn(t) == Becomes(t, "unborn", "waiting") /\ UNCHANGED <<asking, handed>>

Ask(th, t) ==
  /\ phase[t] # "unborn"
  /\ asking' = [asking EXCEPT ![t] = @ \cup {th}]
  /\ UNCHANGED <<phase, handed>>

\* On a thread of the pool, or on one that asks for the outcome.
Run(t) ==
  /\ Becomes(t, "waiting", "running")
  /\ asking' = asking \/ \E th \in Threads : asking' = [asking EXCEPT ![t] = @ \cup {th}]
  /\ UNCHANGED handed

End(t) == Becomes(t, "running", "over") /\ UNCHANGED <<asking, handed>>

Answer(th, t) ==
  /\ phase[t] = "over" /\ th \in asking[t]
  /\ asking' = [asking EXCEPT ![t] = @ \ {th}]
  /\ UNCHANGED phase

\* The outcome...
Give(th, t) == Answer(th, t) /\ handed[t] = 0 /\ handed' = [handed EXCEPT ![t] = 1]

\* ...or the default value, when another one gets the outcome.
GiveDefault(th, t) ==
  Answer(th, t) /\ (handed[t] = 1 \/ asking[t] # {th}) /\ UNCHANGED handed

Release(t) ==
  /\ phase[t] = "over" /\ asking[t] = {} /\ handed[t] = 0
  /\ handed' = [handed EXCEPT ![t] = 1]
  /\ UNCHANGED <<phase, asking>>

Next == \E t \in Tasks :
  \/ Spawn(t) \/ Run(t) \/ End(t) \/ Release(t)
  \/ \E th \in Threads : Ask(th, t) \/ Give(th, t) \/ GiveDefault(th, t)

Spec == Init /\ [][Next]_vars
=============================================================================
