---------------------------- MODULE Transactions ----------------------------
(***************************************************************************)
(* What the documentation of SQLite and MySQL (docs/builtins) promises of  *)
(* one handle, whatever becomes of the connections under it: what is       *)
(* durable changes by the write of one instruction or by a whole block,    *)
(* and a write that was cancelled is never seen again.                     *)
(***************************************************************************)
CONSTANT Writes

VARIABLES
  durable,  \* the writes that another client of the database sees
  open,     \* the writes of the transaction that is open
  mode,     \* "auto"; "block" after begin(); "failed" after a commit() that
            \* raised with its own transaction open
  named     \* the writes so far, the cancelled ones included

vars == <<durable, open, mode, named>>

Init == durable = {} /\ open = {} /\ mode = "auto" /\ named = {}

\* A statement with the new write of W, if it has one.
New(W) ==
  \/ W = {} /\ named' = named
  \/ \E w \in Writes \ named : W \subseteq {w} /\ named' = named \cup {w}

\* An instruction outside a block, or prepare() ... commit().
Single(W) ==
  /\ mode # "block"
  /\ durable' = durable \cup W
  /\ UNCHANGED <<open, mode>>

\* commit() is called again after it failed.
Retry(W) ==
  /\ mode = "failed" /\ open = {}
  /\ durable' = durable \cup W
  /\ mode' = "auto" /\ UNCHANGED open

\* begin(); the transaction that a failed commit() left is cancelled.
Begin ==
  /\ mode # "block"
  /\ mode' = "block" /\ open' = {}
  /\ UNCHANGED durable

\* An instruction of the open transaction.
Join(W) ==
  /\ mode # "auto"
  /\ open' = open \cup W
  /\ UNCHANGED <<durable, mode>>

\* commit() of a block, with the write of the query it has prepared.
Commit(W) ==
  /\ mode = "block"
  /\ durable' = durable \cup open \cup W
  /\ open' = {} /\ mode' = "auto"

\* commit() outside a block raises: "la transaction reste ouverte".
Leave(W) ==
  /\ mode = "auto"
  /\ open' = W /\ mode' = "failed"
  /\ UNCHANGED durable

\* rollback(), close(), or an engine that gives the transaction up; W is the
\* write of the statement that did not survive it.
Drop(W) ==
  /\ open' = {} /\ mode' = "auto"
  /\ UNCHANGED durable

Next == \E W \in SUBSET Writes :
  /\ New(W)
  /\ \/ Single(W) \/ Retry(W) \/ Join(W) \/ Commit(W) \/ Leave(W) \/ Drop(W)
     \/ Begin /\ W = {}

Spec == Init /\ [][Next]_vars
=============================================================================
