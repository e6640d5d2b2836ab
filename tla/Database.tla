------------------------------ MODULE Database ------------------------------
(***************************************************************************)
(* The handles SQLite (runtime/src/sqlite.rs) and MySQL, MariaDB           *)
(* (runtime/src/mysql.rs): the flow prepare, bind, commit, rollback, the   *)
(* blocks that begin() opens, and the instructions executed at once.  A    *)
(* SQLite handle is one connection.  A MySQL handle is a pool; a cycle or  *)
(* a block keeps one connection of it, pinned_conn.                        *)
(*                                                                         *)
(* The engine is external: a statement may fail alone, or fail and take    *)
(* the transaction with it (a full disk, ON CONFLICT ROLLBACK, a           *)
(* deadlock); a connection to a server may be lost, and with it the answer *)
(* to what was asked last.  Results of SELECT, column conversions and the  *)
(* counters of lastInsertId() and affectedRows() are left out.  A close    *)
(* argument is the call of close() that it stands for.                     *)
(***************************************************************************)
EXTENDS Integers

CONSTANTS
  Conns,          \* connections of a pool
  Queries,        \* texts given to prepare()
  None,
  MaxStatements   \* bound: statements that succeed

ASSUME ConnAssumption == Conns # {} /\ None \notin Conns \cup Queries
ASSUME BoundAssumption == MaxStatements \in Nat

VARIABLES
  kind,      \* which of the two the handle is
  alive,     \* the handle is open
  pending,   \* pending_query
  binds,     \* pending_binds: the query that bind() was called for, or None
  explicit,  \* explicit_tx
  txOpen,    \* tx_open
  pinned,    \* pinned_conn; the connection of a SQLite handle
  tx,        \* tx[c]: the engine has a transaction open on c
  work,      \* work[c]: the writes of that transaction
  lost,      \* connections that the server has dropped
  durable,   \* the writes that another client sees
  made       \* statements that succeeded; a write is named by its number

vars   == <<kind, alive, pending, binds, explicit, txOpen, pinned, tx, work, lost, durable, made>>
handle == <<pending, binds, explicit, txOpen>>
engine == <<tx, work, lost, durable, made>>

Writes == 1..MaxStatements

(***************************************************************************)
(* The engine.  Without a transaction a write is durable at once.          *)
(***************************************************************************)
\* A statement succeeds on c; W is its write, or empty for a SELECT.
Applied(c, W) ==
  /\ c \notin lost /\ made < MaxStatements
  /\ made' = made + 1
  /\ work' = IF tx[c] THEN [work EXCEPT ![c] = @ \cup W] ELSE work
  /\ durable' = IF tx[c] THEN durable ELSE durable \cup W
  /\ UNCHANGED <<tx, lost>>

\* The engine ends the transaction of c without keeping its work.
GivenUp(c) ==
  /\ tx' = [tx EXCEPT ![c] = FALSE]
  /\ work' = [work EXCEPT ![c] = {}]
  /\ UNCHANGED <<durable, made>>

\* A statement fails on c, alone or with the transaction.
Failed(c) == UNCHANGED engine \/ (GivenUp(c) /\ UNCHANGED lost)

\* What the statement of the next call would write.
Effects == {{}, {made + 1}}

(***************************************************************************)
(* Opening and closing.  close() drops the connections, and the engine     *)
(* what they left uncommitted.  withOpen and withConnect end with it,      *)
(* whether their closure returned or raised.                               *)
(***************************************************************************)
Forget ==
  /\ pending' = None /\ binds' = None
  /\ explicit' = FALSE /\ txOpen' = FALSE

OpenSQLite ==
  /\ ~alive /\ kind = "sqlite"
  /\ alive' = TRUE
  /\ pinned' \in Conns
  /\ UNCHANGED <<kind, handle, engine>>

OpenMySQL ==
  /\ ~alive /\ kind = "mysql"
  /\ alive' = TRUE
  /\ UNCHANGED <<kind, pinned, handle, engine>>

Close ==
  /\ alive
  /\ alive' = FALSE /\ pinned' = None
  /\ tx' = [c \in Conns |-> FALSE] /\ work' = [c \in Conns |-> {}] /\ lost' = {}
  /\ Forget
  /\ UNCHANGED <<kind, durable, made>>

\* The server drops the pinned connection: it rolls back.
Lose ==
  /\ kind = "mysql" /\ pinned # None /\ pinned \notin lost
  /\ GivenUp(pinned)
  /\ lost' = {pinned}
  /\ UNCHANGED <<kind, alive, pinned, handle>>

(***************************************************************************)
(* execute, query and queryOne.                                            *)
(***************************************************************************)
\* Fault: also inside a block, any connection of the pool.
Fault_AcquireConn_Pool == Conns \ {pinned}

\* acquire_conn: the pinned connection inside a block, else one of the pool;
\* the pool may have none to give.
AcquireConn == IF explicit THEN {pinned} ELSE Conns \ {pinned}

ExecuteSQLite ==
  /\ alive /\ kind = "sqlite"
  /\ (\E W \in Effects : Applied(pinned, W)) \/ Failed(pinned)
  /\ UNCHANGED <<kind, alive, pinned, handle>>

ExecuteMySQL ==
  /\ alive /\ kind = "mysql"
  /\ \/ \E c \in AcquireConn, W \in Effects : Applied(c, W)
     \/ \E c \in AcquireConn : Failed(c)
  /\ UNCHANGED <<kind, alive, pinned, handle>>

(***************************************************************************)
(* prepare and bind.  A call that raises and changes nothing is not a step. *)
(***************************************************************************)
PrepareSQLite(q) ==
  /\ alive /\ kind = "sqlite"
  /\ pending' = q /\ binds' = None
  /\ UNCHANGED <<kind, alive, explicit, txOpen, pinned, engine>>

\* rollback_pending: ROLLBACK when tx_open says so.  The connection goes back
\* to the pool, which throws one that is lost away.
Ends == IF txOpen /\ pinned # None THEN {pinned} ELSE {}
TxAfter == [c \in Conns |-> tx[c] /\ c \notin Ends]
WorkAfter == [c \in Conns |-> IF c \in Ends THEN {} ELSE work[c]]

\* Fault: the pinned connection is replaced as it is.
Fault_PrepareMySQL_NoRollback(q) ==
  /\ alive /\ kind = "mysql" /\ ~explicit
  /\ pending' = q /\ binds' = None /\ pinned' \in Conns
  /\ lost' = {}
  /\ UNCHANGED <<kind, alive, explicit, txOpen, tx, work, durable, made>>

\* Inside a block the query joins it; else an older cycle is cancelled first,
\* also when no connection is to be had or the text is refused.
PrepareMySQL(q) ==
  /\ alive /\ kind = "mysql" /\ binds' = None
  /\ \/ /\ explicit /\ pinned \notin lost
        /\ pending' = q
        /\ UNCHANGED <<explicit, txOpen, pinned, engine>>
     \/ /\ ~explicit
        /\ tx' = TxAfter /\ work' = WorkAfter /\ lost' = {}
        /\ explicit' = FALSE /\ txOpen' = FALSE
        /\ \/ pinned' \in Conns /\ pending' = q
           \/ pinned' = None /\ pending' = None
        /\ UNCHANGED <<durable, made>>
  /\ UNCHANGED <<kind, alive>>

Bind ==
  /\ alive /\ pending # None
  /\ binds' = pending
  /\ UNCHANGED <<kind, alive, pending, explicit, txOpen, pinned, engine>>

(***************************************************************************)
(* begin.  SQLite refuses BEGIN in an open transaction; a server commits    *)
(* what the connection had open.                                           *)
(***************************************************************************)
BeginSQLite ==
  /\ alive /\ kind = "sqlite" /\ ~explicit /\ ~tx[pinned]
  /\ tx' = [tx EXCEPT ![pinned] = TRUE]
  /\ explicit' = TRUE /\ txOpen' = TRUE
  /\ UNCHANGED <<kind, alive, pending, binds, pinned, work, lost, durable, made>>

BeginMySQL ==
  /\ alive /\ kind = "mysql" /\ ~explicit
  /\ pending' = None /\ binds' = None /\ lost' = {}
  /\ \/ \E c \in Conns :
          /\ tx' = [TxAfter EXCEPT ![c] = TRUE]
          /\ work' = [WorkAfter EXCEPT ![c] = {}]
          /\ durable' = durable \cup WorkAfter[c]
          /\ pinned' = c /\ explicit' = TRUE /\ txOpen' = TRUE
     \/ /\ tx' = TxAfter /\ work' = WorkAfter
        /\ pinned' = None /\ explicit' = FALSE /\ txOpen' = FALSE
        /\ UNCHANGED durable
  /\ UNCHANGED <<kind, alive, made>>

(***************************************************************************)
(* commit: BEGIN unless a block is open, the prepared query, COMMIT.  It   *)
(* raises where one of them fails, and leaves the rest as it is.           *)
(***************************************************************************)
\* The pinned connection once its transaction is started.
Inside == ~explicit \/ tx[pinned]
Held   == IF explicit THEN work[pinned] ELSE {}
Base   == IF explicit THEN durable ELSE durable \cup work[pinned]

\* What the prepared query may write, and how it counts.
Prepared == IF pending = None THEN {{}} ELSE Effects
Counted  == IF pending = None THEN made ELSE made + 1

\* The connection is left with the transaction `in', which holds H.
LeftWith(in, H) ==
  /\ tx' = [tx EXCEPT ![pinned] = in]
  /\ work' = [work EXCEPT ![pinned] = H]

\* Fault: tx_open is set once COMMIT has succeeded.
Fault_Raises_Unknown == UNCHANGED <<pending, binds, explicit, txOpen, pinned>>

Raises ==
  /\ txOpen' = (txOpen \/ ~explicit)
  /\ UNCHANGED <<pending, binds, explicit, pinned>>

QueryFails ==
  /\ pending # None
  /\ LeftWith(Inside, Held) \/ LeftWith(FALSE, {})
  /\ durable' = Base
  /\ Raises /\ UNCHANGED <<lost, made>>

Succeeds ==
  /\ Counted <= MaxStatements /\ made' = Counted
  /\ \E W \in Prepared : durable' = Base \cup Held \cup W
  /\ LeftWith(FALSE, {})
  /\ Forget /\ UNCHANGED lost

\* COMMIT fails: keeps, with the transaction open, or given up.
Refused(keeps) ==
  /\ Counted <= MaxStatements /\ made' = Counted
  /\ \E W \in Prepared :
       /\ durable' = IF Inside THEN Base ELSE Base \cup W
       /\ IF Inside /\ keeps THEN LeftWith(TRUE, Held \cup W) ELSE LeftWith(FALSE, {})
  /\ Raises /\ UNCHANGED lost

\* The server commits, and its answer is lost.
Unanswered ==
  /\ Counted <= MaxStatements /\ made' = Counted
  /\ \E W \in Prepared : durable' = Base \cup Held \cup W
  /\ LeftWith(FALSE, {})
  /\ lost' = {pinned} /\ Raises

\* SQLite refuses a COMMIT without a transaction, and keeps the transaction
\* of one that fails (a busy file, a deferred constraint).
CommitSQLite ==
  /\ alive /\ kind = "sqlite" /\ (pending # None \/ explicit)
  /\ explicit \/ ~tx[pinned]
  /\ \/ QueryFails /\ UNCHANGED pinned
     \/ Succeeds /\ Inside /\ UNCHANGED pinned
     \/ \E keeps \in BOOLEAN : Refused(keeps)
  /\ UNCHANGED <<kind, alive>>

CommitMySQL ==
  /\ alive /\ kind = "mysql" /\ (pending # None \/ explicit)
  /\ pinned # None /\ pinned \notin lost
  /\ QueryFails \/ (Succeeds /\ pinned' = None) \/ Refused(FALSE) \/ Unanswered
  /\ UNCHANGED <<kind, alive>>

(***************************************************************************)
(* rollback.                                                               *)
(***************************************************************************)
RollbackSQLite ==
  /\ alive /\ kind = "sqlite"
  /\ tx' = TxAfter /\ work' = WorkAfter
  /\ Forget
  /\ UNCHANGED <<kind, alive, pinned, lost, durable, made>>

RollbackMySQL ==
  /\ alive /\ kind = "mysql"
  /\ tx' = TxAfter /\ work' = WorkAfter /\ lost' = {} /\ pinned' = None
  /\ Forget
  /\ UNCHANGED <<kind, alive, durable, made>>

Init ==
  /\ kind \in {"sqlite", "mysql"} /\ alive = FALSE
  /\ pending = None /\ binds = None /\ explicit = FALSE /\ txOpen = FALSE
  /\ pinned = None /\ lost = {}
  /\ tx = [c \in Conns |-> FALSE] /\ work = [c \in Conns |-> {}]
  /\ durable = {} /\ made = 0

Next ==
  \/ OpenSQLite \/ OpenMySQL \/ Close \/ Lose
  \/ ExecuteSQLite \/ ExecuteMySQL
  \/ \E q \in Queries : PrepareSQLite(q) \/ PrepareMySQL(q)
  \/ Bind
  \/ BeginSQLite \/ BeginMySQL
  \/ CommitSQLite \/ CommitMySQL
  \/ RollbackSQLite \/ RollbackMySQL

Spec == Init /\ [][Next]_vars

(***************************************************************************)
(* Properties                                                              *)
(***************************************************************************)
\* The values of the handle's fields; only a connection that the handle holds
\* can be one that the server dropped.
HandleOK ==
  /\ kind \in {"sqlite", "mysql"} /\ alive \in BOOLEAN
  /\ pending \in Queries \cup {None} /\ binds \in Queries \cup {None}
  /\ explicit \in BOOLEAN /\ txOpen \in BOOLEAN
  /\ pinned \in Conns \cup {None} /\ lost \subseteq {pinned} \ {None}

EngineOK ==
  /\ tx \in [Conns -> BOOLEAN] /\ work \in [Conns -> SUBSET Writes]
  /\ durable \in SUBSET Writes /\ made \in 0..MaxStatements

TypeOK == HandleOK /\ EngineOK

\* "ne JAMAIS rendre une connexion mid-transaction au pool" (mysql.rs:502): a
\* connection that the handle does not hold has no transaction, so that no
\* later instruction joins one by chance.
PoolClean == \A c \in Conns : c # pinned => ~tx[c] /\ work[c] = {}

\* Whatever failed before it, rollback() finds what the engine has open:
\* tx_open is set before anything can fail inside the transaction.
TransactionKnown == pinned # None /\ tx[pinned] => txOpen

\* commit() and the instructions of a block never meet their "internal error:
\* no pinned connection" (mysql.rs:493 and 672).
CycleHasConnection == alive /\ (explicit \/ pending # None) => pinned # None

\* commit() never runs a query with the values bound for an earlier one.
BindsOfPending == binds \in {None, pending}

\* The fields of the handle agree with the engine, whatever call failed.
HandleExact == TypeOK /\ TransactionKnown /\ CycleHasConnection /\ BindsOfPending

\* The handle keeps what the documentation promises: what other clients see
\* changes by whole transactions only, and a write that rollback(), close(),
\* prepare() or begin() cancelled never shows up.
OpenWrites == UNION {work[c] : c \in Conns}
Mode == IF \A c \in Conns : ~tx[c] THEN "auto" ELSE IF explicit THEN "block" ELSE "failed"
Promise == INSTANCE Transactions WITH open <- OpenWrites, mode <- Mode, named <- 1..made
KeepsPromise == Promise!Spec

\* "toutes les instructions suivantes en font partie jusqu'au commit() ... ou
\* au rollback(), qui annule l'ensemble" (docs/builtins/SQLite.md:120): while a
\* block is open, and its connection too, nothing becomes durable.
BlockWhole == [][explicit /\ explicit' /\ lost' = lost => durable' = durable]_vars
=============================================================================
