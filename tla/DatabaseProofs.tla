--------------------------- MODULE DatabaseProofs ---------------------------
(***************************************************************************)
(* For every pool, every set of queries and any number of statements: the  *)
(* fields of a handle tell what the engine has open, and the handle        *)
(* implements Transactions.                                                *)
(***************************************************************************)
EXTENDS Database, TLAPS

-----------------------------------------------------------------------------
(* The inductive invariant                                                 *)

Resting       == ~alive => pinned = None /\ pending = None /\ ~explicit /\ ~txOpen
OneConnection == alive /\ kind = "sqlite" => pinned # None
NoServer      == kind = "sqlite" => lost = {}
BlockKnown    == explicit => txOpen
LostIsOver    == \A c \in lost : ~tx[c]
WorkInside    == \A c \in Conns : ~tx[c] => work[c] = {}
WritesNamed   == durable \subseteq 1..made /\ \A c \in Conns : work[c] \subseteq 1..made
\* What a failed commit() leaves on a server's connection holds no write: the
\* START TRANSACTION of a retry, which would commit it, commits nothing.
NoLeftover    == kind = "mysql" /\ ~explicit => \A c \in Conns : work[c] = {}

Fields == Resting /\ OneConnection /\ NoServer /\ BlockKnown
Engine == LostIsOver /\ WorkInside /\ WritesNamed /\ NoLeftover
IInv   == TypeOK /\ PoolClean /\ TransactionKnown /\ CycleHasConnection
          /\ BindsOfPending /\ Fields /\ Engine

LEMMA InitInv == Init => IInv
<1> SUFFICES ASSUME Init PROVE IInv
  OBVIOUS
<1> USE ConnAssumption, BoundAssumption DEF Init
<1>1. HandleOK
  BY DEF HandleOK
<1>5. EngineOK
  BY DEF EngineOK
<1>2. PoolClean /\ TransactionKnown /\ CycleHasConnection /\ BindsOfPending
  BY DEF PoolClean, TransactionKnown, CycleHasConnection, BindsOfPending
<1>3. Fields
  BY DEF Fields, Resting, OneConnection, NoServer, BlockKnown
<1>4. Engine
  BY DEF Engine, LostIsOver, WorkInside, WritesNamed, NoLeftover
<1> QED BY <1>1, <1>2, <1>3, <1>4, <1>5 DEF IInv, TypeOK

\* The number of the next statement names a write that is new.
LEMMA NextWrite ==
  ASSUME EngineOK
  PROVE  /\ 1..made \subseteq 1..(made + 1) /\ made + 1 \in 1..(made + 1)
         /\ made < MaxStatements => made + 1 \in Writes /\ made + 1 \in 0..MaxStatements
         /\ made + 1 <= MaxStatements => made < MaxStatements
         /\ made \in Nat /\ made + 1 \notin 1..made /\ 1..(made + 1) = (1..made) \cup {made + 1}
BY BoundAssumption DEF EngineOK, Writes

LEMMA AppliedTypes ==
  ASSUME EngineOK, WritesNamed, NEW c \in Conns, NEW W \in Effects, Applied(c, W)
  PROVE  EngineOK' /\ WritesNamed'
<1>1. W \subseteq Writes /\ W \subseteq 1..(made + 1) /\ made' = made + 1 /\ made' \in 0..MaxStatements
  BY NextWrite DEF Effects, Applied
<1>2. EngineOK'
  BY <1>1 DEF EngineOK, Applied
<1>3. \A d \in Conns : work[d] \subseteq 1..(made + 1) /\ durable \subseteq 1..(made + 1)
  BY NextWrite DEF WritesNamed
<1>4. \A d \in Conns : work'[d] \subseteq 1..(made + 1)
  BY <1>1, <1>3 DEF Applied, EngineOK
<1>5. durable' \subseteq 1..(made + 1)
  BY <1>1, <1>3 DEF Applied
<1> QED BY <1>1, <1>2, <1>4, <1>5 DEF WritesNamed

LEMMA FailedTypes ==
  ASSUME EngineOK, WritesNamed, NEW c \in Conns, Failed(c)
  PROVE  EngineOK' /\ WritesNamed'
<1>1. CASE UNCHANGED engine
  BY <1>1 DEF engine, EngineOK, WritesNamed
<1>2. CASE GivenUp(c)
  BY <1>2 DEF GivenUp, EngineOK, WritesNamed
<1> QED BY <1>1, <1>2 DEF Failed

\* What commit() makes of the prepared query.
LEMMA PreparedTypes ==
  ASSUME EngineOK, WritesNamed, Counted <= MaxStatements, NEW W \in Prepared
  PROVE  /\ W \subseteq Writes /\ W \subseteq 1..Counted /\ Counted \in 0..MaxStatements
         /\ durable \subseteq 1..Counted /\ \A d \in Conns : work[d] \subseteq 1..Counted
<1>1. CASE pending = None
  BY <1>1 DEF EngineOK, WritesNamed, Counted, Prepared
<1>2. CASE pending # None
  <2>1. Counted = made + 1 /\ W \in Effects
    BY <1>2 DEF Counted, Prepared
  <2> QED BY <2>1, NextWrite DEF Effects, WritesNamed
<1> QED BY <1>1, <1>2


-----------------------------------------------------------------------------
(* Every step keeps it                                                     *)

LEMMA OpenSQLiteInv ==
  ASSUME IInv, OpenSQLite
  PROVE  IInv'
<1> USE ConnAssumption DEF IInv, TypeOK, Engine, OpenSQLite, handle, engine
<1>1. HandleOK'
  BY DEF HandleOK, EngineOK, Fields, Resting, OneConnection, BlockKnown
<1>2. EngineOK'
  BY DEF EngineOK
<1>3. PoolClean'
  BY DEF PoolClean, HandleOK, EngineOK, Fields, Resting, OneConnection, BlockKnown
<1>4. TransactionKnown' /\ CycleHasConnection' /\ BindsOfPending'
  BY DEF TransactionKnown, CycleHasConnection, BindsOfPending, HandleOK, EngineOK, PoolClean,
         Fields, Resting, OneConnection, NoServer, BlockKnown, LostIsOver, WorkInside,
         NoLeftover
<1>5. Fields'
  BY DEF Fields, Resting, OneConnection, NoServer, BlockKnown
<1>6. LostIsOver' /\ WorkInside'
  BY DEF LostIsOver, WorkInside
<1>7. WritesNamed'
  BY DEF WritesNamed
<1>8. NoLeftover'
  BY DEF NoLeftover
<1> QED BY <1>1, <1>2, <1>3, <1>4, <1>5, <1>6, <1>7, <1>8

LEMMA OpenMySQLInv ==
  ASSUME IInv, OpenMySQL
  PROVE  IInv'
<1> USE ConnAssumption DEF IInv, TypeOK, Engine, OpenMySQL, handle, engine
<1>1. HandleOK'
  BY DEF HandleOK
<1>2. EngineOK'
  BY DEF EngineOK
<1>3. PoolClean'
  BY DEF PoolClean
<1>4. TransactionKnown' /\ CycleHasConnection' /\ BindsOfPending'
  BY DEF TransactionKnown, CycleHasConnection, BindsOfPending, HandleOK, EngineOK, Fields,
         Resting, OneConnection, BlockKnown
<1>5. Fields'
  BY DEF Fields, Resting, OneConnection, NoServer, BlockKnown
<1>6. LostIsOver' /\ WorkInside'
  BY DEF LostIsOver, WorkInside
<1>7. WritesNamed'
  BY DEF WritesNamed
<1>8. NoLeftover'
  BY DEF NoLeftover
<1> QED BY <1>1, <1>2, <1>3, <1>4, <1>5, <1>6, <1>7, <1>8

LEMMA CloseInv ==
  ASSUME IInv, Close
  PROVE  IInv'
<1> USE ConnAssumption DEF IInv, TypeOK, Engine, Close, Forget, handle, engine
<1>1. HandleOK'
  BY DEF HandleOK
<1>2. EngineOK'
  BY DEF EngineOK
<1>3. PoolClean'
  BY DEF PoolClean
<1>4. TransactionKnown' /\ CycleHasConnection' /\ BindsOfPending'
  BY DEF TransactionKnown, CycleHasConnection, BindsOfPending
<1>5. Fields'
  BY DEF Fields, Resting, OneConnection, NoServer, BlockKnown
<1>6. LostIsOver' /\ WorkInside'
  BY DEF LostIsOver, WorkInside
<1>7. WritesNamed'
  BY DEF WritesNamed
<1>8. NoLeftover'
  BY DEF NoLeftover
<1> QED BY <1>1, <1>2, <1>3, <1>4, <1>5, <1>6, <1>7, <1>8

LEMMA LoseInv ==
  ASSUME IInv, Lose
  PROVE  IInv'
<1> USE ConnAssumption DEF IInv, TypeOK, Engine, Lose, GivenUp, handle, engine
<1>1. HandleOK'
  BY DEF HandleOK
<1>2. EngineOK'
  BY DEF EngineOK
<1>3. PoolClean'
  BY DEF PoolClean
<1>4. TransactionKnown' /\ CycleHasConnection' /\ BindsOfPending'
  BY DEF TransactionKnown, CycleHasConnection, BindsOfPending
<1>5. Fields'
  BY DEF Fields, Resting, OneConnection, NoServer, BlockKnown
<1>6. LostIsOver' /\ WorkInside'
  BY DEF LostIsOver, WorkInside, HandleOK, EngineOK
<1>7. WritesNamed'
  BY DEF WritesNamed
<1>8. NoLeftover'
  BY DEF NoLeftover
<1> QED BY <1>1, <1>2, <1>3, <1>4, <1>5, <1>6, <1>7, <1>8

LEMMA ExecuteSQLiteInv ==
  ASSUME IInv, ExecuteSQLite
  PROVE  IInv'
<1> USE ConnAssumption DEF IInv, TypeOK, Engine, ExecuteSQLite, Applied, Failed, GivenUp,
        Effects, handle, engine
<1>1. HandleOK'
  BY DEF HandleOK
<1>2. EngineOK' /\ WritesNamed'
  <2>1. pinned \in Conns
    BY DEF HandleOK, Fields, OneConnection
  <2>2. CASE \E W \in Effects : Applied(pinned, W)
    BY <2>1, <2>2, AppliedTypes
  <2>3. CASE Failed(pinned)
    BY <2>1, <2>3, FailedTypes
  <2> QED BY <2>2, <2>3
<1>3. PoolClean'
  BY DEF PoolClean, HandleOK, EngineOK
<1>4. TransactionKnown' /\ CycleHasConnection' /\ BindsOfPending'
  BY DEF TransactionKnown, CycleHasConnection, BindsOfPending, HandleOK, EngineOK
<1>5. Fields'
  BY DEF Fields, Resting, OneConnection, NoServer, BlockKnown
<1>6. LostIsOver' /\ WorkInside'
  BY DEF LostIsOver, WorkInside, HandleOK, EngineOK
<1>8. NoLeftover'
  BY DEF NoLeftover
<1> QED BY <1>1, <1>2, <1>3, <1>4, <1>5, <1>6, <1>8

LEMMA ExecuteMySQLInv ==
  ASSUME IInv, ExecuteMySQL
  PROVE  IInv'
<1> USE ConnAssumption DEF IInv, TypeOK, Engine, ExecuteMySQL, Applied, Failed, GivenUp,
        Effects, AcquireConn, handle, engine
<1>1. HandleOK'
  BY DEF HandleOK
<1>2. EngineOK' /\ WritesNamed'
  <2>1. AcquireConn \subseteq Conns
    BY DEF HandleOK, CycleHasConnection
  <2>2. CASE \E c \in AcquireConn, W \in Effects : Applied(c, W)
    BY <2>1, <2>2, AppliedTypes
  <2>3. CASE \E c \in AcquireConn : Failed(c)
    BY <2>1, <2>3, FailedTypes
  <2> QED BY <2>2, <2>3
<1>3. PoolClean'
  BY DEF PoolClean, HandleOK, EngineOK
<1>4. TransactionKnown' /\ CycleHasConnection' /\ BindsOfPending'
  BY DEF TransactionKnown, CycleHasConnection, BindsOfPending, HandleOK, EngineOK
<1>5. Fields'
  BY DEF Fields, Resting, OneConnection, NoServer, BlockKnown
<1>6. LostIsOver' /\ WorkInside'
  BY DEF LostIsOver, WorkInside, HandleOK, EngineOK
<1>8. NoLeftover'
  BY DEF NoLeftover, HandleOK, EngineOK, PoolClean, Fields, Resting, OneConnection, NoServer,
         BlockKnown, LostIsOver, WorkInside, TransactionKnown
<1> QED BY <1>1, <1>2, <1>3, <1>4, <1>5, <1>6, <1>8

LEMMA PrepareSQLiteInv ==
  ASSUME IInv, NEW q \in Queries, PrepareSQLite(q)
  PROVE  IInv'
<1> USE ConnAssumption DEF IInv, TypeOK, Engine, PrepareSQLite, handle, engine
<1>1. HandleOK'
  BY DEF HandleOK
<1>2. EngineOK'
  BY DEF EngineOK
<1>3. PoolClean'
  BY DEF PoolClean
<1>4. TransactionKnown' /\ CycleHasConnection' /\ BindsOfPending'
  BY DEF TransactionKnown, CycleHasConnection, BindsOfPending, HandleOK, EngineOK, Fields,
         Resting, OneConnection, BlockKnown
<1>5. Fields'
  BY DEF Fields, Resting, OneConnection, NoServer, BlockKnown
<1>6. LostIsOver' /\ WorkInside'
  BY DEF LostIsOver, WorkInside
<1>7. WritesNamed'
  BY DEF WritesNamed
<1>8. NoLeftover'
  BY DEF NoLeftover
<1> QED BY <1>1, <1>2, <1>3, <1>4, <1>5, <1>6, <1>7, <1>8

LEMMA PrepareMySQLInv ==
  ASSUME IInv, NEW q \in Queries, PrepareMySQL(q)
  PROVE  IInv'
<1> USE ConnAssumption DEF IInv, TypeOK, Engine, PrepareMySQL, Ends, TxAfter, WorkAfter, handle,
        engine
<1>1. HandleOK'
  BY DEF HandleOK
<1>2. EngineOK'
  BY DEF EngineOK
<1>3. PoolClean'
  BY DEF PoolClean, HandleOK, EngineOK, Fields, Resting, OneConnection, NoServer, BlockKnown,
         LostIsOver, WorkInside, TransactionKnown, NoLeftover
<1>4. TransactionKnown' /\ CycleHasConnection' /\ BindsOfPending'
  BY DEF TransactionKnown, CycleHasConnection, BindsOfPending, HandleOK, EngineOK, PoolClean,
         Fields, Resting, OneConnection, NoServer, BlockKnown, LostIsOver, WorkInside,
         NoLeftover
<1>5. Fields'
  BY DEF Fields, Resting, OneConnection, NoServer, BlockKnown
<1>6. LostIsOver' /\ WorkInside'
  BY DEF LostIsOver, WorkInside
<1>7. WritesNamed'
  BY DEF WritesNamed
<1>8. NoLeftover'
  BY DEF NoLeftover
<1> QED BY <1>1, <1>2, <1>3, <1>4, <1>5, <1>6, <1>7, <1>8

LEMMA BindInv ==
  ASSUME IInv, Bind
  PROVE  IInv'
<1> USE ConnAssumption DEF IInv, TypeOK, Engine, Bind, handle, engine
<1>1. HandleOK'
  BY DEF HandleOK
<1>2. EngineOK'
  BY DEF EngineOK
<1>3. PoolClean'
  BY DEF PoolClean
<1>4. TransactionKnown' /\ CycleHasConnection' /\ BindsOfPending'
  BY DEF TransactionKnown, CycleHasConnection, BindsOfPending
<1>5. Fields'
  BY DEF Fields, Resting, OneConnection, NoServer, BlockKnown
<1>6. LostIsOver' /\ WorkInside'
  BY DEF LostIsOver, WorkInside
<1>7. WritesNamed'
  BY DEF WritesNamed
<1>8. NoLeftover'
  BY DEF NoLeftover
<1> QED BY <1>1, <1>2, <1>3, <1>4, <1>5, <1>6, <1>7, <1>8

LEMMA BeginSQLiteInv ==
  ASSUME IInv, BeginSQLite
  PROVE  IInv'
<1> USE ConnAssumption DEF IInv, TypeOK, Engine, BeginSQLite, handle, engine
<1>1. HandleOK'
  BY DEF HandleOK
<1>2. EngineOK'
  BY DEF EngineOK
<1>3. PoolClean'
  BY DEF PoolClean
<1>4. TransactionKnown' /\ CycleHasConnection' /\ BindsOfPending'
  BY DEF TransactionKnown, CycleHasConnection, BindsOfPending, HandleOK, EngineOK, Fields,
         Resting, OneConnection, BlockKnown
<1>5. Fields'
  BY DEF Fields, Resting, OneConnection, NoServer, BlockKnown
<1>6. LostIsOver' /\ WorkInside'
  BY DEF LostIsOver, WorkInside, HandleOK, EngineOK, PoolClean, Fields, Resting, OneConnection,
         NoServer, BlockKnown, TransactionKnown, NoLeftover
<1>7. WritesNamed'
  BY DEF WritesNamed
<1>8. NoLeftover'
  BY DEF NoLeftover
<1> QED BY <1>1, <1>2, <1>3, <1>4, <1>5, <1>6, <1>7, <1>8

LEMMA BeginMySQLInv ==
  ASSUME IInv, BeginMySQL
  PROVE  IInv'
<1> USE ConnAssumption DEF IInv, TypeOK, Engine, BeginMySQL, Ends, TxAfter, WorkAfter, handle,
        engine
<1>1. HandleOK'
  BY DEF HandleOK
<1>2. EngineOK'
  BY DEF EngineOK
<1>3. PoolClean'
  BY DEF PoolClean, HandleOK, EngineOK, Fields, Resting, OneConnection, NoServer, BlockKnown,
         LostIsOver, WorkInside, TransactionKnown, NoLeftover
<1>4. TransactionKnown' /\ CycleHasConnection' /\ BindsOfPending'
  BY DEF TransactionKnown, CycleHasConnection, BindsOfPending
<1>5. Fields'
  BY DEF Fields, Resting, OneConnection, NoServer, BlockKnown
<1>6. LostIsOver' /\ WorkInside'
  BY DEF LostIsOver, WorkInside
<1>7. WritesNamed'
  BY DEF WritesNamed
<1>8. NoLeftover'
  BY DEF NoLeftover
<1> QED BY <1>1, <1>2, <1>3, <1>4, <1>5, <1>6, <1>7, <1>8

LEMMA CommitSQLiteInv ==
  ASSUME IInv, CommitSQLite
  PROVE  IInv'
<1> USE ConnAssumption DEF IInv, TypeOK, Engine, CommitSQLite, Forget, Inside, Held, Base,
        Prepared, Counted, LeftWith, Raises, Effects, QueryFails, Succeeds, Refused, handle,
        engine
<1>1. HandleOK'
  BY DEF HandleOK
<1>2. EngineOK' /\ WritesNamed'
  <2>1. pinned \in Conns
    BY DEF HandleOK, CycleHasConnection
  <2>2. CASE QueryFails
    BY <2>1, <2>2 DEF QueryFails, LeftWith, Held, Base, EngineOK, WritesNamed
  <2>3. CASE Succeeds
    <3>1. Counted <= MaxStatements /\ made' = Counted
      BY <2>3 DEF Succeeds
    <3>2. durable' \subseteq Writes /\ durable' \subseteq 1..Counted
      BY <2>1, <2>3, <3>1, PreparedTypes DEF Succeeds, Held, Base, EngineOK
    <3>3. work' \in [Conns -> SUBSET Writes] /\ \A d \in Conns : work'[d] \subseteq 1..Counted
      BY <2>1, <2>3, <3>1, PreparedTypes DEF Succeeds, LeftWith, Held, Base, EngineOK
    <3>4. tx' \in [Conns -> BOOLEAN] /\ made' \in 0..MaxStatements
      BY <2>1, <2>3, <3>1, PreparedTypes, Zenon DEF Succeeds, LeftWith, EngineOK, Prepared, Effects
    <3> QED BY <3>1, <3>2, <3>3, <3>4 DEF EngineOK, WritesNamed
  <2>4. CASE \E keeps \in BOOLEAN : Refused(keeps)
    <3>1. Counted <= MaxStatements /\ made' = Counted
      BY <2>4 DEF Refused
    <3>2. durable' \subseteq Writes /\ durable' \subseteq 1..Counted
      BY <2>1, <2>4, <3>1, PreparedTypes DEF Refused, Held, Base, EngineOK
    <3>3. work' \in [Conns -> SUBSET Writes] /\ \A d \in Conns : work'[d] \subseteq 1..Counted
      BY <2>1, <2>4, <3>1, PreparedTypes DEF Refused, LeftWith, Held, Base, EngineOK
    <3>4. tx' \in [Conns -> BOOLEAN] /\ made' \in 0..MaxStatements
      BY <2>1, <2>4, <3>1, PreparedTypes, Zenon DEF Refused, LeftWith, EngineOK, Prepared, Effects
    <3> QED BY <3>1, <3>2, <3>3, <3>4 DEF EngineOK, WritesNamed
  <2> QED BY <2>2, <2>3, <2>4
<1>3. PoolClean'
  BY DEF PoolClean, HandleOK, EngineOK
<1>4. TransactionKnown' /\ CycleHasConnection' /\ BindsOfPending'
  BY DEF TransactionKnown, CycleHasConnection, BindsOfPending, HandleOK, EngineOK
<1>5. Fields'
  BY DEF Fields, Resting, OneConnection, NoServer, BlockKnown
<1>6. LostIsOver' /\ WorkInside'
  BY DEF LostIsOver, WorkInside, HandleOK, EngineOK, PoolClean, Fields, Resting, OneConnection,
         NoServer, BlockKnown, TransactionKnown, NoLeftover
<1>8. NoLeftover'
  BY DEF NoLeftover
<1> QED BY <1>1, <1>2, <1>3, <1>4, <1>5, <1>6, <1>8

LEMMA CommitMySQLInv ==
  ASSUME IInv, CommitMySQL
  PROVE  IInv'
<1> USE ConnAssumption DEF IInv, TypeOK, Engine, CommitMySQL, Forget, Inside, Held, Base,
        Prepared, Counted, LeftWith, Raises, Effects, QueryFails, Succeeds, Refused, Unanswered,
        handle, engine
<1>1. HandleOK'
  BY DEF HandleOK
<1>2. EngineOK' /\ WritesNamed'
  <2>1. pinned \in Conns
    BY DEF HandleOK, CycleHasConnection
  <2>2. CASE QueryFails
    BY <2>1, <2>2 DEF QueryFails, LeftWith, Held, Base, EngineOK, WritesNamed
  <2>3. CASE Succeeds
    <3>1. Counted <= MaxStatements /\ made' = Counted
      BY <2>3 DEF Succeeds
    <3>2. durable' \subseteq Writes /\ durable' \subseteq 1..Counted
      BY <2>1, <2>3, <3>1, PreparedTypes DEF Succeeds, Held, Base, EngineOK
    <3>3. work' \in [Conns -> SUBSET Writes] /\ \A d \in Conns : work'[d] \subseteq 1..Counted
      BY <2>1, <2>3, <3>1, PreparedTypes DEF Succeeds, LeftWith, Held, Base, EngineOK
    <3>4. tx' \in [Conns -> BOOLEAN] /\ made' \in 0..MaxStatements
      BY <2>1, <2>3, <3>1, PreparedTypes, Zenon DEF Succeeds, LeftWith, EngineOK, Prepared, Effects
    <3> QED BY <3>1, <3>2, <3>3, <3>4 DEF EngineOK, WritesNamed
  <2>4. CASE Refused(FALSE)
    <3>1. Counted <= MaxStatements /\ made' = Counted
      BY <2>4 DEF Refused
    <3>2. durable' \subseteq Writes /\ durable' \subseteq 1..Counted
      BY <2>1, <2>4, <3>1, PreparedTypes DEF Refused, Held, Base, EngineOK
    <3>3. work' \in [Conns -> SUBSET Writes] /\ \A d \in Conns : work'[d] \subseteq 1..Counted
      BY <2>1, <2>4, <3>1, PreparedTypes DEF Refused, LeftWith, Held, Base, EngineOK
    <3>4. tx' \in [Conns -> BOOLEAN] /\ made' \in 0..MaxStatements
      BY <2>1, <2>4, <3>1, PreparedTypes, Zenon DEF Refused, LeftWith, EngineOK, Prepared, Effects
    <3> QED BY <3>1, <3>2, <3>3, <3>4 DEF EngineOK, WritesNamed
  <2>5. CASE Unanswered
    <3>1. Counted <= MaxStatements /\ made' = Counted
      BY <2>5 DEF Unanswered
    <3>2. durable' \subseteq Writes /\ durable' \subseteq 1..Counted
      BY <2>1, <2>5, <3>1, PreparedTypes DEF Unanswered, Held, Base, EngineOK
    <3>3. work' \in [Conns -> SUBSET Writes] /\ \A d \in Conns : work'[d] \subseteq 1..Counted
      BY <2>1, <2>5, <3>1, PreparedTypes DEF Unanswered, LeftWith, Held, Base, EngineOK
    <3>4. tx' \in [Conns -> BOOLEAN] /\ made' \in 0..MaxStatements
      BY <2>1, <2>5, <3>1, PreparedTypes, Zenon DEF Unanswered, LeftWith, EngineOK, Prepared, Effects
    <3> QED BY <3>1, <3>2, <3>3, <3>4 DEF EngineOK, WritesNamed
  <2> QED BY <2>2, <2>3, <2>4, <2>5
<1>3. PoolClean'
  BY DEF PoolClean, HandleOK, EngineOK
<1>4. TransactionKnown' /\ CycleHasConnection' /\ BindsOfPending'
  BY DEF TransactionKnown, CycleHasConnection, BindsOfPending, HandleOK, EngineOK
<1>5. Fields'
  BY DEF Fields, Resting, OneConnection, NoServer, BlockKnown
<1>6. LostIsOver' /\ WorkInside'
  BY DEF LostIsOver, WorkInside, HandleOK, EngineOK
<1>8. NoLeftover'
  BY DEF NoLeftover, HandleOK, EngineOK, PoolClean, Fields, Resting, OneConnection, NoServer,
         BlockKnown, LostIsOver, WorkInside, TransactionKnown
<1> QED BY <1>1, <1>2, <1>3, <1>4, <1>5, <1>6, <1>8

LEMMA RollbackSQLiteInv ==
  ASSUME IInv, RollbackSQLite
  PROVE  IInv'
<1> USE ConnAssumption DEF IInv, TypeOK, Engine, RollbackSQLite, Forget, Ends, TxAfter,
        WorkAfter, handle, engine
<1>1. HandleOK'
  BY DEF HandleOK
<1>2. EngineOK'
  BY DEF EngineOK
<1>3. PoolClean'
  BY DEF PoolClean
<1>4. TransactionKnown' /\ CycleHasConnection' /\ BindsOfPending'
  BY DEF TransactionKnown, CycleHasConnection, BindsOfPending, HandleOK, EngineOK
<1>5. Fields'
  BY DEF Fields, Resting, OneConnection, NoServer, BlockKnown
<1>6. LostIsOver' /\ WorkInside'
  BY DEF LostIsOver, WorkInside, HandleOK, EngineOK
<1>7. WritesNamed'
  BY DEF WritesNamed
<1>8. NoLeftover'
  BY DEF NoLeftover
<1> QED BY <1>1, <1>2, <1>3, <1>4, <1>5, <1>6, <1>7, <1>8

LEMMA RollbackMySQLInv ==
  ASSUME IInv, RollbackMySQL
  PROVE  IInv'
<1> USE ConnAssumption DEF IInv, TypeOK, Engine, RollbackMySQL, Forget, Ends, TxAfter,
        WorkAfter, handle, engine
<1>1. HandleOK'
  BY DEF HandleOK
<1>2. EngineOK'
  BY DEF EngineOK
<1>3. PoolClean'
  BY DEF PoolClean, HandleOK, EngineOK, Fields, Resting, OneConnection, NoServer, BlockKnown,
         LostIsOver, WorkInside, TransactionKnown, NoLeftover
<1>4. TransactionKnown' /\ CycleHasConnection' /\ BindsOfPending'
  BY DEF TransactionKnown, CycleHasConnection, BindsOfPending
<1>5. Fields'
  BY DEF Fields, Resting, OneConnection, NoServer, BlockKnown
<1>6. LostIsOver' /\ WorkInside'
  BY DEF LostIsOver, WorkInside
<1>7. WritesNamed'
  BY DEF WritesNamed
<1>8. NoLeftover'
  BY DEF NoLeftover, HandleOK, EngineOK, PoolClean, Fields, Resting, OneConnection, NoServer,
         BlockKnown, LostIsOver, WorkInside, TransactionKnown
<1> QED BY <1>1, <1>2, <1>3, <1>4, <1>5, <1>6, <1>7, <1>8

LEMMA StepInv == IInv /\ [Next]_vars => IInv'
<1> SUFFICES ASSUME IInv, [Next]_vars PROVE IInv'
  OBVIOUS
<1>1. CASE Next
  BY <1>1, OpenSQLiteInv, OpenMySQLInv, CloseInv, LoseInv, ExecuteSQLiteInv, ExecuteMySQLInv,
     PrepareSQLiteInv, PrepareMySQLInv, BindInv, BeginSQLiteInv, BeginMySQLInv,
     CommitSQLiteInv, CommitMySQLInv, RollbackSQLiteInv, RollbackMySQLInv DEF Next
<1>2. CASE UNCHANGED vars
  BY <1>2 DEF vars, IInv, TypeOK, HandleOK, EngineOK, PoolClean, TransactionKnown, CycleHasConnection,
     BindsOfPending, Fields, Engine, Resting, OneConnection, NoServer, BlockKnown, LostIsOver,
     WorkInside, WritesNamed, NoLeftover
<1> QED BY <1>1, <1>2

LEMMA Invariant == Spec => []IInv
BY InitInv, StepInv, PTL DEF Spec

\* No connection goes back to the pool inside a transaction.
THEOREM PoolStaysClean == Spec => []PoolClean
<1>1. IInv => PoolClean
  BY DEF IInv
<1> QED BY <1>1, Invariant, PTL

\* Whatever call failed before, the handle agrees with the engine: rollback()
\* knows of the transaction that is open, commit() and the instructions of a
\* block find their connection, and values bound for an earlier query never
\* reach a later one.
THEOREM HandleStaysExact == Spec => []HandleExact
<1>1. IInv => HandleExact
  BY DEF IInv, HandleExact
<1> QED BY <1>1, Invariant, PTL

-----------------------------------------------------------------------------
(* The handle implements Transactions                                      *)

\* Only the pinned connection has work, or a transaction, to show.
LEMMA MapOpen == IInv => OpenWrites = IF pinned = None THEN {} ELSE work[pinned]
BY ConnAssumption DEF IInv, TypeOK, HandleOK, EngineOK, PoolClean, OpenWrites

LEMMA MapMode ==
  IInv => Mode = IF pinned # None /\ tx[pinned] THEN IF explicit THEN "block" ELSE "failed" ELSE "auto"
BY ConnAssumption DEF IInv, TypeOK, HandleOK, EngineOK, PoolClean, Mode

LEMMA MapOpenNext == IInv' => OpenWrites' = IF pinned' = None THEN {} ELSE work'[pinned']
BY ConnAssumption DEF IInv, TypeOK, HandleOK, EngineOK, PoolClean, OpenWrites

LEMMA MapModeNext ==
  IInv' => Mode' = IF pinned' # None /\ tx'[pinned'] THEN IF explicit' THEN "block" ELSE "failed" ELSE "auto"
BY ConnAssumption DEF IInv, TypeOK, HandleOK, EngineOK, PoolClean, Mode

LEMMA NothingNew == made' = made => Promise!New({})
BY DEF Promise!New

LEMMA EffectNew ==
  ASSUME EngineOK, made < MaxStatements, made' = made + 1, NEW W \in Effects
  PROVE  W \in SUBSET Writes /\ Promise!New(W)
BY NextWrite DEF Effects, Promise!New

LEMMA PreparedNew ==
  ASSUME EngineOK, WritesNamed, Counted <= MaxStatements, made' = Counted, NEW W \in Prepared
  PROVE  W \in SUBSET Writes /\ Promise!New(W)
<1>1. CASE pending = None
  BY <1>1, NothingNew DEF Counted, Prepared
<1>2. CASE pending # None
  <2>1. Counted = made + 1 /\ W \in Effects /\ made < MaxStatements
    BY <1>2, NextWrite DEF Counted, Prepared
  <2> QED BY <2>1, EffectNew
<1> QED BY <1>1, <1>2

\* A query outside a block starts from nothing: the transaction of its
\* connection is new, or a leftover without a write.
LEMMA FromNothing ==
  ASSUME IInv, pinned # None, explicit \/ kind = "mysql" \/ ~tx[pinned]
  PROVE  Base = durable /\ Held = OpenWrites
BY MapOpen DEF IInv, TypeOK, HandleOK, EngineOK, Engine, WorkInside, NoLeftover, Base, Held

\* What the fields of the two states show, for the lemmas that follow.
LEMMA Facts == IInv =>
  /\ pinned \in Conns \cup {None} /\ tx \in [Conns -> BOOLEAN] /\ explicit \in BOOLEAN
  /\ work \in [Conns -> SUBSET Writes] /\ kind \in {"sqlite", "mysql"}
  /\ (alive /\ (kind = "sqlite" \/ explicit \/ pending # None) => pinned \in Conns)
  /\ (pinned # None /\ ~tx[pinned] => work[pinned] = {})
  /\ (kind = "mysql" /\ ~explicit /\ pinned # None => work[pinned] = {})
BY DEF IInv, TypeOK, HandleOK, EngineOK, Engine, Fields, OneConnection, CycleHasConnection,
   WorkInside, NoLeftover

LEMMA QueryFailsMaps ==
  ASSUME IInv, IInv', pinned # None, explicit \/ kind = "mysql" \/ ~tx[pinned],
         QueryFails, UNCHANGED kind
  PROVE  Promise!Next \/ UNCHANGED Promise!vars
<1> USE MapOpen, MapMode, MapOpenNext, MapModeNext, Facts
<1>1. durable' = durable /\ pinned' = pinned /\ explicit' = explicit /\ made' = made
  BY FromNothing DEF QueryFails, Raises
<1>2. Promise!New({})
  BY <1>1, NothingNew
<1>3. CASE LeftWith(FALSE, {})
  <2>1. OpenWrites' = {} /\ Mode' = "auto"
    BY <1>1, <1>3 DEF LeftWith
  <2>2. Promise!Drop({})
    BY <1>1, <2>1 DEF Promise!Drop
  <2> QED BY <1>2, <2>2 DEF Promise!Next
<1>4. CASE LeftWith(Inside, Held) /\ explicit
  <2>1. OpenWrites' = OpenWrites /\ Mode' = Mode
    BY <1>1, <1>4 DEF LeftWith, Inside, Held
  <2> QED BY <1>1, <2>1 DEF Promise!vars
<1>5. CASE LeftWith(Inside, Held) /\ ~explicit
  <2>1. OpenWrites' = {} /\ OpenWrites = {} /\ Mode' = "failed" /\ Mode \in {"auto", "failed"}
    BY <1>1, <1>5 DEF LeftWith, Inside, Held
  <2>2. CASE Mode = "auto"
    <3>1. Promise!Leave({})
      BY <1>1, <2>1, <2>2 DEF Promise!Leave
    <3> QED BY <1>2, <3>1 DEF Promise!Next
  <2>3. CASE Mode = "failed"
    BY <1>1, <2>1, <2>3 DEF Promise!vars
  <2> QED BY <2>1, <2>2, <2>3
<1> QED BY <1>3, <1>4, <1>5, FromNothing DEF QueryFails

\* COMMIT has been done, with an answer or not.
LEMMA DoneMaps ==
  ASSUME IInv, IInv', pinned # None, explicit \/ kind = "mysql" \/ ~tx[pinned],
         Counted <= MaxStatements, made' = Counted,
         NEW W \in Prepared, durable' = Base \cup Held \cup W, LeftWith(FALSE, {}), pinned' \in {None, pinned}
  PROVE  Promise!Next
<1> USE MapOpen, MapMode, MapOpenNext, MapModeNext, Facts
<1>1. W \in SUBSET Writes /\ Promise!New(W)
  BY PreparedNew DEF IInv, TypeOK, Engine
<1>2. OpenWrites' = {} /\ Mode' = "auto"
  BY DEF LeftWith
<1>3. durable' = durable \cup OpenWrites \cup W
  BY FromNothing
<1>4. CASE explicit /\ tx[pinned]
  <2>1. Promise!Commit(W)
    BY <1>2, <1>3, <1>4 DEF Promise!Commit
  <2> QED BY <1>1, <2>1 DEF Promise!Next
<1>5. CASE ~tx[pinned]
  <2>1. Promise!Single(W)
    BY <1>2, <1>3, <1>5 DEF Promise!Single
  <2> QED BY <1>1, <2>1 DEF Promise!Next
<1>6. CASE ~explicit /\ tx[pinned]
  <2>1. Promise!Retry(W)
    BY <1>2, <1>3, <1>6 DEF Promise!Retry
  <2> QED BY <1>1, <2>1 DEF Promise!Next
<1> QED BY <1>4, <1>5, <1>6

LEMMA RefusedMaps ==
  ASSUME IInv, IInv', pinned # None, explicit \/ kind = "mysql" \/ ~tx[pinned],
         NEW keeps \in BOOLEAN, keeps => kind = "sqlite", Refused(keeps)
  PROVE  Promise!Next
<1> USE MapOpen, MapMode, MapOpenNext, MapModeNext, Facts
<1>1. PICK W \in Prepared :
        /\ durable' = IF Inside THEN Base ELSE Base \cup W
        /\ IF Inside /\ keeps THEN LeftWith(TRUE, Held \cup W) ELSE LeftWith(FALSE, {})
  BY DEF Refused
<1>2. W \in SUBSET Writes /\ Promise!New(W)
  BY PreparedNew DEF IInv, TypeOK, Engine, Refused
<1>3. pinned' = pinned /\ explicit' = explicit /\ Base = durable /\ Held = OpenWrites
  BY FromNothing DEF Refused, Raises
<1>4. CASE Inside /\ ~keeps
  <2>1. Promise!Drop(W)
    BY <1>1, <1>3, <1>4 DEF LeftWith, Promise!Drop
  <2> QED BY <1>2, <2>1 DEF Promise!Next
<1>5. CASE Inside /\ keeps /\ explicit
  <2>1. Promise!Join(W)
    BY <1>1, <1>3, <1>5 DEF LeftWith, Inside, Promise!Join
  <2> QED BY <1>2, <2>1 DEF Promise!Next
<1>6. CASE keeps /\ ~explicit
  <2>1. Promise!Leave(W)
    BY <1>1, <1>3, <1>6 DEF LeftWith, Inside, Promise!Leave
  <2> QED BY <1>2, <2>1 DEF Promise!Next
<1>7. CASE ~Inside
  <2>1. Promise!Single(W)
    BY <1>1, <1>3, <1>7 DEF LeftWith, Inside, Promise!Single
  <2> QED BY <1>2, <2>1 DEF Promise!Next
<1> QED BY <1>4, <1>5, <1>6, <1>7

\* An instruction on c, inside the transaction of c or alone.
LEMMA AppliedMaps ==
  ASSUME IInv, IInv', NEW c \in Conns, NEW W \in Effects, Applied(c, W),
         explicit => c = pinned, UNCHANGED <<pinned, explicit>>
  PROVE  Promise!Next
<1> USE MapOpen, MapMode, MapOpenNext, MapModeNext, Facts
<1>1. W \in SUBSET Writes /\ Promise!New(W)
  BY EffectNew DEF IInv, TypeOK, Applied
<1>2. CASE tx[c]
  <2>1. c = pinned
    BY <1>2 DEF IInv, PoolClean
  <2>2. Promise!Join(W)
    BY <1>2, <2>1, ConnAssumption DEF Applied, Promise!Join
  <2> QED BY <1>1, <2>2 DEF Promise!Next
<1>3. CASE ~tx[c]
  <2>1. Promise!Single(W)
    BY <1>3, ConnAssumption DEF Applied, Promise!Single
  <2> QED BY <1>1, <2>1 DEF Promise!Next
<1> QED BY <1>2, <1>3

\* The transaction that was open is over, and its work gone.
LEMMA DroppedMaps ==
  ASSUME IInv, IInv', UNCHANGED <<durable, made>>,
         pinned' # None => ~tx'[pinned']
  PROVE  Promise!Next
<1>1. OpenWrites' = {} /\ Mode' = "auto"
  BY MapOpenNext, MapModeNext DEF IInv, TypeOK, HandleOK, Engine, WorkInside
<1>2. Promise!Drop({}) /\ Promise!New({})
  BY <1>1, NothingNew DEF Promise!Drop
<1> QED BY <1>2 DEF Promise!Next

LEMMA StepMaps ==
  ASSUME IInv, IInv', [Next]_vars
  PROVE  [Promise!Next]_(Promise!vars)
<1> USE Facts
<1> DEFINE Same == UNCHANGED <<OpenWrites, Mode, durable, made>>
<1>0. Same => UNCHANGED Promise!vars
  BY DEF Promise!vars
<1>1. CASE UNCHANGED vars \/ OpenSQLite \/ OpenMySQL \/ Bind \/ \E q \in Queries : PrepareSQLite(q)
  <2>1. UNCHANGED <<tx, work, durable, made>> /\ (UNCHANGED explicit)
    BY <1>1 DEF vars, handle, engine, OpenSQLite, OpenMySQL, Bind, PrepareSQLite
  <2> QED BY <1>0, <2>1 DEF OpenWrites, Mode
<1>2. CASE Close
  BY <1>2, DroppedMaps, Zenon DEF Close, Forget
<1>3. CASE Lose
  <2>1. pinned' # None => ~tx'[pinned']
    BY <1>3 DEF Lose, GivenUp
  <2> QED BY <1>3, <2>1, DroppedMaps DEF Lose, GivenUp
<1>4. ASSUME NEW c \in Conns, NEW W \in Effects, Applied(c, W), explicit => c = pinned,
             UNCHANGED <<pinned, handle>>
      PROVE  Promise!Next
  BY <1>4, AppliedMaps DEF handle
<1>5. ASSUME NEW c \in Conns, Failed(c), explicit => c = pinned, UNCHANGED <<pinned, handle>>
      PROVE  [Promise!Next]_(Promise!vars)
  <2>1. CASE UNCHANGED engine
    BY <1>0, <1>5, <2>1 DEF engine, handle, OpenWrites, Mode
  <2>2. CASE GivenUp(c) /\ c = pinned
    <3>1. pinned' # None => ~tx'[pinned']
      BY <1>5, <2>2 DEF GivenUp
    <3> QED BY <1>5, <2>2, <3>1, DroppedMaps DEF GivenUp
  <2>3. CASE GivenUp(c) /\ c # pinned
    <3>1. tx' = tx /\ work' = work
      BY <2>3 DEF GivenUp, IInv, PoolClean
    <3> QED BY <1>0, <1>5, <2>3, <3>1 DEF GivenUp, handle, OpenWrites, Mode
  <2> QED BY <1>5, <2>1, <2>2, <2>3 DEF Failed
<1>6. CASE ExecuteSQLite
  <2>1. pinned \in Conns
    BY <1>6 DEF ExecuteSQLite
  <2> QED BY <1>4, <1>5, <1>6, <2>1 DEF ExecuteSQLite
<1>7. CASE ExecuteMySQL
  <2>1. \A c \in AcquireConn : c \in Conns /\ (explicit => c = pinned)
    BY <1>7 DEF ExecuteMySQL, AcquireConn
  <2> QED BY <1>4, <1>5, <1>7, <2>1 DEF ExecuteMySQL
\* rollback_pending leaves no connection with a transaction.
<1>8. TxAfter = [c \in Conns |-> FALSE] /\ WorkAfter = [c \in Conns |-> {}]
  <2>1. ASSUME NEW c \in Conns PROVE ~(tx[c] /\ c \notin Ends)
    BY ConnAssumption DEF Ends, IInv, PoolClean, TransactionKnown
  <2>2. ASSUME NEW c \in Conns, c \notin Ends PROVE work[c] = {}
    BY <2>1, <2>2 DEF IInv, Engine, WorkInside
  <2> QED BY <2>1, <2>2 DEF TxAfter, WorkAfter
<1>9. CASE \E q \in Queries : PrepareMySQL(q)
  <2>1. CASE explicit
    <3>1. UNCHANGED <<explicit, engine>>
      BY <1>9, <2>1 DEF PrepareMySQL
    <3> QED BY <1>0, <3>1 DEF engine, OpenWrites, Mode
  <2>2. CASE ~explicit
    <3>1. tx' = [c \in Conns |-> FALSE] /\ UNCHANGED <<durable, made>>
      BY <1>8, <1>9, <2>2 DEF PrepareMySQL
    <3>2. pinned' # None => ~tx'[pinned']
      BY <1>9, <2>2, <3>1 DEF PrepareMySQL
    <3> QED BY <3>1, <3>2, DroppedMaps
  <2> QED BY <2>1, <2>2
<1>10. ASSUME NEW c \in Conns, ~explicit, explicit', pinned' = c, tx'[c], work'[c] = {},
              UNCHANGED <<durable, made>>
       PROVE  Promise!Next
  <2>1. OpenWrites' = {} /\ Mode' = "block" /\ Mode # "block"
    BY <1>10, ConnAssumption, MapOpenNext, MapModeNext, MapMode
  <2>2. Promise!Begin /\ Promise!New({})
    BY <1>10, <2>1, NothingNew DEF Promise!Begin
  <2> QED BY <2>2 DEF Promise!Next
<1>11. CASE BeginSQLite
  <2>1. pinned \in Conns /\ work[pinned] = {}
    BY <1>11, ConnAssumption DEF BeginSQLite
  <2> QED BY <1>10, <1>11, <2>1 DEF BeginSQLite
<1>12. CASE BeginMySQL
  <2>1. CASE explicit'
    <3>1. PICK c \in Conns :
            /\ tx' = [TxAfter EXCEPT ![c] = TRUE]
            /\ work' = [WorkAfter EXCEPT ![c] = {}]
            /\ durable' = durable \cup WorkAfter[c]
            /\ pinned' = c
      BY <1>12, <2>1 DEF BeginMySQL
    <3>2. tx'[c] /\ work'[c] = {} /\ durable' = durable /\ UNCHANGED made /\ ~explicit
      BY <1>8, <1>12, <3>1 DEF BeginMySQL
    <3> QED BY <1>10, <2>1, <3>1, <3>2
  <2>2. CASE ~explicit'
    BY <1>12, <2>2, DroppedMaps DEF BeginMySQL
  <2> QED BY <2>1, <2>2
<1>13. CASE CommitSQLite
  <2>1. pinned # None /\ (explicit \/ ~tx[pinned]) /\ UNCHANGED kind
    BY <1>13, ConnAssumption DEF CommitSQLite
  <2>2. CASE QueryFails
    BY <2>1, <2>2, QueryFailsMaps
  <2>3. CASE Succeeds /\ UNCHANGED pinned
    BY <2>1, <2>3, DoneMaps DEF Succeeds
  <2>4. ASSUME NEW keeps \in BOOLEAN, Refused(keeps) PROVE Promise!Next
    BY <1>13, <2>1, <2>4, RefusedMaps DEF CommitSQLite
  <2> QED BY <1>13, <2>2, <2>3, <2>4 DEF CommitSQLite
<1>14. CASE CommitMySQL
  <2>1. pinned # None /\ kind = "mysql" /\ UNCHANGED kind
    BY <1>14 DEF CommitMySQL
  <2>2. CASE QueryFails
    BY <2>1, <2>2, QueryFailsMaps
  <2>3. CASE Succeeds /\ pinned' = None
    BY <2>1, <2>3, DoneMaps DEF Succeeds
  <2>4. CASE Refused(FALSE)
    BY <2>1, <2>4, RefusedMaps
  <2>5. CASE Unanswered
    BY <2>1, <2>5, DoneMaps DEF Unanswered, Raises
  <2> QED BY <1>14, <2>2, <2>3, <2>4, <2>5 DEF CommitMySQL
<1>15. CASE RollbackSQLite
  <2>1. pinned' # None => ~tx'[pinned']
    BY <1>15 DEF RollbackSQLite, TxAfter, Ends, IInv, TransactionKnown
  <2> QED BY <1>15, <2>1, DroppedMaps DEF RollbackSQLite
<1>16. CASE RollbackMySQL
  BY <1>16, DroppedMaps DEF RollbackMySQL
<1> QED BY <1>1, <1>2, <1>3, <1>6, <1>7, <1>9, <1>11, <1>12, <1>13, <1>14, <1>15, <1>16 DEF Next

\* A handle keeps what the documentation promises: what other clients see
\* changes by one instruction or by a whole block, and a cancelled write is
\* never seen again.
THEOREM Implements == Spec => KeepsPromise
<1>1. Init => Promise!Init
  BY DEF Init, Promise!Init, OpenWrites, Mode
<1>2. IInv /\ IInv' /\ [Next]_vars => [Promise!Next]_(Promise!vars)
  BY StepMaps
<1> QED BY <1>1, <1>2, Invariant, PTL DEF Spec, Promise!Spec, KeepsPromise
=============================================================================
