-------------------------- MODULE HttpServerProofs --------------------------
(* Proofs about HttpServer, for every number of servers, workers, requests,  *)
(* clients and sessions: handlers exclude each other, and a client only ever *)
(* reaches sessions that were created for it.                                *)
EXTENDS HttpServer, FiniteSetTheorems, SequenceTheorems, TLAPS

SessionRecord == [data : SUBSET Clients, idle : Int]

\* Identifier id was drawn for client c; o is the owner of each identifier.
OwnedBy(c, id, o) == id \in 1..Len(o) /\ o[id] = c

\* What the context of a request remembers of sessions is its client's.
GoodContext(x, o) ==
  /\ x \in Contexts
  /\ x.cookie \notin {None, Forged} => OwnedBy(x.client, x.cookie, o)
  /\ x.session # None => OwnedBy(x.client, x.session, o)
  /\ \A i \in 1..Len(x.headers) : x.headers[i] # Expire => OwnedBy(x.client, x.headers[i], o)

GoodStore(ss, o) ==
  /\ DOMAIN ss \subseteq 1..Len(o)
  /\ ss \in [DOMAIN ss -> SessionRecord]
  /\ \A id \in DOMAIN ss : ss[id].data \subseteq {o[id]}

Types ==
  /\ pc \in [Requests -> Stages]
  /\ lock \in Requests \cup {None}
  /\ hits \in Nat
  /\ created \in 0..MaxIds /\ created = Len(ghost.owner)
  /\ ghost \in [owner : Seq(Clients), destroyed : SUBSET Int, increments : Nat]
  /\ jar \in [Clients -> Ids \cup {None}]

ContextsGood ==
  /\ ctx \in [Requests -> Contexts \cup {None}]
  /\ \A r \in Requests : IF pc[r] \in {"unsent", "done"} THEN ctx[r] = None
                         ELSE GoodContext(ctx[r], ghost.owner)

StoreGood == GoodStore(sessions, ghost.owner)

JarsGood == \A c \in Clients : jar[c] # None => OwnedBy(c, jar[c], ghost.owner)

\* HANDLER_LOCK names the one request whose handler runs.
LockExact == \A r \in Requests : Handles(r) <=> lock = r

\* What a handler has read of the global is still its value.
SeenExact ==
  \A r \in Requests :
    /\ Handles(r) /\ ctx[r].seen # None => ctx[r].seen = hits
    /\ pc[r] \in {"queued", "busy", "body", "route", "error"} => ctx[r].seen = None

IInv == Types /\ ContextsGood /\ StoreGood /\ JarsGood /\ LockExact /\ SeenExact /\ NoLostIncrement

-----------------------------------------------------------------------------

LEMMA StillOwned ==
  ASSUME NEW o \in Seq(Clients), NEW c \in Clients
  PROVE  /\ Append(o, c) \in Seq(Clients)
         /\ Len(Append(o, c)) = Len(o) + 1
         /\ OwnedBy(c, Len(o) + 1, Append(o, c))
         /\ \A d, id : OwnedBy(d, id, o) => OwnedBy(d, id, Append(o, c))
  BY DEF OwnedBy

LEMMA ContextKept ==
  ASSUME NEW o \in Seq(Clients), NEW c \in Clients, NEW x, GoodContext(x, o)
  PROVE  GoodContext(x, Append(o, c))
<1>1. \A d, id : OwnedBy(d, id, o) => OwnedBy(d, id, Append(o, c))
  BY StillOwned
<1> QED
  BY <1>1 DEF GoodContext

LEMMA StoreGrows ==
  ASSUME NEW o \in Seq(Clients), NEW c \in Clients, NEW ss, GoodStore(ss, o)
  PROVE  GoodStore(ss, Append(o, c))
<1>1. \A id \in 1..Len(o) : Append(o, c)[id] = o[id]
  OBVIOUS
<1>2. Len(Append(o, c)) = Len(o) + 1
  OBVIOUS
<1>3. 1..Len(o) \subseteq 1..(Len(o) + 1)
  OBVIOUS
<1> QED
  BY <1>1, <1>2, <1>3 DEF GoodStore

LEMMA InitGood == Init => IInv
<1> SUFFICES ASSUME Init PROVE IInv
  OBVIOUS
<1> USE NetAssumption, BoundsAssumption, NoneAssumption
<1>1. Types
  <2>1. created \in 0..MaxIds /\ created = Len(ghost.owner)
    BY DEF Init
  <2>2. jar \in [Clients -> Ids \cup {None}]
    BY <2>1 DEF Init, Ids
  <2>3. ghost \in [owner : Seq(Clients), destroyed : SUBSET Int, increments : Nat]
    BY DEF Init
  <2> QED
    BY <2>1, <2>2, <2>3 DEF Init, Types, Stages
<1>2. ContextsGood
  BY DEF Init, ContextsGood
<1>3. StoreGood
  BY DEF Init, StoreGood, GoodStore, SessionRecord
<1>4. JarsGood
  BY DEF Init, JarsGood, OwnedBy
<1>5. LockExact /\ SeenExact /\ NoLostIncrement
  BY DEF Init, LockExact, SeenExact, NoLostIncrement, Handles
<1> QED
  BY <1>1, <1>2, <1>3, <1>4, <1>5 DEF IInv

-----------------------------------------------------------------------------
(* Sending, receiving, entering and leaving a handler                      *)

LEMMA StageKnown == ASSUME IInv, NEW r \in Requests, pc[r] \notin {"unsent", "done"}
                    PROVE  GoodContext(ctx[r], ghost.owner) /\ ctx[r] \in Contexts
  BY DEF IInv, ContextsGood, GoodContext

LEMMA SendGood == ASSUME IInv, NEW r \in Requests, Send(r) PROVE IInv'
<1> USE NetAssumption, NoneAssumption DEF Go
<1>1. PICK s \in Sends[r] : ctx' = [ctx EXCEPT ![r] = NewContext(s, IF s.forged THEN Forged ELSE jar[s.client])]
  BY DEF Send
<1> DEFINE x == NewContext(s, IF s.forged THEN Forged ELSE jar[s.client])
<1>2. s \in [client : Clients, server : Servers, long : BOOLEAN, forged : BOOLEAN]
  OBVIOUS
<1>3. jar[s.client] \in Ids \cup {None}
  BY <1>2 DEF IInv, Types
<1>4. x \in Contexts
  <2>1. 0 \in 0..MaxOps
    BY BoundsAssumption
  <2>2. <<>> \in Seq(Ids \cup {Expire})
    OBVIOUS
  <2> QED
    BY <1>2, <1>3, <2>1, <2>2 DEF NewContext, Contexts
<1>5. /\ x.session = None /\ x.seen = None /\ x.client = s.client /\ x.headers = <<>>
      /\ x.cookie = IF s.forged THEN Forged ELSE jar[s.client]
  BY DEF NewContext
<1>6. GoodContext(x, ghost.owner)
  BY <1>2, <1>4, <1>5 DEF GoodContext, IInv, JarsGood
<1>7. /\ ctx' = [ctx EXCEPT ![r] = x] /\ pc' = [pc EXCEPT ![r] = "queued"] /\ pc[r] = "unsent"
      /\ UNCHANGED <<lock, sessions, hits, created, jar, ghost>>
  BY <1>1 DEF Send, store, net
<1> HIDE DEF x
<1>8. Types'
  BY <1>7 DEF IInv, Types, Stages
<1>9. ContextsGood'
  BY <1>4, <1>6, <1>7 DEF IInv, Types, ContextsGood
<1>10. StoreGood' /\ JarsGood' /\ NoLostIncrement'
  BY <1>7 DEF IInv, StoreGood, JarsGood, NoLostIncrement
<1>11. LockExact' /\ SeenExact'
  BY <1>5, <1>7 DEF IInv, Types, ContextsGood, LockExact, SeenExact, Handles
<1> QED
  BY <1>8, <1>9, <1>10, <1>11 DEF IInv

\* A step of the worker, or of a request outside of handlers: the context
\* stays or goes away with the request.
LEMMA MoveGood ==
  ASSUME IInv, NEW r \in Requests, NEW t \in Stages \ {"unsent", "inRoute", "inError"},
         pc[r] \notin {"unsent", "done", "inRoute", "inError"},
         pc' = [pc EXCEPT ![r] = t],
         t \in {"busy", "body", "route", "error"} => ctx[r].seen = None,
         ctx' = IF t = "done" THEN [ctx EXCEPT ![r] = None] ELSE ctx,
         t # "queued",
         UNCHANGED <<lock, sessions, hits, created, ghost>>,
         jar' \in [Clients -> Ids \cup {None}],
         \A c \in Clients : jar'[c] # None => OwnedBy(c, jar'[c], ghost.owner)
  PROVE  IInv'
<1>1. Types'
  BY DEF IInv, Types
<1>2. ContextsGood'
  BY DEF IInv, Types, ContextsGood
<1>3. StoreGood' /\ NoLostIncrement' /\ JarsGood'
  BY DEF IInv, StoreGood, JarsGood, NoLostIncrement
<1>4. LockExact'
  BY DEF IInv, Types, LockExact, Handles
<1>5. SeenExact'
  BY DEF IInv, Types, ContextsGood, SeenExact, Handles
<1> QED
  BY <1>1, <1>2, <1>3, <1>4, <1>5 DEF IInv

LEMMA RecvGood == ASSUME IInv, NEW s, NEW w, NEW r \in Requests, Recv(s, w, r) PROVE IInv'
<1> DEFINE t == IF ctx[r].long /\ receiving[s] >= MaxReceiving THEN "busy" ELSE "body"
<1>1. /\ pc[r] = "queued" /\ pc' = [pc EXCEPT ![r] = t]
      /\ UNCHANGED <<ctx, lock, sessions, hits, created, ghost, jar>>
  BY DEF Recv, Go, store
<1>2. t \in {"busy", "body"}
  OBVIOUS
<1> HIDE DEF t
<1>3. ctx[r].seen = None
  BY <1>1 DEF IInv, SeenExact
<1>4. jar' \in [Clients -> Ids \cup {None}] /\ \A c \in Clients : jar'[c] # None => OwnedBy(c, jar'[c], ghost.owner)
  BY <1>1 DEF IInv, Types, JarsGood
<1> QED
  BY <1>1, <1>2, <1>3, <1>4, MoveGood DEF Stages

LEMMA RefuseGood == ASSUME IInv, NEW w, NEW r \in Requests, Refuse(w, r) PROVE IInv'
<1>1. /\ pc[r] = "busy" /\ pc' = [pc EXCEPT ![r] = "done"] /\ ctx' = [ctx EXCEPT ![r] = None]
      /\ UNCHANGED <<lock, sessions, hits, created, ghost, jar>>
  BY DEF Refuse, Go, store
<1>2. jar' \in [Clients -> Ids \cup {None}] /\ \A c \in Clients : jar'[c] # None => OwnedBy(c, jar'[c], ghost.owner)
  BY <1>1 DEF IInv, Types, JarsGood
<1> QED
  BY <1>1, <1>2, MoveGood DEF Stages

LEMMA ReceiveGood == ASSUME IInv, NEW r \in Requests, Receive(r) PROVE IInv'
<1>1. PICK t \in {"route", "error", "reply"} : pc' = [pc EXCEPT ![r] = t]
  BY DEF Receive, Go
<1>2. pc[r] = "body" /\ UNCHANGED <<ctx, lock, sessions, hits, created, ghost, jar>>
  BY DEF Receive, store
<1>3. ctx[r].seen = None
  BY <1>2 DEF IInv, SeenExact
<1>4. jar' \in [Clients -> Ids \cup {None}] /\ \A c \in Clients : jar'[c] # None => OwnedBy(c, jar'[c], ghost.owner)
  BY <1>2 DEF IInv, Types, JarsGood
<1> QED
  BY <1>1, <1>2, <1>3, <1>4, MoveGood DEF Stages

LEMMA ReplyGood == ASSUME IInv, NEW r \in Requests, Reply(r) PROVE IInv'
<1>1. /\ pc[r] = "reply" /\ pc' = [pc EXCEPT ![r] = "done"] /\ ctx' = [ctx EXCEPT ![r] = None]
      /\ UNCHANGED <<lock, sessions, hits, created, ghost>>
  BY DEF Reply, Go, store
<1> DEFINE x == ctx[r]  id == x.headers[Len(x.headers)]
<1>2. x \in Contexts /\ GoodContext(x, ghost.owner)
  BY <1>1, StageKnown
<1>3. CASE jar' = jar
  <2>1. jar' \in [Clients -> Ids \cup {None}] /\ \A c \in Clients : jar'[c] # None => OwnedBy(c, jar'[c], ghost.owner)
    BY <1>3 DEF IInv, Types, JarsGood
  <2> QED
    BY <1>1, <2>1, MoveGood DEF Stages
<1>4. CASE x.headers # <<>> /\ jar' = [jar EXCEPT ![x.client] = IF id = Expire THEN None ELSE id]
  <2>1. x.headers \in Seq(Ids \cup {Expire}) /\ x.client \in Clients
    BY <1>2 DEF Contexts
  <2>2. Len(x.headers) \in 1..Len(x.headers)
    BY <1>4, <2>1
  <2>3. id \in Ids \cup {Expire} /\ (id # Expire => OwnedBy(x.client, id, ghost.owner))
    BY <1>2, <2>1, <2>2 DEF GoodContext
  <2>4. jar' \in [Clients -> Ids \cup {None}] /\ \A c \in Clients : jar'[c] # None => OwnedBy(c, jar'[c], ghost.owner)
    BY <1>4, <2>1, <2>3 DEF IInv, Types, JarsGood
  <2> QED
    BY <1>1, <2>4, MoveGood DEF Stages
<1> QED
  BY <1>3, <1>4 DEF Reply, Last

LEMMA EnterGood == ASSUME IInv, NEW r \in Requests, Enter(r) PROVE IInv'
<1>1. PICK t \in {"inRoute", "inError"} : pc' = [pc EXCEPT ![r] = t]
  BY DEF Enter, Go
<1>2. /\ pc[r] \in {"route", "error"} /\ lock = None /\ lock' = r
      /\ UNCHANGED <<ctx, sessions, hits, created, ghost, jar>>
  BY DEF Enter, store
<1>3. ctx[r].seen = None
  BY <1>2 DEF IInv, SeenExact
<1>4. Types'
  BY <1>1, <1>2 DEF IInv, Types, Stages
<1>5. ContextsGood'
  BY <1>1, <1>2 DEF IInv, Types, ContextsGood
<1>6. StoreGood' /\ NoLostIncrement' /\ JarsGood'
  BY <1>2 DEF IInv, StoreGood, JarsGood, NoLostIncrement
<1>7. LockExact'
  BY <1>1, <1>2, NoneAssumption DEF IInv, Types, LockExact, Handles
<1>8. SeenExact'
  BY <1>1, <1>2, <1>3 DEF IInv, Types, ContextsGood, SeenExact, Handles
<1> QED
  BY <1>4, <1>5, <1>6, <1>7, <1>8 DEF IInv

\* The end of a handler: only its own request held the lock.
LEMMA LeaveGood ==
  ASSUME IInv, NEW r \in Requests, NEW t \in {"error", "reply"}, Handles(r), lock' = None,
         pc' = [pc EXCEPT ![r] = t], ctx' \in [Requests -> Contexts \cup {None}],
         \A q \in Requests \ {r} : ctx'[q] = ctx[q],
         GoodContext(ctx'[r], ghost.owner),
         t = "error" => ctx'[r].seen = None,
         UNCHANGED <<sessions, hits, created, ghost, jar>>
  PROVE  IInv'
<1>1. Types'
  BY DEF IInv, Types, Stages
<1>2. ContextsGood'
  BY DEF IInv, Types, ContextsGood
<1>3. StoreGood' /\ NoLostIncrement' /\ JarsGood'
  BY DEF IInv, StoreGood, JarsGood, NoLostIncrement
<1>4. LockExact'
  BY NoneAssumption DEF IInv, Types, LockExact, Handles
<1>5. SeenExact'
  BY DEF IInv, Types, SeenExact, Handles
<1> QED
  BY <1>1, <1>2, <1>3, <1>4, <1>5 DEF IInv

LEMMA ReturnGood == ASSUME IInv, NEW r \in Requests, Return(r) PROVE IInv'
<1>1. /\ Handles(r) /\ lock' = None /\ pc' = [pc EXCEPT ![r] = "reply"]
      /\ UNCHANGED <<ctx, sessions, hits, created, ghost, jar>>
  BY DEF Return, Go, store
<1>2. GoodContext(ctx[r], ghost.owner)
  BY <1>1, StageKnown DEF Handles
<1>3. ctx \in [Requests -> Contexts \cup {None}]
  BY DEF IInv, ContextsGood
<1> QED
  BY <1>1, <1>2, <1>3, LeaveGood

LEMMA RaiseGood == ASSUME IInv, NEW r \in Requests, Raise(r) PROVE IInv'
<1>1. PICK t \in {"error", "reply"} : pc' = [pc EXCEPT ![r] = t]
  BY DEF Raise, Go
<1>2. /\ Handles(r) /\ lock' = None
      /\ ctx' = [ctx EXCEPT ![r].headers = <<>>, ![r].seen = None, ![r].reset = TRUE]
      /\ UNCHANGED <<sessions, hits, created, ghost, jar>>
  BY DEF Raise, store
<1>3. GoodContext(ctx[r], ghost.owner) /\ ctx[r] \in Contexts
  BY <1>2, StageKnown DEF Handles
<1>4. ctx \in [Requests -> Contexts \cup {None}]
  BY DEF IInv, ContextsGood
<1>5. ctx'[r] = [ctx[r] EXCEPT !.headers = <<>>, !.seen = None, !.reset = TRUE]
  BY <1>2, <1>4
<1> DEFINE y == [ctx[r] EXCEPT !.headers = <<>>, !.seen = None, !.reset = TRUE]
<1>6. /\ y \in Contexts /\ y.seen = None /\ y.headers = <<>>
      /\ y.cookie = ctx[r].cookie /\ y.session = ctx[r].session /\ y.client = ctx[r].client
  <2>1. <<>> \in Seq(Ids \cup {Expire})
    OBVIOUS
  <2> QED
    BY <1>3, <2>1 DEF Contexts
<1>7. GoodContext(y, ghost.owner)
  BY <1>3, <1>6 DEF GoodContext
<1> HIDE DEF y
<1>8. /\ ctx' \in [Requests -> Contexts \cup {None}]
      /\ \A q \in Requests \ {r} : ctx'[q] = ctx[q]
      /\ ctx'[r] = y
  BY <1>2, <1>4, <1>5, <1>6 DEF y
<1> QED
  BY <1>1, <1>2, <1>6, <1>7, <1>8, LeaveGood

-----------------------------------------------------------------------------
(* The calls of a handler                                                  *)

\* What the methods have in common: they change the context of their own
\* request, the store, and the owners by at most one new identifier.
LEMMA MethodGood ==
  ASSUME IInv, NEW r \in Requests, Handles(r),
         NEW y, ctx' = [ctx EXCEPT ![r] = y],
         NEW o \in Seq(Clients), o = ghost.owner \/ \E c \in Clients : o = Append(ghost.owner, c),
         GoodContext(y, o), GoodStore(sessions', o),
         ghost' \in [owner : Seq(Clients), destroyed : SUBSET Int, increments : Nat],
         ghost'.owner = o, created' = Len(o), created' \in 0..MaxIds,
         hits' \in Nat, hits' = ghost'.increments, y.seen # None => y.seen = hits',
         UNCHANGED <<pc, lock, jar>>
  PROVE  IInv'
<1>1. Types'
  BY DEF IInv, Types
<1>2. ContextsGood'
  <2>1. ctx' \in [Requests -> Contexts \cup {None}]
    BY DEF IInv, ContextsGood, GoodContext
  <2>2. ASSUME NEW q \in Requests, q # r, pc[q] \notin {"unsent", "done"} PROVE GoodContext(ctx[q], o)
    <3>1. GoodContext(ctx[q], ghost.owner)
      BY <2>2, StageKnown
    <3>2. ghost.owner \in Seq(Clients)
      BY DEF IInv, Types
    <3> QED
      BY <3>1, <3>2, ContextKept
  <2>3. pc[r] \notin {"unsent", "done"}
    BY DEF Handles
  <2> QED
    BY <2>1, <2>2, <2>3 DEF IInv, ContextsGood
<1>3. StoreGood'
  BY DEF StoreGood
<1>4. JarsGood'
  <2>1. ghost.owner \in Seq(Clients)
    BY DEF IInv, Types
  <2>2. \A d, id : OwnedBy(d, id, ghost.owner) => OwnedBy(d, id, o)
    BY <2>1, StillOwned
  <2> QED
    BY <2>2 DEF IInv, JarsGood
<1>5. LockExact' /\ NoLostIncrement'
  BY DEF IInv, LockExact, NoLostIncrement, Handles
<1>6. SeenExact'
  <2>1. \A q \in Requests \ {r} : ~Handles(q)
    BY DEF IInv, LockExact
  <2>2. ctx'[r] = y /\ \A q \in Requests \ {r} : ctx'[q] = ctx[q]
    BY DEF IInv, ContextsGood
  <2> QED
    BY <2>1, <2>2 DEF IInv, SeenExact, Handles
<1> QED
  BY <1>1, <1>2, <1>3, <1>4, <1>5, <1>6 DEF IInv

LEMMA GetGlobalGood == ASSUME IInv, NEW r \in Requests, GetGlobal(r) PROVE IInv'
<1> DEFINE y == [ctx[r] EXCEPT !.seen = hits, !.ops = @ + 1]
<1>1. /\ Handles(r) /\ ctx[r].ops < MaxOps /\ ctx' = [ctx EXCEPT ![r].seen = hits, ![r].ops = @ + 1]
      /\ UNCHANGED <<pc, lock, sessions, hits, created, jar, ghost>>
  BY DEF GetGlobal, Calls, store, net
<1>2. GoodContext(ctx[r], ghost.owner) /\ ctx[r] \in Contexts
  BY <1>1, StageKnown DEF Handles
<1>3. ctx' = [ctx EXCEPT ![r] = y]
  BY <1>1
<1>4. ctx[r].ops + 1 \in 0..MaxOps
  BY <1>1, <1>2, BoundsAssumption DEF Contexts
<1>5. hits \in Nat
  BY DEF IInv, Types
<1>6. /\ y \in Contexts /\ y.seen = hits /\ y.headers = ctx[r].headers
      /\ y.cookie = ctx[r].cookie /\ y.session = ctx[r].session /\ y.client = ctx[r].client
  BY <1>2, <1>4, <1>5 DEF Contexts
<1>7. GoodContext(y, ghost.owner)
  BY <1>2, <1>6 DEF GoodContext
<1> HIDE DEF y
<1>8. /\ ghost.owner \in Seq(Clients) /\ GoodStore(sessions', ghost.owner)
      /\ ghost' \in [owner : Seq(Clients), destroyed : SUBSET Int, increments : Nat]
      /\ ghost'.owner = ghost.owner /\ created' = Len(ghost.owner) /\ created' \in 0..MaxIds
      /\ hits' \in Nat /\ hits' = ghost'.increments
  BY <1>1 DEF IInv, Types, StoreGood, NoLostIncrement
<1> QED
  BY <1>1, <1>3, <1>5, <1>6, <1>7, <1>8, MethodGood

\* The handler still holds the lock under which it read the global.
LEMMA SetGlobalGood == ASSUME IInv, NEW r \in Requests, SetGlobal(r) PROVE IInv'
<1> DEFINE y == [ctx[r] EXCEPT !.seen = None]
<1>1. /\ Handles(r) /\ ctx[r].seen # None /\ hits' = ctx[r].seen + 1
      /\ ctx' = [ctx EXCEPT ![r].seen = None]
      /\ ghost' = [ghost EXCEPT !.increments = @ + 1]
      /\ UNCHANGED <<pc, lock, sessions, created, jar>>
  BY DEF SetGlobal
<1>2. GoodContext(ctx[r], ghost.owner) /\ ctx[r] \in Contexts
  BY <1>1, StageKnown DEF Handles
<1>3. ctx' = [ctx EXCEPT ![r] = y]
  BY <1>1
<1>4. hits \in Nat /\ ctx[r].seen = hits
  BY <1>1 DEF IInv, Types, SeenExact
<1>5. /\ y \in Contexts /\ y.seen = None /\ y.headers = ctx[r].headers
      /\ y.cookie = ctx[r].cookie /\ y.session = ctx[r].session /\ y.client = ctx[r].client
  BY <1>2 DEF Contexts
<1>6. GoodContext(y, ghost.owner)
  BY <1>2, <1>5 DEF GoodContext
<1> HIDE DEF y
<1>7. /\ ghost' \in [owner : Seq(Clients), destroyed : SUBSET Int, increments : Nat]
      /\ ghost'.owner = ghost.owner /\ ghost'.increments = ghost.increments + 1
  BY <1>1 DEF IInv, Types
<1>8. /\ ghost.owner \in Seq(Clients) /\ GoodStore(sessions', ghost.owner)
      /\ created' = Len(ghost.owner) /\ created' \in 0..MaxIds
      /\ hits' \in Nat /\ hits' = ghost'.increments
  BY <1>1, <1>4, <1>7 DEF IInv, Types, StoreGood, NoLostIncrement
<1> QED
  BY <1>1, <1>3, <1>5, <1>6, <1>7, <1>8, MethodGood

LEMMA DestroyGood == ASSUME IInv, NEW r \in Requests, Destroy(r) PROVE IInv'
<1> DEFINE y == [ctx[r] EXCEPT !.session = None, !.headers = Append(@, Expire), !.ops = @ + 1]
<1>1. PICK id : /\ sessions' = Without({id})
                /\ ghost' = [ghost EXCEPT !.destroyed = @ \cup ({id} \cap 1..created)]
  BY DEF Destroy
<1>2. /\ Handles(r) /\ ctx[r].ops < MaxOps
      /\ ctx' = [ctx EXCEPT ![r].session = None, ![r].headers = Append(@, Expire), ![r].ops = @ + 1]
      /\ UNCHANGED <<pc, lock, hits, created, jar>>
  BY DEF Destroy, Calls
<1>3. GoodContext(ctx[r], ghost.owner) /\ ctx[r] \in Contexts
  BY <1>2, StageKnown DEF Handles
<1>4. ctx' = [ctx EXCEPT ![r] = y]
  BY <1>2
<1>5. ctx[r].ops + 1 \in 0..MaxOps
  BY <1>2, <1>3, BoundsAssumption DEF Contexts
<1>6. /\ ctx[r].headers \in Seq(Ids \cup {Expire})
      /\ Append(ctx[r].headers, Expire) \in Seq(Ids \cup {Expire})
      /\ \A i \in 1..Len(Append(ctx[r].headers, Expire)) :
           \/ Append(ctx[r].headers, Expire)[i] = Expire
           \/ i \in 1..Len(ctx[r].headers) /\ Append(ctx[r].headers, Expire)[i] = ctx[r].headers[i]
  BY <1>3 DEF Contexts
<1>7. /\ y \in Contexts /\ y.seen = ctx[r].seen /\ y.headers = Append(ctx[r].headers, Expire)
      /\ y.cookie = ctx[r].cookie /\ y.session = None /\ y.client = ctx[r].client
  BY <1>3, <1>5, <1>6 DEF Contexts
<1>8. GoodContext(y, ghost.owner)
  BY <1>3, <1>6, <1>7 DEF GoodContext
<1> HIDE DEF y
<1>9. GoodStore(sessions', ghost.owner)
  BY <1>1 DEF IInv, StoreGood, GoodStore, Without
<1>10. /\ ghost' \in [owner : Seq(Clients), destroyed : SUBSET Int, increments : Nat]
       /\ ghost'.owner = ghost.owner /\ ghost'.increments = ghost.increments
  BY <1>1 DEF IInv, Types
<1>11. /\ ghost.owner \in Seq(Clients) /\ created' = Len(ghost.owner) /\ created' \in 0..MaxIds
       /\ hits' \in Nat /\ hits' = ghost'.increments
  BY <1>2, <1>10 DEF IInv, Types, NoLostIncrement
<1>12. y.seen # None => y.seen = hits'
  BY <1>2, <1>7 DEF IInv, SeenExact
<1> QED
  BY <1>2, <1>4, <1>8, <1>9, <1>10, <1>11, <1>12, MethodGood

-----------------------------------------------------------------------------
(* Sessions                                                                *)

LEMMA PurgeGood ==
  ASSUME IInv PROVE GoodStore(PurgeExpired.kept, ghost.owner)
  BY DEF IInv, StoreGood, GoodStore, PurgeExpired, Without

\* A session that is used again keeps what it holds.
LEMMA TouchedGood ==
  ASSUME NEW ss, NEW o, NEW k \in DOMAIN ss, GoodStore(ss, o)
  PROVE  GoodStore([ss EXCEPT ![k].idle = 0], o)
<1> DEFINE t == [ss[k] EXCEPT !.idle = 0]  new == [ss EXCEPT ![k] = t]
<1>1. ss \in [DOMAIN ss -> SessionRecord]
  BY DEF GoodStore
<1>2. ss[k] \in SessionRecord
  BY <1>1
<1>3. t \in SessionRecord /\ t.data = ss[k].data
  BY <1>2 DEF SessionRecord
<1>4. new = [ss EXCEPT ![k].idle = 0]
  BY <1>1
<1> HIDE DEF t
<1>5. new \in [DOMAIN ss -> SessionRecord] /\ DOMAIN new = DOMAIN ss
  BY <1>1, <1>3
<1>6. \A id \in DOMAIN ss : new[id].data = ss[id].data
  BY <1>1, <1>3
<1>7. GoodStore(new, o)
  BY <1>5, <1>6 DEF GoodStore
<1> QED
  BY <1>4, <1>7

\* The session of a request: the one that it or its cookie names, which is
\* its client's, or a new one, with nothing in it.
LEMMA EnsureGood ==
  ASSUME IInv, NEW r \in Requests, Calls(r),
         NEW e, e = EnsureSession(r), e.id \in Ids \cup {Forged},
         NEW o, o = IF e.id = created + 1 THEN Append(ghost.owner, ctx[r].client) ELSE ghost.owner
  PROVE  /\ o \in Seq(Clients)
         /\ Len(o) = IF e.id = created + 1 THEN created + 1 ELSE created
         /\ OwnedBy(ctx[r].client, e.id, o)
         /\ e.headers \in Seq(Ids \cup {Expire})
         /\ \A i \in 1..Len(e.headers) : e.headers[i] # Expire => OwnedBy(ctx[r].client, e.headers[i], o)
         /\ GoodStore(e.sessions, o)
<1> DEFINE c == ctx[r]  ow == ghost.owner  ss == PurgeExpired.kept
<1>1. GoodContext(c, ow) /\ c \in Contexts
  BY StageKnown DEF Calls, Handles
<1>2. c.client \in Clients /\ c.headers \in Seq(Ids \cup {Expire})
  BY <1>1 DEF Contexts
<1>3. ow \in Seq(Clients) /\ created = Len(ow) /\ created \in Nat
  BY BoundsAssumption DEF IInv, Types
<1>4. GoodStore(ss, ow) /\ GoodStore(sessions, ow)
  BY PurgeGood DEF IInv, StoreGood
<1> HIDE DEF ss
<1>5. CASE c.session # None
  <2>1. e.id = c.session /\ e.sessions = sessions /\ e.headers = c.headers
    BY <1>5 DEF EnsureSession
  <2>2. OwnedBy(c.client, c.session, ow)
    BY <1>1, <1>5 DEF GoodContext
  <2>3. o = ow
    BY <1>3, <2>1, <2>2 DEF OwnedBy
  <2> QED
    BY <1>1, <1>2, <1>3, <1>4, <2>1, <2>2, <2>3, <1>3 DEF GoodContext, OwnedBy
<1>6. CASE c.session = None /\ c.cookie \in DOMAIN ss /\ ~Expired(c.cookie)
  <2>1. /\ e.id = c.cookie /\ e.headers = c.headers
        /\ e.sessions = [ss EXCEPT ![c.cookie].idle = 0]
    BY <1>6 DEF EnsureSession, ss
  <2>2. c.cookie \in 1..Len(ow)
    BY <1>4, <1>6 DEF GoodStore
  <2>3. OwnedBy(c.client, c.cookie, ow)
    BY <1>1, <2>2, <1>3, NoneAssumption DEF GoodContext, Forged
  <2>4. o = ow
    BY <1>3, <2>1, <2>2
  <2>5. GoodStore(e.sessions, ow)
    BY <1>4, <1>6, <2>1, TouchedGood
  <2> QED
    BY <1>1, <1>2, <1>3, <2>1, <2>3, <2>4, <2>5, <2>2 DEF GoodContext
<1>7. CASE c.session = None /\ ~(c.cookie \in DOMAIN ss /\ ~Expired(c.cookie))
  <2> DEFINE rest == [i \in DOMAIN ss \ {c.cookie} |-> ss[i]]
  <2>1. /\ e.id = created + 1 /\ e.headers = Append(c.headers, created + 1)
        /\ e.sessions = With(rest, created + 1, Fresh)
    BY <1>7 DEF EnsureSession, ss
  <2>2. o = Append(ow, c.client)
    BY <2>1
  <2>3. created + 1 \in Ids
    BY <1>3, <2>1 DEF Forged
  <2>4. /\ o \in Seq(Clients) /\ Len(o) = created + 1 /\ OwnedBy(c.client, created + 1, o)
        /\ \A d, id : OwnedBy(d, id, ow) => OwnedBy(d, id, o)
    BY <1>2, <1>3, <2>2, StillOwned
  <2>5. /\ e.headers \in Seq(Ids \cup {Expire})
        /\ \A i \in 1..Len(e.headers) :
             \/ e.headers[i] = created + 1
             \/ i \in 1..Len(c.headers) /\ e.headers[i] = c.headers[i]
    BY <1>2, <2>1, <2>3
  <2>6. \A i \in 1..Len(e.headers) : e.headers[i] # Expire => OwnedBy(c.client, e.headers[i], o)
    BY <1>1, <2>4, <2>5 DEF GoodContext
  <2>7. GoodStore(rest, ow)
    BY <1>4 DEF GoodStore
  <2>8. GoodStore(rest, o)
    BY <1>2, <1>3, <2>2, <2>7, StoreGrows
  <2> HIDE DEF rest
  <2>9. Fresh \in SessionRecord /\ Fresh.data = {}
    BY DEF Fresh, SessionRecord
  <2>10. GoodStore(e.sessions, o)
    <3>1. DOMAIN e.sessions = DOMAIN rest \cup {created + 1}
      BY <2>1 DEF With
    <3>2. \A id \in DOMAIN e.sessions : e.sessions[id] = IF id = created + 1 THEN Fresh ELSE rest[id]
      BY <2>1 DEF With
    <3>3. e.sessions \in [DOMAIN e.sessions -> SessionRecord]
      <4>1. e.sessions = [id \in DOMAIN rest \cup {created + 1} |-> IF id = created + 1 THEN Fresh ELSE rest[id]]
        BY <2>1 DEF With
      <4>2. \A id \in DOMAIN rest : rest[id] \in SessionRecord
        BY <2>8 DEF GoodStore
      <4> QED
        BY <2>9, <4>1, <4>2, <3>1
    <3>4. \A id \in DOMAIN e.sessions : e.sessions[id].data \subseteq {o[id]}
      BY <2>8, <2>9, <3>1, <3>2 DEF GoodStore
    <3>5. DOMAIN e.sessions \subseteq 1..Len(o)
      BY <1>3, <2>4, <2>8, <3>1 DEF GoodStore
    <3> QED
      BY <3>3, <3>4, <3>5 DEF GoodStore
  <2> QED
    BY <2>1, <2>4, <2>5, <2>6, <2>10
<1> QED
  BY <1>5, <1>6, <1>7

\* What a method leaves in the store of the session that is its request's.
LEMMA SessionGood ==
  ASSUME IInv, NEW r \in Requests, Calls(r),
         NEW e, e = EnsureSession(r), e.id \in Ids \cup {Forged},
         NEW o, o = IF e.id = created + 1 THEN Append(ghost.owner, ctx[r].client) ELSE ghost.owner,
         GoodStore(sessions', o),
         ctx' = [ctx EXCEPT ![r].session = e.id, ![r].headers = e.headers, ![r].ops = @ + 1],
         created' = IF e.id = created + 1 THEN e.id ELSE created,
         ghost' = IF e.id = created + 1 THEN [ghost EXCEPT !.owner = Append(@, ctx[r].client)] ELSE ghost,
         UNCHANGED <<pc, net, lock, hits, jar>>
  PROVE  IInv'
<1> DEFINE c == ctx[r]  y == [c EXCEPT !.session = e.id, !.headers = e.headers, !.ops = @ + 1]
<1>1. Handles(r) /\ c.ops < MaxOps
  BY DEF Calls
<1>2. GoodContext(c, ghost.owner) /\ c \in Contexts
  BY <1>1, StageKnown DEF Handles
<1>3. /\ o \in Seq(Clients)
      /\ Len(o) = IF e.id = created + 1 THEN created + 1 ELSE created
      /\ OwnedBy(c.client, e.id, o)
      /\ e.headers \in Seq(Ids \cup {Expire})
      /\ \A i \in 1..Len(e.headers) : e.headers[i] # Expire => OwnedBy(c.client, e.headers[i], o)
  BY EnsureGood
<1>4. ctx' = [ctx EXCEPT ![r] = y]
  OBVIOUS
<1>5. c.ops + 1 \in 0..MaxOps
  BY <1>1, <1>2, BoundsAssumption DEF Contexts
<1>6. /\ y \in Contexts /\ y.seen = c.seen /\ y.headers = e.headers
      /\ y.cookie = c.cookie /\ y.session = e.id /\ y.client = c.client
  BY <1>2, <1>3, <1>5 DEF Contexts
<1>7. c.client \in Clients /\ ghost.owner \in Seq(Clients)
  BY <1>2 DEF Contexts, IInv, Types
<1>8. GoodContext(c, o)
  BY <1>2, <1>7, ContextKept
<1>9. GoodContext(y, o)
  BY <1>3, <1>6, <1>8 DEF GoodContext
<1> HIDE DEF y
<1>10. o = ghost.owner \/ \E d \in Clients : o = Append(ghost.owner, d)
  BY <1>7
<1>11. created' = Len(o) /\ created' \in 0..MaxIds
  <2>1. created \in 0..MaxIds
    BY DEF IInv, Types
  <2> QED
    BY <1>3, <2>1, BoundsAssumption DEF Ids, Forged
<1>12. /\ ghost' \in [owner : Seq(Clients), destroyed : SUBSET Int, increments : Nat]
       /\ ghost'.owner = o /\ ghost'.increments = ghost.increments
  BY <1>3 DEF IInv, Types
<1>13. hits' \in Nat /\ hits' = ghost'.increments
  BY <1>12 DEF IInv, Types, NoLostIncrement
<1>14. y.seen # None => y.seen = hits'
  BY <1>1, <1>6 DEF IInv, SeenExact
<1> QED
  BY <1>1, <1>3, <1>4, <1>9, <1>10, <1>11, <1>12, <1>13, <1>14, MethodGood

\* session, id, get, has: the session is found or opened, nothing more.
LEMMA LookGood == ASSUME IInv, NEW r \in Requests, Look(r) PROVE IInv'
<1> DEFINE e == EnsureSession(r)
           o == IF e.id = created + 1 THEN Append(ghost.owner, ctx[r].client) ELSE ghost.owner
<1>1. /\ Calls(r) /\ e.id \in Ids \cup {Forged}
      /\ sessions' = e.sessions
      /\ ctx' = [ctx EXCEPT ![r].session = e.id, ![r].headers = e.headers, ![r].ops = @ + 1]
      /\ created' = IF e.id = created + 1 THEN e.id ELSE created
      /\ ghost' = IF e.id = created + 1 THEN [ghost EXCEPT !.owner = Append(@, ctx[r].client)] ELSE ghost
      /\ UNCHANGED <<pc, net, lock, hits, jar>>
  BY DEF Look, OnSession
<1>2. GoodStore(e.sessions, o)
  BY <1>1, EnsureGood
<1>3. GoodStore(sessions', o)
  BY <1>1, <1>2
<1> QED
  BY <1>1, <1>3, SessionGood

\* set: the value is its client's, and so is the session, found or come back.
LEMMA SetValueGood == ASSUME IInv, NEW r \in Requests, SetValue(r) PROVE IInv'
<1> DEFINE e == EnsureSession(r)
           c == ctx[r].client
           o == IF e.id = created + 1 THEN Append(ghost.owner, c) ELSE ghost.owner
           s == IF e.id \in DOMAIN e.sessions THEN [e.sessions[e.id] EXCEPT !.data = @ \cup {c}]
                ELSE [Fresh EXCEPT !.data = {c}]
           new == [i \in DOMAIN e.sessions \cup {e.id} |-> IF i = e.id THEN s ELSE e.sessions[i]]
<1>1. /\ Calls(r) /\ e.id \in Ids \cup {Forged}
      /\ sessions' = With(e.sessions, e.id, s)
      /\ ctx' = [ctx EXCEPT ![r].session = e.id, ![r].headers = e.headers, ![r].ops = @ + 1]
      /\ created' = IF e.id = created + 1 THEN e.id ELSE created
      /\ ghost' = IF e.id = created + 1 THEN [ghost EXCEPT !.owner = Append(@, ctx[r].client)] ELSE ghost
      /\ UNCHANGED <<pc, net, lock, hits, jar>>
  BY DEF SetValue, OnSession
<1>2. GoodStore(e.sessions, o) /\ OwnedBy(c, e.id, o)
  BY <1>1, EnsureGood
<1>3. c \in Clients
  BY <1>1, StageKnown DEF Calls, Handles, Contexts
<1>4. sessions' = new
  BY <1>1 DEF With
<1> HIDE DEF e, o, c
<1>5. s \in SessionRecord /\ s.data \subseteq {c}
  <2>1. CASE e.id \in DOMAIN e.sessions
    <3>1. e.sessions[e.id] \in SessionRecord /\ e.sessions[e.id].data \subseteq {c}
      BY <1>2, <2>1 DEF GoodStore, OwnedBy
    <3> QED
      BY <1>3, <2>1, <3>1 DEF SessionRecord
  <2>2. CASE e.id \notin DOMAIN e.sessions
    BY <1>3, <2>2 DEF SessionRecord, Fresh
  <2> QED
    BY <2>1, <2>2
<1> HIDE DEF s
<1>6. GoodStore(new, o)
  BY <1>2, <1>5 DEF GoodStore, OwnedBy
<1>7. GoodStore(sessions', o)
  BY <1>4, <1>6
<1> QED
  BY <1>1, <1>7, SessionGood DEF e, o, c

LEMMA RemoveValueGood == ASSUME IInv, NEW r \in Requests, RemoveValue(r) PROVE IInv'
<1> DEFINE e == EnsureSession(r)
           o == IF e.id = created + 1 THEN Append(ghost.owner, ctx[r].client) ELSE ghost.owner
           new == [i \in DOMAIN e.sessions |->
                     IF i = e.id THEN [e.sessions[i] EXCEPT !.data = {}] ELSE e.sessions[i]]
<1>1. /\ Calls(r) /\ e.id \in Ids \cup {Forged}
      /\ sessions' = new
      /\ ctx' = [ctx EXCEPT ![r].session = e.id, ![r].headers = e.headers, ![r].ops = @ + 1]
      /\ created' = IF e.id = created + 1 THEN e.id ELSE created
      /\ ghost' = IF e.id = created + 1 THEN [ghost EXCEPT !.owner = Append(@, ctx[r].client)] ELSE ghost
      /\ UNCHANGED <<pc, net, lock, hits, jar>>
  BY DEF RemoveValue, OnSession
<1>2. GoodStore(e.sessions, o)
  BY <1>1, EnsureGood
<1> HIDE DEF e, o
<1>3. \A id \in DOMAIN e.sessions :
        /\ e.sessions[id] \in SessionRecord
        /\ [e.sessions[id] EXCEPT !.data = {}] \in SessionRecord
        /\ [e.sessions[id] EXCEPT !.data = {}].data = {}
  BY <1>2 DEF GoodStore, SessionRecord
<1>4. new \in [DOMAIN new -> SessionRecord] /\ DOMAIN new = DOMAIN e.sessions
  BY <1>3
<1>5. \A id \in DOMAIN new : new[id].data \subseteq e.sessions[id].data
  BY <1>3
<1>6. GoodStore(new, o)
  BY <1>2, <1>4, <1>5 DEF GoodStore
<1>7. GoodStore(sessions', o)
  BY <1>1, <1>6
<1> QED
  BY <1>1, <1>7, SessionGood DEF e, o

\* Time passes: sessions grow idle, and hold what they held.
LEMMA TickGood == ASSUME IInv, Tick PROVE IInv'
<1> DEFINE new == [id \in DOMAIN sessions |->
                     [sessions[id] EXCEPT !.idle = IF @ < MaxIdle THEN @ + 1 ELSE @]]
<1>1. sessions' = new /\ UNCHANGED <<pc, ctx, net, lock, hits, created, jar, ghost>>
  BY DEF Tick
<1>2. GoodStore(sessions, ghost.owner)
  BY DEF IInv, StoreGood
<1>3. \A id \in DOMAIN sessions : new[id] \in SessionRecord /\ new[id].data = sessions[id].data
  BY <1>2 DEF GoodStore, SessionRecord
<1>4. new \in [DOMAIN new -> SessionRecord] /\ DOMAIN new = DOMAIN sessions
  BY <1>3
<1>5. GoodStore(new, ghost.owner)
  BY <1>2, <1>3, <1>4 DEF GoodStore
<1> HIDE DEF new
<1>6. StoreGood'
  BY <1>1, <1>5 DEF StoreGood
<1> QED
  BY <1>1, <1>6 DEF IInv, Types, ContextsGood, JarsGood, LockExact, SeenExact, NoLostIncrement, Handles

LEMMA StutterGood == ASSUME IInv, UNCHANGED vars PROVE IInv'
  BY DEF vars, IInv, Types, ContextsGood, StoreGood, JarsGood, LockExact, SeenExact, NoLostIncrement, Handles

LEMMA NextGood == IInv /\ [Next]_vars => IInv'
<1> SUFFICES ASSUME IInv, [Next]_vars PROVE IInv'
  OBVIOUS
<1>1. CASE Tick
  BY <1>1, TickGood
<1>2. ASSUME NEW s \in Servers, Work(s) PROVE IInv'
  BY <1>2, RecvGood, RefuseGood DEF Work
<1>3. ASSUME NEW r \in Requests, Send(r) PROVE IInv'
  BY <1>3, SendGood
<1>4. ASSUME NEW r \in Requests, Advance(r) PROVE IInv'
  BY <1>4, ReceiveGood, EnterGood, ReturnGood, ReplyGood DEF Advance
<1>5. ASSUME NEW r \in Requests, Raise(r) PROVE IInv'
  BY <1>5, RaiseGood
<1>6. ASSUME NEW r \in Requests, Method(r) PROVE IInv'
  BY <1>6, LookGood, SetValueGood, RemoveValueGood, DestroyGood, GetGlobalGood, SetGlobalGood DEF Method
<1>7. CASE UNCHANGED vars
  BY <1>7, StutterGood
<1> QED
  BY <1>1, <1>2, <1>3, <1>4, <1>5, <1>6, <1>7 DEF Next

LEMMA Inductive == Spec => []IInv
<1>1. Init => IInv
  BY InitGood
<1>2. IInv /\ [Next]_vars => IInv'
  BY NextGood
<1> QED
  BY <1>1, <1>2, PTL DEF Spec

\* Handlers exclude each other: HANDLER_LOCK is held from the entry of a
\* handler to its return or its exception (call_handler_locked), so that what
\* a handler read of a global is still there when it writes it.
THEOREM HandlersExclude == Spec => []NoLostIncrement
<1>1. IInv => NoLostIncrement
  BY DEF IInv
<1> QED
  BY <1>1, Inductive, PTL

\* A client only reaches sessions that were created for it: ensure_session
\* adopts no identifier that the server did not draw, and the jar, the
\* context and the headers of the answer only ever carry the client's own.
THEOREM SessionsIsolated == Spec => []Isolated
<1>1. IInv => Isolated
  <2> SUFFICES ASSUME IInv PROVE Isolated
    OBVIOUS
  <2>1. created = Len(ghost.owner)
    BY DEF IInv, Types
  <2>2. \A id \in DOMAIN sessions : id \in 1..created /\ sessions[id].data \subseteq {ghost.owner[id]}
    BY <2>1 DEF IInv, StoreGood, GoodStore
  <2>3. ASSUME NEW r \in Requests, ctx[r] # None, ctx[r].session # None
        PROVE  ctx[r].session \in 1..created /\ ghost.owner[ctx[r].session] = ctx[r].client
    <3>1. GoodContext(ctx[r], ghost.owner)
      BY <2>3 DEF IInv, ContextsGood
    <3> QED
      BY <2>1, <2>3, <3>1 DEF GoodContext, OwnedBy
  <2> QED
    BY <2>2, <2>3 DEF Isolated
<1> QED
  BY <1>1, Inductive, PTL

-----------------------------------------------------------------------------
(* Beyond the handlers and their clients: the places for long bodies, what  *)
(* the store keeps and for how long, and the cookie of an answer            *)

\* The requests that hold a place for a long body, and those that are read.
Long(s) == {r \in Requests : /\ pc[r] \notin {"unsent", "queued", "done"}
                             /\ ctx[r].server = s /\ ctx[r].long}
Received(s) == {r \in Long(s) : pc[r] # "busy"}

NetGood ==
  /\ serving \in [Workers -> Requests \cup {None}]
  /\ receiving \in [Servers -> Nat]
  /\ \A r \in Requests : pc[r] = "busy" => ctx[r].long
  /\ \A s \in Servers : /\ IsFiniteSet(Long(s)) /\ receiving[s] = Cardinality(Long(s))
                        /\ Cardinality(Received(s)) <= MaxReceiving

\* No session outlives the next purge: between two purges, none has been idle
\* for longer than the time-out and what has passed since the last one.
IdleOK(ss, at) ==
  /\ at \in 0..PurgeInterval
  /\ \A id \in DOMAIN ss : /\ ss[id].idle \in 0..MaxIdle
                           /\ at < PurgeInterval => ss[id].idle <= Timeout + at

IdleBounded == IdleOK(sessions, purged)

DestroyedKnown == ghost.destroyed \subseteq 1..created

\* The client of a request will hold the cookie of the session it ends with.
Named(c) ==
  LET held == IF c.headers = <<>> THEN c.cookie ELSE c.headers[Len(c.headers)] IN
  IF c.session # None THEN held = c.session ELSE c.headers # <<>> => held = Expire

Untouched(c) == c.session = None /\ c.headers = <<>>

\* Until its handler raises, a request that set a cookie has left the session
\* it came with, which is gone, and the session that it has is in the store.
Settles(c) ==
  /\ Named(c)
  /\ c.headers # <<>> => c.cookie \notin DOMAIN sessions /\ (c.session # None => c.session # c.cookie)
  /\ c.session # None => c.session \in DOMAIN sessions

AnswerGood(r) == ctx[r] # None /\ ~ctx[r].reset =>
  /\ Handles(r) => Settles(ctx[r])
  /\ pc[r] = "reply" => Named(ctx[r])
  /\ pc[r] \notin {"inRoute", "inError", "reply"} => Untouched(ctx[r])

AnswersGood == \A r \in Requests : AnswerGood(r)

KInv == NetGood /\ IdleBounded /\ DestroyedKnown /\ AnswersGood

Good == IInv /\ KInv

-----------------------------------------------------------------------------
(* Places for long bodies                                                  *)

\* A step that moves no request in or out of the places.
LEMMA PlacesSame ==
  ASSUME NetGood,
         \A r \in Requests :
           /\ pc'[r] \in {"unsent", "queued", "done"} <=> pc[r] \in {"unsent", "queued", "done"}
           /\ pc[r] \notin {"unsent", "queued", "done"} =>
                ctx'[r].server = ctx[r].server /\ ctx'[r].long = ctx[r].long
           /\ pc'[r] = "busy" <=> pc[r] = "busy",
         UNCHANGED <<serving, receiving>>
  PROVE  NetGood'
<1>1. \A s : Long(s)' = Long(s)
  BY DEF Long
<1>2. \A s : Received(s)' = Received(s)
  BY <1>1 DEF Received, Long
<1> QED BY <1>1, <1>2 DEF NetGood

\* A request that leaves takes its place, if it had one, with it.
LEMMA PlacesLeft ==
  ASSUME NetGood, NEW r \in Requests, pc[r] \notin {"unsent", "queued", "done"},
         pc' = [pc EXCEPT ![r] = "done"], pc \in [Requests -> Stages],
         \A q \in Requests : q # r => ctx'[q] = ctx[q],
         ctx[r].server \in Servers, ctx[r].long \in BOOLEAN,
         receiving' = [receiving EXCEPT ![ctx[r].server] = IF ctx[r].long THEN @ - 1 ELSE @],
         serving' \in [Workers -> Requests \cup {None}]
  PROVE  NetGood'
<1>1. PICK t \in Servers : t = ctx[r].server
  OBVIOUS
<1>2. \A s : Long(s)' = Long(s) \ {r} /\ Received(s)' = Received(s) \ {r}
  BY DEF Long, Received
<1>3. \A s \in Servers : /\ IsFiniteSet(Long(s)) /\ Cardinality(Long(s)) \in Nat
                         /\ IsFiniteSet(Received(s)) /\ Cardinality(Received(s)) \in Nat
  BY FS_CardinalityType, FS_Subset DEF NetGood, Received
<1>4. ASSUME NEW s \in Servers
      PROVE  /\ IsFiniteSet(Long(s)') /\ receiving'[s] = Cardinality(Long(s)')
             /\ receiving'[s] \in Nat /\ Cardinality(Received(s)') <= MaxReceiving
  <2>1. Cardinality(Received(s) \ {r}) \in Nat /\ Cardinality(Received(s) \ {r}) <= Cardinality(Received(s))
    <3>1. IsFiniteSet(Received(s)) /\ Cardinality(Received(s)) \in Nat
      BY <1>3
    <3>2. /\ IsFiniteSet(Received(s) \ {r})
          /\ Cardinality(Received(s) \ {r}) = IF r \in Received(s) THEN Cardinality(Received(s)) - 1 ELSE Cardinality(Received(s))
      BY <3>1, FS_RemoveElement
    <3>3. Cardinality(Received(s) \ {r}) \in Nat
      BY <3>2, FS_CardinalityType
    <3> QED BY <3>1, <3>2, <3>3
  <2>2. Cardinality(Received(s)) <= MaxReceiving
    BY DEF NetGood
  <2>3. Cardinality(Received(s)') <= MaxReceiving
    <3>1. Cardinality(Received(s)) \in Nat /\ MaxReceiving \in Nat
      BY <1>3, BoundsAssumption
    <3>2. Received(s)' = Received(s) \ {r}
      BY <1>2
    <3> QED BY <2>1, <2>2, <3>1, <3>2
  <2>4. r \in Long(s) <=> s = t /\ ctx[r].long
    BY <1>1 DEF Long
  <2>5. IsFiniteSet(Long(s)') /\ Cardinality(Long(s)') = IF r \in Long(s) THEN Cardinality(Long(s)) - 1 ELSE Cardinality(Long(s))
    BY <1>2, <1>3, FS_RemoveElement
  <2>6. receiving'[s] = IF r \in Long(s) THEN receiving[s] - 1 ELSE receiving[s]
    BY <1>1, <2>4 DEF NetGood
  <2>7. receiving[s] = Cardinality(Long(s))
    BY DEF NetGood
  <2>8. Cardinality(Long(s)') \in Nat
    BY <2>5, FS_CardinalityType
  <2> QED BY <2>3, <2>5, <2>6, <2>7, <2>8
<1>5. receiving' \in [Servers -> Nat]
  BY <1>4 DEF NetGood
<1>6. \A q \in Requests : pc'[q] = "busy" => ctx'[q].long
  BY DEF NetGood
<1> QED BY <1>4, <1>5, <1>6 DEF NetGood

\* dispatch_request: one place more for a long body, also while it is refused.
LEMMA RecvPlaces ==
  ASSUME Good, NEW s \in Servers, NEW w \in WorkersOf[s], NEW r \in Requests, Recv(s, w, r)
  PROVE  NetGood'
<1>1. /\ pc[r] = "queued" /\ ctx[r].server = s /\ ctx[r].long \in BOOLEAN
      /\ pc \in [Requests -> Stages] /\ NetGood /\ w \in Workers
  BY StageKnown, NetAssumption DEF Recv, Contexts, Good, KInv, IInv, Types
<1> DEFINE busy == ctx[r].long /\ receiving[s] >= MaxReceiving
<1>2. /\ pc' = [pc EXCEPT ![r] = IF busy THEN "busy" ELSE "body"] /\ ctx' = ctx
      /\ receiving' = [receiving EXCEPT ![s] = IF ctx[r].long THEN @ + 1 ELSE @]
      /\ serving' \in [Workers -> Requests \cup {None}]
  BY <1>1 DEF Recv, Go, NetGood
<1>3. \A t : Long(t)' = IF t = s /\ ctx[r].long THEN Long(t) \cup {r} ELSE Long(t)
  BY <1>1, <1>2 DEF Long
<1>4. \A t : Received(t)' = IF t = s /\ ctx[r].long /\ ~busy THEN Received(t) \cup {r} ELSE Received(t)
  <2> HIDE DEF busy
  <2> QED BY <1>1, <1>2, <1>3 DEF Received, Long
<1>5. \A t \in Servers : /\ IsFiniteSet(Long(t)) /\ Cardinality(Long(t)) \in Nat
                         /\ IsFiniteSet(Received(t)) /\ Cardinality(Received(t)) \in Nat
                         /\ Cardinality(Received(t)) <= Cardinality(Long(t))
                         /\ r \notin Long(t) /\ r \notin Received(t)
                         /\ receiving[t] = Cardinality(Long(t)) /\ Cardinality(Received(t)) <= MaxReceiving
  BY <1>1, FS_CardinalityType, FS_Subset DEF NetGood, Received, Long
<1>6. ASSUME NEW t \in Servers
      PROVE  /\ IsFiniteSet(Long(t)') /\ receiving'[t] = Cardinality(Long(t)')
             /\ receiving'[t] \in Nat /\ Cardinality(Received(t)') <= MaxReceiving
  <2>1. /\ IsFiniteSet(Long(t) \cup {r}) /\ Cardinality(Long(t) \cup {r}) = Cardinality(Long(t)) + 1
        /\ Cardinality(Received(t) \cup {r}) = Cardinality(Received(t)) + 1
    BY <1>5, FS_AddElement
  <2>2. receiving'[t] = IF t = s /\ ctx[r].long THEN receiving[t] + 1 ELSE receiving[t]
    BY <1>1, <1>2 DEF NetGood
  <2>3. Cardinality(Received(t)') <= MaxReceiving
    <3>1. CASE t = s /\ ctx[r].long /\ ~busy
      <4>1. ~(receiving[t] >= MaxReceiving)
        BY <3>1
      <4> QED BY <1>4, <1>5, <2>1, <3>1, <4>1, BoundsAssumption
    <3>2. CASE ~(t = s /\ ctx[r].long /\ ~busy)
      BY <1>4, <1>5, <3>2
    <3> QED BY <3>1, <3>2
  <2>4. Long(t)' = IF t = s /\ ctx[r].long THEN Long(t) \cup {r} ELSE Long(t)
    BY <1>3
  <2>5. IsFiniteSet(Long(t)) /\ receiving[t] = Cardinality(Long(t)) /\ Cardinality(Long(t)) \in Nat
    BY <1>5
  <2>6. CASE t = s /\ ctx[r].long
    BY <2>1, <2>2, <2>3, <2>4, <2>5, <2>6
  <2>7. CASE ~(t = s /\ ctx[r].long)
    BY <2>2, <2>3, <2>4, <2>5, <2>7
  <2> QED BY <2>6, <2>7
<1>7. receiving' \in [Servers -> Nat]
  BY <1>2, <1>6 DEF NetGood, Good, KInv
<1>8. \A q \in Requests : pc'[q] = "busy" => ctx'[q].long
  BY <1>1, <1>2 DEF NetGood
<1> QED BY <1>2, <1>6, <1>7, <1>8 DEF NetGood

LEMMA NetSteps == ASSUME Good, [Next]_vars PROVE NetGood'
<1> USE DEF Go, store, net
<1>1. NetGood /\ pc \in [Requests -> Stages] /\ ctx \in [Requests -> Contexts \cup {None}]
  BY DEF Good, KInv, IInv, Types, ContextsGood
<1>2. \A r \in Requests : pc[r] \notin {"unsent", "done"} => ctx[r] \in Contexts
  BY StageKnown DEF Good
<1>3. \A x \in Contexts : x.server \in Servers /\ x.long \in BOOLEAN
  BY DEF Contexts
<1>4. CASE Tick \/ UNCHANGED vars
  BY <1>1, <1>4, PlacesSame DEF Tick, vars
<1>5. ASSUME NEW s \in Servers, Work(s) PROVE NetGood'
  <2>1. ASSUME NEW w \in WorkersOf[s], NEW r \in Requests, Recv(s, w, r) PROVE NetGood'
    BY <2>1, RecvPlaces
  <2>2. ASSUME NEW w \in WorkersOf[s], NEW r \in Requests, Refuse(w, r) PROVE NetGood'
    <3>1. ctx[r] \in Contexts /\ ctx[r].long /\ w \in Workers /\ pc[r] = "busy"
      BY <1>1, <1>2, <2>2, NetAssumption DEF Refuse, NetGood
    <3>2. /\ serving' \in [Workers -> Requests \cup {None}]
          /\ receiving' = [receiving EXCEPT ![ctx[r].server] = IF ctx[r].long THEN @ - 1 ELSE @]
          /\ pc' = [pc EXCEPT ![r] = "done"] /\ \A q \in Requests : q # r => ctx'[q] = ctx[q]
      BY <1>1, <2>2, <3>1 DEF Refuse, NetGood
    <3> QED BY <1>1, <1>3, <3>1, <3>2, PlacesLeft
  <2> QED BY <1>5, <2>1, <2>2 DEF Work
<1>6. ASSUME NEW r \in Requests, Send(r) PROVE NetGood'
  BY <1>1, <1>6, PlacesSame DEF Send
<1>7. ASSUME NEW r \in Requests, Receive(r) PROVE NetGood'
  <2>1. PICK t \in {"route", "error", "reply"} : pc' = [pc EXCEPT ![r] = t]
    BY <1>7 DEF Receive
  <2> QED BY <1>1, <1>7, <2>1, PlacesSame DEF Receive
<1>8. ASSUME NEW r \in Requests, Enter(r) PROVE NetGood'
  BY <1>1, <1>8, PlacesSame DEF Enter
<1>9. ASSUME NEW r \in Requests, Return(r) PROVE NetGood'
  BY <1>1, <1>9, PlacesSame DEF Return, Handles
<1>10. ASSUME NEW r \in Requests, Reply(r) PROVE NetGood'
  <2>1. /\ pc[r] = "reply" /\ pc' = [pc EXCEPT ![r] = "done"] /\ \A q \in Requests : q # r => ctx'[q] = ctx[q]
        /\ receiving' = [receiving EXCEPT ![ctx[r].server] = IF ctx[r].long THEN @ - 1 ELSE @]
        /\ serving' \in [Workers -> Requests \cup {None}]
    BY <1>1, <1>10 DEF Reply, NetGood
  <2> QED BY <1>1, <1>2, <1>3, <2>1, PlacesLeft
<1>11. ASSUME NEW r \in Requests, Raise(r) PROVE NetGood'
  <2>1. PICK t \in {"error", "reply"} : pc' = [pc EXCEPT ![r] = t]
    BY <1>11 DEF Raise
  <2>2. pc[r] \in {"inRoute", "inError"} /\ ctx[r] \in Contexts /\ UNCHANGED <<serving, receiving>>
    BY <1>2, <1>11 DEF Raise, Handles
  <2>3. \A q \in Requests : pc[q] \notin {"unsent", "queued", "done"} =>
          ctx'[q].server = ctx[q].server /\ ctx'[q].long = ctx[q].long
    BY <1>1, <1>11, <2>2 DEF Raise, Contexts
  <2> QED BY <1>1, <2>1, <2>2, <2>3, PlacesSame
<1>12. ASSUME NEW r \in Requests, Method(r) PROVE NetGood'
  <2>1. Handles(r) /\ UNCHANGED <<pc, serving, receiving>>
    BY <1>12 DEF Method, Look, SetValue, RemoveValue, OnSession, Destroy, GetGlobal, SetGlobal, Calls
  <2>2. ctx[r] \in Contexts
    BY <1>2, <2>1 DEF Handles
  <2>3. \A q \in Requests : pc[q] \notin {"unsent", "queued", "done"} =>
          ctx'[q].server = ctx[q].server /\ ctx'[q].long = ctx[q].long
    <3>1. CASE Look(r) \/ SetValue(r) \/ RemoveValue(r)
      <4>1. PICK id, hs : ctx' = [ctx EXCEPT ![r].session = id, ![r].headers = hs, ![r].ops = @ + 1]
        BY <3>1 DEF Look, SetValue, RemoveValue, OnSession
      <4> QED BY <1>1, <2>2, <4>1 DEF Contexts
    <3>2. CASE Destroy(r)
      BY <1>1, <2>2, <3>2 DEF Destroy, Contexts
    <3>3. CASE GetGlobal(r)
      BY <1>1, <2>2, <3>3 DEF GetGlobal, Contexts
    <3>4. CASE SetGlobal(r)
      BY <1>1, <2>2, <3>4 DEF SetGlobal, Contexts
    <3> QED BY <1>12, <3>1, <3>2, <3>3, <3>4 DEF Method
  <2> QED BY <1>1, <2>1, <2>3, PlacesSame
<1> QED BY <1>4, <1>5, <1>6, <1>7, <1>8, <1>9, <1>10, <1>11, <1>12 DEF Next, Advance

-----------------------------------------------------------------------------
(* What ensure_session leaves                                               *)

\* purge_expired: what it keeps was kept, and has not been idle for long.
LEMMA PurgeBounds ==
  ASSUME Good
  PROVE  /\ PurgeExpired.at \in 0..PurgeInterval
         /\ DOMAIN PurgeExpired.kept \subseteq DOMAIN sessions
         /\ \A id \in DOMAIN PurgeExpired.kept :
              /\ PurgeExpired.kept[id] = sessions[id]
              /\ sessions[id].idle \in 0..MaxIdle /\ sessions[id].idle <= Timeout + PurgeExpired.at
<1>1. IdleOK(sessions, purged) /\ Timeout \in Nat /\ PurgeInterval \in Nat
  BY BoundsAssumption DEF Good, KInv, IdleBounded
<1>2. CASE purged < PurgeInterval
  BY <1>1, <1>2 DEF PurgeExpired, IdleOK
<1>3. CASE ~(purged < PurgeInterval)
  <2>1. PurgeExpired.at = 0 /\ PurgeExpired.kept = Without({id \in DOMAIN sessions : Expired(id)})
    BY <1>3 DEF PurgeExpired
  <2>2. \A id \in DOMAIN sessions : ~Expired(id) => sessions[id].idle <= Timeout
    BY <1>1 DEF Expired, IdleOK, MaxIdle
  <2> QED BY <1>1, <2>1, <2>2 DEF Without, IdleOK
<1> QED BY <1>2, <1>3

\* The three ways of ensure_session.
LEMMA EnsureCases ==
  ASSUME Good, NEW r \in Requests, Calls(r), NEW e, e = EnsureSession(r), e.id \in Ids \cup {Forged},
         NEW c, c = ctx[r], NEW ss, ss = PurgeExpired.kept
  PROVE  \/ /\ c.session # None /\ e.id = c.session
            /\ e.sessions = sessions /\ e.at = purged /\ e.headers = c.headers
         \/ /\ c.session = None /\ c.cookie \in DOMAIN ss /\ e.id = c.cookie
            /\ e.sessions = [ss EXCEPT ![c.cookie].idle = 0]
            /\ e.at = PurgeExpired.at /\ e.headers = c.headers
         \/ /\ c.session = None /\ e.id = created + 1 /\ e.id \in Ids /\ c.cookie # e.id
            /\ DOMAIN e.sessions = (DOMAIN ss \ {c.cookie}) \cup {e.id}
            /\ \A id \in DOMAIN e.sessions : e.sessions[id] = IF id = e.id THEN Fresh ELSE ss[id]
            /\ e.at = PurgeExpired.at /\ e.headers = Append(c.headers, e.id)
<1>1. GoodContext(c, ghost.owner) /\ created = Len(ghost.owner) /\ created \in Nat /\ c \in Contexts
  BY StageKnown, BoundsAssumption DEF Good, IInv, Types, Calls, Handles
<1>2. CASE c.session # None
  BY <1>2 DEF EnsureSession
<1>3. CASE c.session = None /\ c.cookie \in DOMAIN ss /\ ~Expired(c.cookie)
  BY <1>3 DEF EnsureSession
<1>4. CASE c.session = None /\ ~(c.cookie \in DOMAIN ss /\ ~Expired(c.cookie))
  <2> DEFINE rest == [i \in DOMAIN ss \ {c.cookie} |-> ss[i]]
  <2>1. /\ e.id = created + 1 /\ e.headers = Append(c.headers, created + 1) /\ e.at = PurgeExpired.at
        /\ e.sessions = With(rest, created + 1, Fresh)
    BY <1>4 DEF EnsureSession
  <2>2. c.cookie # e.id
    BY <1>1, <2>1, NoneAssumption DEF GoodContext, OwnedBy, Forged
  <2>3. e.id \in Ids
    BY <1>1, <2>1 DEF Forged, Ids
  <2>4. /\ DOMAIN e.sessions = (DOMAIN ss \ {c.cookie}) \cup {e.id}
        /\ \A id \in DOMAIN e.sessions : e.sessions[id] = IF id = e.id THEN Fresh ELSE ss[id]
    BY <2>1 DEF With
  <2> QED BY <1>4, <2>1, <2>2, <2>3, <2>4
<1> QED BY <1>2, <1>3, <1>4

\* How long the sessions that it leaves have been idle.
LEMMA EnsureIdle ==
  ASSUME Good, NEW r \in Requests, Calls(r), NEW e, e = EnsureSession(r), e.id \in Ids \cup {Forged}
  PROVE  /\ IdleOK(e.sessions, e.at)
         /\ ctx[r].session = None =>
              \A id \in DOMAIN e.sessions : e.sessions[id].idle <= Timeout + PurgeInterval
<1> DEFINE c == ctx[r]  ss == PurgeExpired.kept
<1>1. IdleOK(sessions, purged) /\ Timeout \in Nat /\ PurgeInterval \in Nat /\ MaxIdle \in Nat
  BY BoundsAssumption DEF Good, KInv, IdleBounded, MaxIdle
<1>2. ss = PurgeExpired.kept /\ c = ctx[r]
  OBVIOUS
<1>3. GoodStore(ss, ghost.owner)
  BY PurgeGood DEF Good
<1>4. /\ PurgeExpired.at \in 0..PurgeInterval
      /\ \A id \in DOMAIN ss : ss[id].idle \in 0..MaxIdle /\ ss[id].idle <= Timeout + PurgeExpired.at
  BY PurgeBounds
<1> HIDE DEF c, ss
<1>5. CASE c.session # None /\ e.sessions = sessions /\ e.at = purged
  BY <1>1, <1>2, <1>5
<1>6. ASSUME e.at = PurgeExpired.at,
             \A id \in DOMAIN e.sessions : e.sessions[id].idle = 0 \/ (id \in DOMAIN ss /\ e.sessions[id].idle = ss[id].idle)
      PROVE  /\ IdleOK(e.sessions, e.at)
             /\ \A id \in DOMAIN e.sessions : e.sessions[id].idle <= Timeout + PurgeInterval
  <2>1. \A id \in DOMAIN e.sessions : e.sessions[id].idle \in 0..MaxIdle /\ e.sessions[id].idle <= Timeout + e.at
    BY <1>1, <1>4, <1>6
  <2> QED BY <1>1, <1>4, <1>6, <2>1 DEF IdleOK
<1>7. CASE c.cookie \in DOMAIN ss /\ e.sessions = [ss EXCEPT ![c.cookie].idle = 0] /\ e.at = PurgeExpired.at
  <2>1. \A id \in DOMAIN ss : ss[id] \in SessionRecord
    BY <1>3 DEF GoodStore
  <2>2. \A id \in DOMAIN e.sessions : e.sessions[id].idle = 0 \/ (id \in DOMAIN ss /\ e.sessions[id].idle = ss[id].idle)
    <3>1. DOMAIN e.sessions = DOMAIN ss
      BY <1>7
    <3>2. e.sessions[c.cookie] = [ss[c.cookie] EXCEPT !.idle = 0] /\ ss[c.cookie] \in SessionRecord
      BY <1>7, <2>1
    <3>3. e.sessions[c.cookie].idle = 0
      BY <3>2 DEF SessionRecord
    <3>4. \A id \in DOMAIN ss : id # c.cookie => e.sessions[id] = ss[id]
      BY <1>7
    <3> QED BY <3>1, <3>3, <3>4
  <2> QED BY <1>6, <1>7, <2>2
<1>8. CASE /\ DOMAIN e.sessions = (DOMAIN ss \ {c.cookie}) \cup {e.id}
           /\ \A id \in DOMAIN e.sessions : e.sessions[id] = IF id = e.id THEN Fresh ELSE ss[id]
           /\ e.at = PurgeExpired.at
  <2>1. Fresh.idle = 0
    BY DEF Fresh
  <2>2. \A id \in DOMAIN e.sessions : e.sessions[id].idle = 0 \/ (id \in DOMAIN ss /\ e.sessions[id].idle = ss[id].idle)
    BY <1>8, <2>1
  <2> QED BY <1>6, <1>8, <2>2
<1> QED BY <1>2, <1>5, <1>7, <1>8, EnsureCases

\* Only a new session enters the store, and it has the session of the request
\* unless that request raised, and went on with a session destroyed meanwhile.
LEMMA EnsureKnown ==
  ASSUME Good, NEW r \in Requests, Calls(r), NEW e, e = EnsureSession(r), e.id \in Ids \cup {Forged}
  PROVE  /\ DOMAIN e.sessions \subseteq DOMAIN sessions \cup {created + 1}
         /\ e.id \in DOMAIN e.sessions \/ (ctx[r].reset /\ e.id = ctx[r].session /\ e.id # None)
<1> DEFINE c == ctx[r]  ss == PurgeExpired.kept
<1>1. c = ctx[r] /\ ss = PurgeExpired.kept /\ DOMAIN ss \subseteq DOMAIN sessions
  BY PurgeBounds
<1>2. ~c.reset => (c.session # None => c.session \in DOMAIN sessions)
  <2>1. ctx[r] # None /\ Handles(r)
    BY StageKnown, NoContextAssumption DEF Good, Calls, Handles
  <2> QED BY <2>1 DEF Good, KInv, AnswersGood, AnswerGood, Settles
<1> HIDE DEF c, ss
<1>3. CASE c.session # None /\ e.id = c.session /\ e.sessions = sessions
  BY <1>1, <1>2, <1>3, StageKnown DEF Good, Contexts, Calls, Handles
<1>4. CASE c.cookie \in DOMAIN ss /\ e.id = c.cookie /\ e.sessions = [ss EXCEPT ![c.cookie].idle = 0]
  BY <1>1, <1>4
<1>5. CASE e.id = created + 1 /\ DOMAIN e.sessions = (DOMAIN ss \ {c.cookie}) \cup {e.id}
  BY <1>1, <1>5
<1> QED BY <1>1, <1>3, <1>4, <1>5, EnsureCases

\* The request's answer names the session, which is in the store, and no
\* cookie is set as long as the one that the client sent is good.
LEMMA EnsureNames ==
  ASSUME Good, NEW r \in Requests, Calls(r), NEW e, e = EnsureSession(r), e.id \in Ids \cup {Forged},
         ~ctx[r].reset
  PROVE  /\ e.id # None /\ e.id \in DOMAIN e.sessions
         /\ e.id = IF e.headers = <<>> THEN ctx[r].cookie ELSE e.headers[Len(e.headers)]
         /\ e.headers # <<>> => ctx[r].cookie \notin DOMAIN e.sessions /\ e.id # ctx[r].cookie
<1> DEFINE c == ctx[r]  ss == PurgeExpired.kept
<1>1. c = ctx[r] /\ ss = PurgeExpired.kept /\ DOMAIN ss \subseteq DOMAIN sessions
  BY PurgeBounds
<1>2. Settles(c) /\ c.headers \in Seq(Ids \cup {Expire})
  <2>1. ctx[r] # None /\ Handles(r) /\ ctx[r] \in Contexts
    BY StageKnown, NoContextAssumption DEF Good, Calls, Handles
  <2> QED BY <2>1 DEF Good, KInv, AnswersGood, AnswerGood, Contexts
<1>3. e.id # None
  BY NoneAssumption DEF Ids, Forged
<1> HIDE DEF c, ss
<1>4. CASE c.session # None /\ e.id = c.session /\ e.sessions = sessions /\ e.headers = c.headers
  BY <1>1, <1>2, <1>3, <1>4 DEF Settles, Named
<1>5. CASE c.session = None /\ c.cookie \in DOMAIN ss /\ e.id = c.cookie /\ e.sessions = [ss EXCEPT ![c.cookie].idle = 0] /\ e.headers = c.headers
  <2>1. c.headers = <<>>
    BY <1>1, <1>2, <1>5 DEF Settles
  <2> QED BY <1>1, <1>3, <1>5, <2>1
<1>6. CASE /\ e.id \in Ids /\ c.cookie # e.id
           /\ DOMAIN e.sessions = (DOMAIN ss \ {c.cookie}) \cup {e.id}
           /\ e.headers = Append(c.headers, e.id)
  <2>1. e.headers # <<>> /\ e.headers[Len(e.headers)] = e.id
    BY <1>2, <1>6
  <2> QED BY <1>1, <1>3, <1>6, <2>1
<1> QED BY <1>1, <1>4, <1>5, <1>6, EnsureCases

\* session, get, has, set and remove, as far as the store and the answer tell
\* them apart: they keep the sessions that ensure_session leaves, and set
\* puts its own back if it is gone.
LEMMA SessionCalls ==
  ASSUME Good, NEW r \in Requests, Look(r) \/ SetValue(r) \/ RemoveValue(r),
         NEW e, e = EnsureSession(r)
  PROVE  /\ Calls(r) /\ e.id \in Ids \cup {Forged}
         /\ ctx'[r].session = e.id /\ ctx'[r].headers = e.headers
         /\ ctx'[r].cookie = ctx[r].cookie /\ ctx'[r].reset = ctx[r].reset
         /\ purged' = e.at
         /\ created' = IF e.id = created + 1 THEN e.id ELSE created
         /\ ghost'.destroyed = ghost.destroyed
         /\ UNCHANGED <<pc, lock>>
         /\ DOMAIN e.sessions \subseteq DOMAIN sessions' /\ DOMAIN sessions' \subseteq DOMAIN e.sessions \cup {e.id}
         /\ \A id \in DOMAIN sessions' :
              sessions'[id].idle = IF id \in DOMAIN e.sessions THEN e.sessions[id].idle ELSE 0
<1> DEFINE o == IF e.id = created + 1 THEN Append(ghost.owner, ctx[r].client) ELSE ghost.owner
<1>1. PICK ss : OnSession(r, e, ss)
  BY DEF Look, SetValue, RemoveValue
<1>2. /\ Calls(r) /\ e.id \in Ids \cup {Forged}
      /\ ctx' = [ctx EXCEPT ![r].session = e.id, ![r].headers = e.headers, ![r].ops = @ + 1]
      /\ purged' = e.at
      /\ created' = IF e.id = created + 1 THEN e.id ELSE created
      /\ UNCHANGED <<pc, lock>>
      /\ ghost' = IF e.id = created + 1 THEN [ghost EXCEPT !.owner = Append(@, ctx[r].client)] ELSE ghost
  BY <1>1 DEF OnSession
<1>3. ghost'.destroyed = ghost.destroyed
  BY <1>2 DEF Good, IInv, Types
<1>4. /\ ctx'[r].session = e.id /\ ctx'[r].headers = e.headers
      /\ ctx'[r].cookie = ctx[r].cookie /\ ctx'[r].reset = ctx[r].reset
  <2>1. ctx[r] \in Contexts /\ ctx \in [Requests -> Contexts \cup {None}]
    BY <1>2, StageKnown DEF Good, Calls, Handles, IInv, ContextsGood
  <2>2. ctx'[r] = [ctx[r] EXCEPT !.session = e.id, !.headers = e.headers, !.ops = @ + 1]
    BY <1>2, <2>1
  <2> QED BY <2>1, <2>2 DEF Contexts
<1>5. GoodStore(e.sessions, o)
  BY <1>2, EnsureGood DEF Good
<1>6. \A id \in DOMAIN e.sessions : e.sessions[id] \in SessionRecord
  BY <1>5 DEF GoodStore
<1> HIDE DEF o
<1>7. CASE Look(r)
  <2>1. sessions' = e.sessions
    BY <1>7 DEF Look, OnSession
  <2> QED BY <1>2, <1>3, <1>4, <2>1
<1>8. CASE SetValue(r)
  <2> DEFINE cl == ctx[r].client
             s == IF e.id \in DOMAIN e.sessions THEN [e.sessions[e.id] EXCEPT !.data = @ \cup {cl}]
                  ELSE [Fresh EXCEPT !.data = {cl}]
  <2>1. sessions' = With(e.sessions, e.id, s)
    BY <1>8 DEF SetValue, OnSession
  <2>2. s.idle = IF e.id \in DOMAIN e.sessions THEN e.sessions[e.id].idle ELSE 0
    BY <1>6 DEF SessionRecord, Fresh
  <2> HIDE DEF s
  <2> QED BY <1>2, <1>3, <1>4, <2>1, <2>2 DEF With
<1>9. CASE RemoveValue(r)
  <2>1. sessions' = [i \in DOMAIN e.sessions |-> IF i = e.id THEN [e.sessions[i] EXCEPT !.data = {}] ELSE e.sessions[i]]
    BY <1>9 DEF RemoveValue, OnSession
  <2>2. \A i \in DOMAIN e.sessions : [e.sessions[i] EXCEPT !.data = {}].idle = e.sessions[i].idle
    BY <1>6 DEF SessionRecord
  <2>3. DOMAIN sessions' = DOMAIN e.sessions /\ \A i \in DOMAIN sessions' : sessions'[i].idle = e.sessions[i].idle
    BY <2>1, <2>2
  <2> QED BY <1>2, <1>3, <1>4, <2>3
<1> QED BY <1>7, <1>8, <1>9

-----------------------------------------------------------------------------
(* How long sessions are kept                                               *)

LEMMA IdleSteps == ASSUME Good, [Next]_vars PROVE IdleBounded'
<1>1. IdleOK(sessions, purged) /\ Timeout \in Nat /\ PurgeInterval \in Nat /\ MaxIdle \in Nat
  BY BoundsAssumption DEF Good, KInv, IdleBounded, MaxIdle
<1>2. CASE UNCHANGED <<sessions, purged>>
  BY <1>1, <1>2 DEF IdleBounded
<1>3. CASE Tick
  <2>1. GoodStore(sessions, ghost.owner)
    BY DEF Good, IInv, StoreGood
  <2>2. \A id \in DOMAIN sessions : sessions[id] \in SessionRecord
    BY <2>1 DEF GoodStore
  <2>3. /\ DOMAIN sessions' = DOMAIN sessions
        /\ \A id \in DOMAIN sessions :
             sessions'[id].idle = IF sessions[id].idle < MaxIdle THEN sessions[id].idle + 1 ELSE sessions[id].idle
    BY <1>3, <2>2 DEF Tick, SessionRecord
  <2>4. purged' = IF purged < PurgeInterval THEN purged + 1 ELSE purged
    BY <1>3 DEF Tick
  <2> QED BY <1>1, <2>3, <2>4 DEF IdleBounded, IdleOK
<1>4. ASSUME NEW r \in Requests, Look(r) \/ SetValue(r) \/ RemoveValue(r) PROVE IdleBounded'
  <2>1. PICK e : e = EnsureSession(r)
    OBVIOUS
  <2>2. /\ Calls(r) /\ e.id \in Ids \cup {Forged} /\ purged' = e.at
        /\ \A id \in DOMAIN sessions' :
             sessions'[id].idle = IF id \in DOMAIN e.sessions THEN e.sessions[id].idle ELSE 0
    BY <1>4, <2>1, SessionCalls
  <2>3. IdleOK(e.sessions, e.at)
    BY <2>1, <2>2, EnsureIdle
  <2> QED BY <1>1, <2>2, <2>3 DEF IdleBounded, IdleOK
<1>5. ASSUME NEW r \in Requests, Destroy(r) PROVE IdleBounded'
  BY <1>1, <1>5 DEF Destroy, Without, IdleBounded, IdleOK
<1> QED
  BY <1>2, <1>3, <1>4, <1>5
  DEF Next, vars, store, Work, Recv, Refuse, Send, Advance, Receive, Enter, Return, Reply, Raise, Method, GetGlobal, SetGlobal

LEMMA DestroyedSteps == ASSUME Good, [Next]_vars PROVE DestroyedKnown'
<1>1. ghost.destroyed \subseteq 1..created /\ created \in Nat
  BY BoundsAssumption DEF Good, KInv, DestroyedKnown, IInv, Types
<1>2. CASE UNCHANGED <<created, ghost>>
  BY <1>1, <1>2 DEF DestroyedKnown
<1>3. ASSUME NEW r \in Requests, Look(r) \/ SetValue(r) \/ RemoveValue(r) PROVE DestroyedKnown'
  <2>1. PICK e : e = EnsureSession(r)
    OBVIOUS
  <2>2. created' = (IF e.id = created + 1 THEN e.id ELSE created) /\ ghost'.destroyed = ghost.destroyed
    BY <1>3, <2>1, SessionCalls
  <2> QED BY <1>1, <2>2 DEF DestroyedKnown
<1>4. ASSUME NEW r \in Requests, Destroy(r) PROVE DestroyedKnown'
  <2>1. PICK id : ghost' = [ghost EXCEPT !.destroyed = @ \cup ({id} \cap 1..created)]
    BY <1>4 DEF Destroy
  <2>2. created' = created /\ ghost'.destroyed = ghost.destroyed \cup ({id} \cap 1..created)
    BY <1>4, <2>1 DEF Destroy, Good, IInv, Types
  <2> QED BY <1>1, <2>2 DEF DestroyedKnown
<1>5. ASSUME NEW r \in Requests, SetGlobal(r) PROVE DestroyedKnown'
  BY <1>1, <1>5 DEF SetGlobal, DestroyedKnown, Good, IInv, Types
<1> QED
  BY <1>2, <1>3, <1>4, <1>5
  DEF Next, vars, store, Work, Recv, Refuse, Send, Advance, Receive, Enter, Return, Reply, Raise, Method, GetGlobal, Tick

\* Any step of a request changes no other's context, and if other requests
\* handle, it keeps the sessions that are known.
LEMMA OthersAnswer ==
  ASSUME Good, NEW r \in Requests,
         \A q \in Requests : q # r => pc'[q] = pc[q] /\ ctx'[q] = ctx[q],
         Handles(r) \/ DOMAIN sessions' = DOMAIN sessions,
         AnswerGood(r)'
  PROVE  AnswersGood'
<1>1. ASSUME NEW q \in Requests, q # r PROVE AnswerGood(q)'
  <2>1. AnswerGood(q)
    BY DEF Good, KInv, AnswersGood
  <2>2. Handles(q) => ~Handles(r)
    BY <1>1 DEF Good, IInv, LockExact
  <2> QED BY <1>1, <2>1, <2>2 DEF AnswerGood, Handles, Settles, Named, Untouched
<1> QED BY <1>1 DEF AnswersGood

\* Before its handler, a request has touched nothing.
LEMMA QuietAnswers ==
  ASSUME Good, NEW r \in Requests, Send(r) \/ Receive(r) \/ Enter(r) \/ Return(r) \/ Raise(r) \/ Reply(r)
  PROVE  AnswersGood'
<1> USE DEF Go, store, net
<1>1. pc \in [Requests -> Stages] /\ ctx \in [Requests -> Contexts \cup {None}]
  BY DEF Good, IInv, Types, ContextsGood
<1>2. AnswerGood(r)
  BY DEF Good, KInv, AnswersGood
<1>3. CASE Send(r)
  <2>1. PICK s, cookie : ctx' = [ctx EXCEPT ![r] = NewContext(s, cookie)]
    BY <1>3 DEF Send
  <2>2. pc'[r] = "queued" /\ Untouched(ctx'[r])
    BY <1>1, <1>3, <2>1 DEF Send, NewContext, Untouched
  <2>3. AnswerGood(r)'
    BY <2>2 DEF AnswerGood, Handles, Untouched
  <2> QED BY <1>1, <1>3, <2>1, <2>3, OthersAnswer DEF Send
<1>4. CASE Receive(r)
  <2>1. PICK t \in {"route", "error", "reply"} : pc' = [pc EXCEPT ![r] = t]
    BY <1>4 DEF Receive
  <2>2. AnswerGood(r)'
    BY <1>1, <1>2, <1>4, <2>1 DEF Receive, AnswerGood, Handles, Untouched, Named
  <2> QED BY <1>1, <1>4, <2>1, <2>2, OthersAnswer DEF Receive
<1>5. CASE Enter(r)
  <2>1. AnswerGood(r)'
    BY <1>1, <1>2, <1>5 DEF Enter, AnswerGood, Handles, Untouched, Settles, Named
  <2> QED BY <1>1, <1>5, <2>1, OthersAnswer DEF Enter
<1>6. CASE Return(r)
  <2>1. AnswerGood(r)'
    BY <1>1, <1>2, <1>6 DEF Return, AnswerGood, Handles, Settles, Named
  <2> QED BY <1>1, <1>6, <2>1, OthersAnswer DEF Return
<1>7. CASE Raise(r)
  <2>1. ctx[r] \in Contexts
    BY <1>7, StageKnown DEF Raise, Handles, Good
  <2>2. ctx'[r].reset
    BY <1>1, <1>7, <2>1 DEF Raise, Contexts
  <2>3. AnswerGood(r)'
    BY <2>2 DEF AnswerGood
  <2> QED BY <1>1, <1>7, <2>3, OthersAnswer DEF Raise
<1>8. CASE Reply(r)
  <2>1. AnswerGood(r)'
    BY <1>1, <1>8 DEF Reply, AnswerGood
  <2> QED BY <1>1, <1>8, <2>1, OthersAnswer DEF Reply
<1> QED BY <1>3, <1>4, <1>5, <1>6, <1>7, <1>8

LEMMA MethodAnswers == ASSUME Good, NEW r \in Requests, Method(r) PROVE AnswersGood'
<1> DEFINE c == ctx[r]
<1>1. Handles(r) /\ UNCHANGED pc
  BY DEF Method, Look, SetValue, RemoveValue, OnSession, Destroy, GetGlobal, SetGlobal, Calls
<1>2. c \in Contexts /\ c # None /\ ctx \in [Requests -> Contexts \cup {None}]
  BY <1>1, StageKnown, NoContextAssumption DEF Good, Handles, IInv, ContextsGood
<1>3. ~c.reset => Settles(c)
  BY <1>1, <1>2 DEF Good, KInv, AnswersGood, AnswerGood
<1>4. SUFFICES ASSUME ~ctx'[r].reset PROVE Settles(ctx[r])'
  <2>1. \A q \in Requests : q # r => pc'[q] = pc[q] /\ ctx'[q] = ctx[q]
    BY <1>1, <1>2 DEF Method, Look, SetValue, RemoveValue, OnSession, Destroy, GetGlobal, SetGlobal
  <2>2. (~ctx'[r].reset => Settles(ctx[r])') => AnswerGood(r)'
    BY <1>1 DEF AnswerGood, Handles
  <2> QED BY <1>1, <2>1, <2>2, OthersAnswer
<1>5. CASE Look(r) \/ SetValue(r) \/ RemoveValue(r)
  <2>1. PICK e : e = EnsureSession(r)
    OBVIOUS
  <2>2. /\ Calls(r) /\ e.id \in Ids \cup {Forged}
        /\ ctx'[r].session = e.id /\ ctx'[r].headers = e.headers
        /\ ctx'[r].cookie = c.cookie /\ ctx'[r].reset = c.reset
        /\ DOMAIN e.sessions \subseteq DOMAIN sessions' /\ DOMAIN sessions' \subseteq DOMAIN e.sessions \cup {e.id}
    BY <1>5, <2>1, SessionCalls
  <2>3. /\ e.id # None /\ e.id \in DOMAIN e.sessions
        /\ e.id = IF e.headers = <<>> THEN ctx[r].cookie ELSE e.headers[Len(e.headers)]
        /\ e.headers # <<>> => ctx[r].cookie \notin DOMAIN e.sessions /\ e.id # ctx[r].cookie
    BY <1>4, <2>1, <2>2, EnsureNames
  <2> QED BY <2>2, <2>3 DEF Settles, Named
<1>6. CASE Destroy(r)
  <2> DEFINE id == IF c.session # None THEN c.session ELSE c.cookie
  <2>1. sessions' = Without({id}) /\ ctx' = [ctx EXCEPT ![r].session = None, ![r].headers = Append(@, Expire), ![r].ops = @ + 1]
    BY <1>6 DEF Destroy
  <2>2. ctx'[r] = [c EXCEPT !.session = None, !.headers = Append(@, Expire), !.ops = @ + 1]
    BY <1>2, <2>1
  <2>3. ctx'[r].session = None /\ ctx'[r].headers = Append(c.headers, Expire) /\ ctx'[r].cookie = c.cookie /\ ctx'[r].reset = c.reset
    BY <1>2, <2>2 DEF Contexts
  <2>4. c.headers \in Seq(Ids \cup {Expire})
    BY <1>2 DEF Contexts
  <2>5. ctx'[r].headers[Len(ctx'[r].headers)] = Expire /\ ctx'[r].headers # <<>>
    BY <2>3, <2>4
  <2>6. DOMAIN sessions' = DOMAIN sessions \ {id}
    BY <2>1 DEF Without
  <2>7. c.cookie \notin DOMAIN sessions'
    BY <1>3, <1>4, <2>3, <2>6 DEF Settles, Named
  <2> QED BY <2>3, <2>5, <2>7 DEF Settles, Named
<1>7. CASE GetGlobal(r)
  <2>1. sessions' = sessions /\ ctx'[r] = [c EXCEPT !.seen = hits, !.ops = @ + 1]
    BY <1>2, <1>7 DEF GetGlobal, store
  <2>2. ctx'[r].session = c.session /\ ctx'[r].headers = c.headers /\ ctx'[r].cookie = c.cookie /\ ctx'[r].reset = c.reset
    BY <1>2, <2>1 DEF Contexts
  <2> QED BY <1>3, <1>4, <2>1, <2>2 DEF Settles, Named
<1>8. CASE SetGlobal(r)
  <2>1. sessions' = sessions /\ ctx'[r] = [c EXCEPT !.seen = None]
    BY <1>2, <1>8 DEF SetGlobal
  <2>2. ctx'[r].session = c.session /\ ctx'[r].headers = c.headers /\ ctx'[r].cookie = c.cookie /\ ctx'[r].reset = c.reset
    BY <1>2, <2>1 DEF Contexts
  <2> QED BY <1>3, <1>4, <2>1, <2>2 DEF Settles, Named
<1> QED BY <1>5, <1>6, <1>7, <1>8 DEF Method

LEMMA AnswerSteps == ASSUME Good, [Next]_vars PROVE AnswersGood'
<1>1. CASE Tick
  <2>1. DOMAIN sessions' = DOMAIN sessions /\ UNCHANGED <<pc, ctx>>
    BY <1>1 DEF Tick
  <2> QED BY <2>1 DEF Good, KInv, AnswersGood, AnswerGood, Handles, Settles, Named, Untouched
<1>2. CASE UNCHANGED vars
  BY <1>2 DEF vars, Good, KInv, AnswersGood, AnswerGood, Handles, Settles, Named, Untouched
<1>3. ASSUME NEW s \in Servers, Work(s) PROVE AnswersGood'
  <2>1. PICK w \in WorkersOf[s], r \in Requests : Recv(s, w, r) \/ Refuse(w, r)
    BY <1>3 DEF Work
  <2>2. pc \in [Requests -> Stages] /\ ctx \in [Requests -> Contexts \cup {None}]
    BY DEF Good, IInv, Types, ContextsGood
  <2>3. AnswerGood(r)
    BY DEF Good, KInv, AnswersGood
  <2>4. \A q \in Requests : q # r => pc'[q] = pc[q] /\ ctx'[q] = ctx[q]
    BY <2>1, <2>2 DEF Recv, Refuse, Go
  <2>5. DOMAIN sessions' = DOMAIN sessions
    BY <2>1 DEF Recv, Refuse, store
  <2>6. AnswerGood(r)'
    <3>1. CASE Recv(s, w, r)
      <4>1. pc[r] = "queued" /\ pc'[r] \in {"busy", "body"} /\ ctx' = ctx
        BY <2>2, <3>1 DEF Recv, Go
      <4> QED BY <2>3, <4>1 DEF AnswerGood, Handles, Untouched
    <3>2. CASE Refuse(w, r)
      BY <2>2, <3>2 DEF Refuse, AnswerGood
    <3> QED BY <2>1, <3>1, <3>2
  <2> QED BY <2>4, <2>5, <2>6, OthersAnswer
<1>4. ASSUME NEW r \in Requests, Send(r) \/ Advance(r) \/ Raise(r) \/ Method(r) PROVE AnswersGood'
  BY <1>4, QuietAnswers, MethodAnswers DEF Advance
<1> QED BY <1>1, <1>2, <1>3, <1>4 DEF Next

LEMMA InitKept == Init => KInv
<1> SUFFICES ASSUME Init PROVE KInv
  OBVIOUS
<1> USE NetAssumption, BoundsAssumption DEF Init
<1>1. NetGood
  <2>1. \A s : Long(s) = {} /\ Received(s) = {}
    BY DEF Long, Received
  <2>2. /\ serving \in [Workers -> Requests \cup {None}] /\ receiving \in [Servers -> Nat]
        /\ \A r \in Requests : pc[r] # "busy"
    OBVIOUS
  <2>3. IsFiniteSet({}) /\ Cardinality({}) = 0 /\ 0 <= MaxReceiving
    BY FS_EmptySet
  <2>4. \A s \in Servers : receiving[s] = 0
    OBVIOUS
  <2> QED BY <2>1, <2>2, <2>3, <2>4 DEF NetGood
<1>2. IdleBounded
  BY DEF IdleBounded, IdleOK, MaxIdle
<1>3. DestroyedKnown /\ AnswersGood
  BY DEF DestroyedKnown, AnswersGood, AnswerGood
<1> QED BY <1>1, <1>2, <1>3 DEF KInv

LEMMA GoodAlways == Spec => []Good
<1>1. Init => Good
  BY InitGood, InitKept DEF Good
<1>2. Good /\ [Next]_vars => Good'
  <2> SUFFICES ASSUME Good, [Next]_vars PROVE Good'
    OBVIOUS
  <2>1. IInv'
    BY NextGood DEF Good
  <2> QED BY <2>1, NetSteps, IdleSteps, DestroyedSteps, AnswerSteps DEF Good, KInv
<1> QED BY <1>1, <1>2, PTL DEF Spec

\* The server forgets no request and no place for a long body: `receiving`
\* counts the bodies that are read and the refusals under way, however a
\* request ends (dispatch_request and the ends of its two threads), and the
\* bodies that are read are at most MAX_RECEIVING_BODIES.
THEOREM PlacesExact == Spec => []ServerExact
<1>1. ASSUME Good PROVE ServerExact
  <2>1. ReceivingExact
    <3>1. \A s \in Servers : receiving[s] = Cardinality(Long(s)) /\ Cardinality(Received(s)) <= MaxReceiving
      BY <1>1 DEF Good, KInv, NetGood
    <3> QED BY <3>1 DEF ReceivingExact, Long, Received
  <2>2. /\ created \in 0..MaxIds /\ created = Len(ghost.owner) /\ ghost.owner \in Seq(Clients)
        /\ GoodStore(sessions, ghost.owner) /\ MaxIds \in Nat
    BY <1>1, BoundsAssumption DEF Good, IInv, Types, StoreGood
  <2>3. DOMAIN sessions \subseteq Ids
    BY <2>2 DEF GoodStore, Ids
  <2>4. \A id \in DOMAIN sessions : sessions[id].data \subseteq Clients
    BY <2>2 DEF GoodStore, SessionRecord
  <2>5. \A id \in DOMAIN sessions : sessions[id].idle \in 0..MaxIdle
    BY <1>1 DEF Good, KInv, IdleBounded, IdleOK
  <2>6. ghost.owner \in [1..created -> Clients] /\ ghost.destroyed \subseteq Ids /\ ghost.increments \in Nat
    BY <1>1, <2>2 DEF Good, KInv, DestroyedKnown, IInv, Types, Ids
  <2>7. TypeOK
    BY <1>1, <2>3, <2>4, <2>5, <2>6 DEF Good, KInv, IInv, Types, ContextsGood, NetGood, IdleBounded, IdleOK, TypeOK
  <2> QED BY <2>1, <2>7 DEF ServerExact
<1> QED BY <1>1, GoodAlways, PTL

\* A handler that did not raise leaves the client with the cookie of the
\* session that the request ended with (ensure_session and destroy, whose
\* Set-Cookie headers add up, and the client obeys the last).
THEOREM CookieNamesSession == Spec => []AnswerNamesSession
<1>1. ASSUME Good PROVE AnswerNamesSession
  <2> SUFFICES ASSUME NEW r \in Requests, pc[r] = "reply", ~ctx[r].reset
               PROVE  LET c == ctx[r]  held == IF c.headers = <<>> THEN c.cookie ELSE Last(c.headers) IN
                      IF c.session # None THEN held = c.session ELSE c.headers # <<>> => held = Expire
    BY DEF AnswerNamesSession
  <2>1. ctx[r] # None
    BY <1>1, StageKnown, NoContextAssumption DEF Good
  <2>2. Named(ctx[r])
    BY <1>1, <2>1 DEF Good, KInv, AnswersGood, AnswerGood
  <2> QED BY <2>2 DEF Named, Last
<1> QED BY <1>1, GoodAlways, PTL

\* A destroyed session comes back only through a request whose handler had
\* raised with the session open; and whoever opens a session leaves none in
\* the store that was idle beyond the time-out and a purge interval.
THEOREM StoreStaysKept == Spec => StoreKept
<1> DEFINE Revives == \A id \in ghost.destroyed : id \in DOMAIN sessions' \ DOMAIN sessions =>
                        \E r \in Requests : ctx[r] # None /\ ctx[r].reset /\ ctx[r].session = id
           Bounded == \A r \in Requests : Opens(r) =>
                        \A id \in DOMAIN sessions' : sessions'[id].idle <= Timeout + PurgeInterval
<1>1. ASSUME Good, NEW r \in Requests, Look(r) \/ SetValue(r) \/ RemoveValue(r) PROVE Revives /\ Bounded
  <2>1. PICK e : e = EnsureSession(r)
    OBVIOUS
  <2>2. /\ Calls(r) /\ e.id \in Ids \cup {Forged}
        /\ DOMAIN sessions' \subseteq DOMAIN e.sessions \cup {e.id}
        /\ \A id \in DOMAIN sessions' : sessions'[id].idle = IF id \in DOMAIN e.sessions THEN e.sessions[id].idle ELSE 0
    BY <1>1, <2>1, SessionCalls
  <2>3. ctx \in [Requests -> Contexts \cup {None}] /\ ctx[r] # None /\ created \in Nat /\ Timeout + PurgeInterval \in Nat
    BY <1>1, <2>2, StageKnown, NoContextAssumption, BoundsAssumption DEF Good, IInv, Types, ContextsGood, Calls, Handles
  <2>4. Revives
    <3>1. ghost.destroyed \subseteq 1..created
      BY <1>1 DEF Good, KInv, DestroyedKnown
    <3>2. /\ DOMAIN e.sessions \subseteq DOMAIN sessions \cup {created + 1}
          /\ e.id \in DOMAIN e.sessions \/ (ctx[r].reset /\ e.id = ctx[r].session)
      BY <1>1, <2>1, <2>2, EnsureKnown
    <3> QED BY <2>2, <2>3, <3>1, <3>2
  <2>5. Bounded
    <3> SUFFICES ASSUME NEW q \in Requests, Opens(q), NEW id \in DOMAIN sessions'
                 PROVE  sessions'[id].idle <= Timeout + PurgeInterval
      OBVIOUS
    <3>1. \A p \in Requests : p # r => ctx'[p] = ctx[p]
      BY <1>1, <2>3 DEF Look, SetValue, RemoveValue, OnSession
    <3>2. ctx[r].session = None
      BY <3>1 DEF Opens
    <3>3. \A i \in DOMAIN e.sessions : e.sessions[i].idle <= Timeout + PurgeInterval
      BY <1>1, <2>1, <2>2, <3>2, EnsureIdle
    <3> QED BY <2>2, <2>3, <3>3
  <2> QED BY <2>4, <2>5
<1>2. ASSUME Good, [Next]_vars, \A r \in Requests : ~(Look(r) \/ SetValue(r) \/ RemoveValue(r)) PROVE Revives /\ Bounded
  <2>1. DOMAIN sessions' \subseteq DOMAIN sessions
    <3>1. CASE UNCHANGED sessions
      BY <3>1
    <3>2. CASE Tick
      BY <3>2 DEF Tick
    <3>3. ASSUME NEW r \in Requests, Destroy(r) PROVE DOMAIN sessions' \subseteq DOMAIN sessions
      BY <3>3 DEF Destroy, Without
    <3>4. ASSUME NEW s \in Servers, Work(s) PROVE UNCHANGED sessions
      BY <3>4 DEF Work, Recv, Refuse, store
    <3>5. ASSUME NEW r \in Requests, Send(r) \/ Advance(r) \/ Raise(r) PROVE UNCHANGED sessions
      BY <3>5 DEF Send, Advance, Receive, Enter, Return, Reply, Raise, store
    <3>6. ASSUME NEW r \in Requests, Method(r) PROVE Destroy(r) \/ UNCHANGED sessions
      BY <1>2, <3>6 DEF Method, GetGlobal, SetGlobal, store
    <3> QED BY <1>2, <3>1, <3>2, <3>3, <3>4, <3>5, <3>6 DEF Next, vars
  <2>2. ASSUME NEW q \in Requests PROVE ~Opens(q)
    <3>1. ctx \in [Requests -> Contexts \cup {None}] /\ \A r \in Requests : Handles(r) => ctx[r] \in Contexts
      BY <1>2, StageKnown DEF Good, IInv, ContextsGood, Handles
    <3>2. CASE ctx' = ctx
      BY <3>2 DEF Opens
    <3>3. ASSUME NEW r \in Requests, ctx' = [ctx EXCEPT ![r] = None] PROVE ~Opens(q)
      BY <3>1, <3>3 DEF Opens
    <3>4. ASSUME NEW r \in Requests, Send(r) PROVE ~Opens(q)
      BY <1>2, <3>1, <3>4 DEF Send, Opens, Good, IInv, ContextsGood
    <3>5. ASSUME NEW r \in Requests, Raise(r) PROVE ~Opens(q)
      <4>1. ctx'[r] = [ctx[r] EXCEPT !.headers = <<>>, !.seen = None, !.reset = TRUE] /\ \A p \in Requests : p # r => ctx'[p] = ctx[p]
        BY <3>1, <3>5 DEF Raise
      <4> QED BY <3>1, <3>5, <4>1 DEF Raise, Opens, Contexts
    <3>6. ASSUME NEW r \in Requests, Destroy(r) PROVE ~Opens(q)
      <4>1. ctx'[r] = [ctx[r] EXCEPT !.session = None, !.headers = Append(@, Expire), !.ops = @ + 1] /\ \A p \in Requests : p # r => ctx'[p] = ctx[p]
        BY <3>1, <3>6 DEF Destroy
      <4> QED BY <3>1, <3>6, <4>1 DEF Destroy, Calls, Opens, Contexts
    <3>7. ASSUME NEW r \in Requests, GetGlobal(r) PROVE ~Opens(q)
      <4>1. ctx'[r] = [ctx[r] EXCEPT !.seen = hits, !.ops = @ + 1] /\ \A p \in Requests : p # r => ctx'[p] = ctx[p]
        BY <3>1, <3>7 DEF GetGlobal
      <4> QED BY <3>1, <3>7, <4>1 DEF GetGlobal, Calls, Opens, Contexts
    <3>8. ASSUME NEW r \in Requests, SetGlobal(r) PROVE ~Opens(q)
      <4>1. ctx'[r] = [ctx[r] EXCEPT !.seen = None] /\ \A p \in Requests : p # r => ctx'[p] = ctx[p]
        BY <3>1, <3>8 DEF SetGlobal
      <4> QED BY <3>1, <3>8, <4>1 DEF SetGlobal, Opens, Contexts
    <3> QED BY <1>2, <3>2, <3>3, <3>4, <3>5, <3>6, <3>7, <3>8
            DEF Next, vars, Work, Recv, Refuse, Advance, Receive, Enter, Return, Reply, Method, Tick
  <2> QED BY <2>1, <2>2
<1>3. ASSUME Good, [Next]_vars PROVE Revives /\ Bounded
  BY <1>1, <1>2, <1>3
<1>4. Spec => [][Revives]_vars /\ [][Bounded]_vars
  BY <1>3, GoodAlways, PTL DEF Spec
<1> QED BY <1>4 DEF StoreKept, OnlyFailedRevive, StoreBounded
=============================================================================
