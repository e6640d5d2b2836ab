----------------------------- MODULE HttpServer -----------------------------
(***************************************************************************)
(* HTTPServer and HTTPServerSession (runtime/src/httpserver.rs and         *)
(* httpsession.rs): workers and the threads that receive long bodies, the  *)
(* lock under which handlers run, the answer of one request, and the store *)
(* of sessions that all servers of the process share.                      *)
(*                                                                         *)
(* A request whose handler raises takes HANDLER_LOCK a second time, for    *)
(* its error page: other requests run in between, on the same sessions.    *)
(***************************************************************************)
EXTENDS Integers, Sequences, FiniteSets, SequencesExt

CONSTANTS
  Requests, Clients, Servers,
  Workers,       \* threads of HTTPServer_run
  WorkersOf,     \* the workers of a server
  Sends,         \* the ways a request may be sent: [client, server, long, forged]
  Known,         \* the clients that have a session at the start, as a sequence
  ErrorPages,    \* codes with a routeError handler
  None,
  MaxReceiving,  \* MAX_RECEIVING_BODIES (256 in the code)
  Timeout,       \* sessionTimeout, in ticks
  PurgeInterval, \* PURGE_INTERVAL (60 s), in the same ticks
  MaxIds,        \* bound: sessions created
  MaxOps         \* bound: calls of the handlers of one request

ASSUME NetAssumption ==
  /\ WorkersOf \in [Servers -> SUBSET Workers] /\ Sends \in [Requests -> SUBSET [client : Clients, server : Servers, long : BOOLEAN, forged : BOOLEAN]]
  /\ Known \in Seq(Clients) /\ Len(Known) <= MaxIds
  /\ ErrorPages \subseteq {"404", "405", "500"}
ASSUME BoundsAssumption ==
  {MaxReceiving, Timeout, PurgeInterval, MaxIds, MaxOps} \subseteq Nat /\ Timeout > 0
ASSUME NoneAssumption == None \notin Requests \cup Nat

VARIABLES
  pc,          \* pc[r]: where a request is, see Stages
  ctx,         \* ctx[r]: OcaraHttpContext
  serving,     \* serving[w]: the request that a worker handles, or None
  receiving,   \* ServerShared.receiving of each server
  lock,        \* HANDLER_LOCK: the request whose handler runs, or None
  sessions,    \* Store.sessions: identifier -> [data, ticks since last_access]
  hits,        \* Store.globals: one counter that handlers increment
  purged,      \* ticks since Store.last_purge
  created,     \* identifiers 1..created have been drawn by new_session_id
  jar,         \* jar[c]: the cookie a client holds, or None
  ghost        \* owner of each identifier, destroyed ones, increments made

vars == <<pc, ctx, serving, receiving, lock, sessions, hits, purged, created, jar, ghost>>
net   == <<serving, receiving>>
store == <<sessions, hits, purged, created>>

Stages == {"unsent", "queued", "busy", "body", "route", "inRoute",
           "error", "inError", "reply", "done"}

Ids    == 1..MaxIds
MaxIdle == Timeout + PurgeInterval + 1  \* ticks are counted up to here
Forged == 0      \* an identifier that no server ever drew
Expire == -1     \* Set-Cookie: OCARASESSID=; Max-Age=0

\* server: where client sent it; long: its body is read from the socket, by a
\* thread of its own; cookie: as sent; session: session_id; headers: the
\* Set-Cookie headers, in order; seen: what getGlobal returned; reset:
\* reset_response has run; ops: calls made.
Contexts == [client : Clients, server : Servers, long : BOOLEAN, cookie : Ids \cup {None, Forged},
             session : Ids \cup {None, Forged}, headers : Seq(Ids \cup {Expire}),
             seen : Nat \cup {None}, reset : BOOLEAN, ops : 0..MaxOps]
ASSUME NoContextAssumption == None \notin Contexts
NewContext(way, cookie) ==
  [client |-> way.client, server |-> way.server, long |-> way.long, cookie |-> cookie,
   session |-> None, headers |-> <<>>, seen |-> None, reset |-> FALSE, ops |-> 0]

TypeOK ==
  /\ pc \in [Requests -> Stages] /\ ctx \in [Requests -> Contexts \cup {None}]
  /\ serving \in [Workers -> Requests \cup {None}] /\ receiving \in [Servers -> Nat]
  /\ lock \in Requests \cup {None}
  /\ DOMAIN sessions \subseteq Ids \cup {Forged}
  /\ \A id \in DOMAIN sessions : sessions[id].data \subseteq Clients /\ sessions[id].idle \in 0..MaxIdle
  /\ hits \in Nat /\ purged \in 0..PurgeInterval /\ created \in 0..MaxIds
  /\ jar \in [Clients -> Ids \cup {None}]
  /\ ghost.owner \in [1..created -> Clients] /\ ghost.destroyed \subseteq Ids /\ ghost.increments \in Nat

Init ==
  /\ pc = [r \in Requests |-> "unsent"]
  /\ ctx = [r \in Requests |-> None]
  /\ serving = [w \in Workers |-> None] /\ receiving = [s \in Servers |-> 0]
  /\ lock = None /\ hits = 0 /\ purged = 0 /\ created = Len(Known)
  /\ sessions = [id \in 1..created |-> [data |-> {Known[id]}, idle |-> 0]]
  /\ jar = [c \in Clients |-> IF \E id \in 1..created : Known[id] = c
                             THEN CHOOSE id \in 1..created : Known[id] = c ELSE None]
  /\ ghost = [owner |-> Known, destroyed |-> {}, increments |-> 0]

Go(r, stage) == pc' = [pc EXCEPT ![r] = stage]

-----------------------------------------------------------------------------
(* Receiving                                                               *)

\* The client sends the cookie it holds, or one of its making.
Send(r) ==
  /\ pc[r] = "unsent" /\ Go(r, "queued")
  /\ \E s \in Sends[r] :
       ctx' = [ctx EXCEPT ![r] = NewContext(s, IF s.forged THEN Forged ELSE jar[s.client])]
  /\ UNCHANGED <<net, lock, store, jar, ghost>>

\* server.recv, parked, and dispatch_request: a short body is for the worker,
\* a long one for a thread of its own unless too many are being received.
Recv(s, w, r) ==
  /\ serving[w] = None /\ pc[r] = "queued" /\ ctx[r].server = s
  /\ receiving' = [receiving EXCEPT ![s] = IF ctx[r].long THEN @ + 1 ELSE @]
  /\ LET busy == ctx[r].long /\ receiving[s] >= MaxReceiving IN
     /\ Go(r, IF busy THEN "busy" ELSE "body")
     /\ serving' = IF busy \/ ~ctx[r].long THEN [serving EXCEPT ![w] = r] ELSE serving
  /\ UNCHANGED <<ctx, lock, store, jar, ghost>>

\* Fault: 503 without giving the place back.
Fault_Refuse_Keeps(w, r) ==
  /\ serving[w] = r /\ pc[r] = "busy"
  /\ serving' = [serving EXCEPT ![w] = None] /\ Go(r, "done") /\ ctx' = [ctx EXCEPT ![r] = None]
  /\ UNCHANGED <<receiving, lock, store, jar, ghost>>

\* 503.
Refuse(w, r) ==
  /\ serving[w] = r /\ pc[r] = "busy"
  /\ receiving' = [receiving EXCEPT ![ctx[r].server] = @ - 1]
  /\ serving' = [serving EXCEPT ![w] = None] /\ Go(r, "done") /\ ctx' = [ctx EXCEPT ![r] = None]
  /\ UNCHANGED <<lock, store, jar, ghost>>

\* read_body, then find_route: a handler; a file; an error page, or the
\* default one (404, 405).  A body that is too large (413), or too slow if it
\* comes from the socket (408), is answered at once, without a handler.
Receive(r) ==
  /\ pc[r] = "body"
  /\ \E found \in {"route", "file", "refused", "404", "405"} :
       Go(r, CASE found = "route"      -> "route"
               [] found \in ErrorPages -> "error"
               [] OTHER                -> "reply")
  /\ UNCHANGED <<ctx, net, lock, store, jar, ghost>>

-----------------------------------------------------------------------------
(* Handlers, one at a time                                                 *)

\* Fault: a lock for each server.
Fault_Enter_PerServer(r) ==
  /\ pc[r] \in {"route", "error"} /\ \A q \in Requests : lock = q => ctx[q].server # ctx[r].server
  /\ lock' = r /\ Go(r, IF pc[r] = "route" THEN "inRoute" ELSE "inError")
  /\ UNCHANGED <<ctx, net, store, jar, ghost>>

\* call_handler_locked, parked while it waits.
Enter(r) ==
  /\ pc[r] \in {"route", "error"} /\ lock = None
  /\ lock' = r /\ Go(r, IF pc[r] = "route" THEN "inRoute" ELSE "inError")
  /\ UNCHANGED <<ctx, net, store, jar, ghost>>

Handles(r) == pc[r] \in {"inRoute", "inError"}
Calls(r)   == Handles(r) /\ ctx[r].ops < MaxOps

Return(r) ==
  /\ Handles(r) /\ lock' = None /\ Go(r, "reply")
  /\ UNCHANGED <<ctx, net, store, jar, ghost>>

\* Fault: an exception leaves the handler without unlocking.
Fault_Raise_StaysLocked(r) ==
  /\ Handles(r) /\ lock' = lock
  /\ Go(r, IF pc[r] = "inRoute" /\ "500" \in ErrorPages THEN "error" ELSE "reply")
  /\ ctx' = [ctx EXCEPT ![r].headers = <<>>, ![r].seen = None, ![r].reset = TRUE]
  /\ UNCHANGED <<net, store, jar, ghost>>

\* Any uncaught exception of the handler, a refused header (103) or value
\* (102) among them: reset_response, then the error page of 500, once.
Raise(r) ==
  /\ Handles(r) /\ lock' = None
  /\ Go(r, IF pc[r] = "inRoute" /\ "500" \in ErrorPages THEN "error" ELSE "reply")
  /\ ctx' = [ctx EXCEPT ![r].headers = <<>>, ![r].seen = None, ![r].reset = TRUE]
  /\ UNCHANGED <<net, store, jar, ghost>>

Expired(id)  == sessions[id].idle > Timeout
Without(ids) == [id \in DOMAIN sessions \ ids |-> sessions[id]]
Fresh        == [data |-> {}, idle |-> 0]
With(ss, id, s) == [i \in DOMAIN ss \cup {id} |-> IF i = id THEN s ELSE ss[i]]

\* Fault: only sessions that hold nothing are purged.
Fault_PurgeExpired_Empty ==
  IF purged < PurgeInterval
  THEN [kept |-> sessions, at |-> purged]
  ELSE [kept |-> Without({id \in DOMAIN sessions : Expired(id) /\ sessions[id].data = {}}), at |-> 0]

\* purge_expired: what is kept, and the time since the last purge.
PurgeExpired ==
  IF purged < PurgeInterval
  THEN [kept |-> sessions, at |-> purged]
  ELSE [kept |-> Without({id \in DOMAIN sessions : Expired(id)}), at |-> 0]

\* Fault: an identifier that the server does not know is adopted.
Fault_EnsureSession_Adopts(r) ==
  LET c == ctx[r]  id == IF c.session # None THEN c.session ELSE c.cookie IN
  IF id # None
  THEN [id |-> id, at |-> purged, headers |-> c.headers,
        sessions |-> IF id \in DOMAIN sessions THEN sessions ELSE With(sessions, id, Fresh)]
  ELSE [id |-> created + 1, at |-> purged, headers |-> Append(c.headers, created + 1),
        sessions |-> With(sessions, created + 1, Fresh)]

\* Fault: no new cookie when the client sent one.
Fault_EnsureSession_Silent(r) ==
  LET c == ctx[r]  p == PurgeExpired  ss == p.kept IN
  IF c.session # None
  THEN [id |-> c.session, sessions |-> sessions, at |-> purged, headers |-> c.headers]
  ELSE IF c.cookie \in DOMAIN ss /\ ~Expired(c.cookie)
  THEN [id |-> c.cookie, sessions |-> [ss EXCEPT ![c.cookie].idle = 0], at |-> p.at, headers |-> c.headers]
  ELSE [id |-> created + 1, at |-> p.at, sessions |-> With(ss, created + 1, Fresh),
        headers |-> IF c.cookie = None THEN Append(c.headers, created + 1) ELSE c.headers]

\* ensure_session: the identifier in the context; otherwise the one of the
\* cookie, if the server knows it and it has not expired; otherwise a new one
\* and its cookie.  id, the sessions, last_purge and the headers it leaves.
EnsureSession(r) ==
  LET c == ctx[r]  p == PurgeExpired  ss == p.kept IN
  IF c.session # None
  THEN [id |-> c.session, sessions |-> sessions, at |-> purged, headers |-> c.headers]
  ELSE IF c.cookie \in DOMAIN ss /\ ~Expired(c.cookie)
  THEN [id |-> c.cookie, sessions |-> [ss EXCEPT ![c.cookie].idle = 0], at |-> p.at, headers |-> c.headers]
  ELSE [id |-> created + 1, at |-> p.at, headers |-> Append(c.headers, created + 1),
        sessions |-> With([i \in DOMAIN ss \ {c.cookie} |-> ss[i]], created + 1, Fresh)]

\* A method of HTTPServerSession, or req.session(), under HANDLER_LOCK: e is
\* what ensure_session leaves, ss the sessions after the method.
OnSession(r, e, ss) ==
  /\ Calls(r) /\ e.id \in Ids \cup {Forged}
  /\ sessions' = ss
  /\ purged' = e.at
  /\ ctx' = [ctx EXCEPT ![r].session = e.id, ![r].headers = e.headers, ![r].ops = @ + 1]
  /\ created' = IF e.id = created + 1 THEN e.id ELSE created
  /\ ghost' = IF e.id = created + 1 THEN [ghost EXCEPT !.owner = Append(@, ctx[r].client)] ELSE ghost
  /\ UNCHANGED <<pc, net, lock, hits, jar>>

\* session, id, get, has.
Look(r) == LET e == EnsureSession(r) IN OnSession(r, e, e.sessions)

\* set: entry(id).or_default(), so a session that is gone comes back.
SetValue(r) ==
  LET e == EnsureSession(r)  ss == e.sessions IN
  OnSession(r, e, With(ss, e.id, IF e.id \in DOMAIN ss THEN [ss[e.id] EXCEPT !.data = @ \cup {ctx[r].client}]
                                 ELSE [Fresh EXCEPT !.data = {ctx[r].client}]))

RemoveValue(r) ==
  LET e == EnsureSession(r)  ss == e.sessions IN
  OnSession(r, e, [i \in DOMAIN ss |-> IF i = e.id THEN [ss[i] EXCEPT !.data = {}] ELSE ss[i]])

\* destroy: does not call ensure_session.
Destroy(r) ==
  LET id == IF ctx[r].session # None THEN ctx[r].session ELSE ctx[r].cookie IN
  /\ Calls(r) /\ id # None
  /\ sessions' = Without({id})
  /\ ctx' = [ctx EXCEPT ![r].session = None, ![r].headers = Append(@, Expire), ![r].ops = @ + 1]
  /\ ghost' = [ghost EXCEPT !.destroyed = @ \cup ({id} \cap 1..created)]
  /\ UNCHANGED <<pc, net, lock, hits, purged, created, jar>>

\* getGlobal and, later in the same handler, setGlobal.
GetGlobal(r) ==
  /\ Calls(r) /\ ctx' = [ctx EXCEPT ![r].seen = hits, ![r].ops = @ + 1]
  /\ UNCHANGED <<pc, net, lock, store, jar, ghost>>

SetGlobal(r) ==
  /\ Handles(r) /\ ctx[r].seen # None
  /\ hits' = ctx[r].seen + 1 /\ ctx' = [ctx EXCEPT ![r].seen = None]
  /\ ghost' = [ghost EXCEPT !.increments = @ + 1]
  /\ UNCHANGED <<pc, net, lock, sessions, purged, created, jar>>

-----------------------------------------------------------------------------
(* The answer                                                              *)

\* respond, parked: the client may be gone, and then keeps its cookie.  Then
\* the context is freed, and the worker or the place of the body with it.
Reply(r) ==
  /\ pc[r] = "reply" /\ Go(r, "done") /\ ctx' = [ctx EXCEPT ![r] = None]
  /\ \E arrives \in BOOLEAN :
       jar' = IF arrives /\ ctx[r].headers # <<>>
              THEN [jar EXCEPT ![ctx[r].client] = IF Last(ctx[r].headers) = Expire THEN None ELSE Last(ctx[r].headers)]
              ELSE jar
  /\ receiving' = [receiving EXCEPT ![ctx[r].server] = IF ctx[r].long THEN @ - 1 ELSE @]
  /\ serving' = [w \in Workers |-> IF serving[w] = r THEN None ELSE serving[w]]
  /\ UNCHANGED <<lock, store, ghost>>

Tick ==
  /\ sessions' = [id \in DOMAIN sessions |-> [sessions[id] EXCEPT !.idle = IF @ < MaxIdle THEN @ + 1 ELSE @]]
  /\ purged' = IF purged < PurgeInterval THEN purged + 1 ELSE purged
  /\ UNCHANGED <<pc, ctx, net, lock, hits, created, jar, ghost>>

Work(s) == \E w \in WorkersOf[s], r \in Requests : Recv(s, w, r) \/ Refuse(w, r)
Advance(r) == Receive(r) \/ Enter(r) \/ Return(r) \/ Reply(r)
Method(r) == Look(r) \/ SetValue(r) \/ RemoveValue(r) \/ Destroy(r) \/ GetGlobal(r) \/ SetGlobal(r)

Next == \/ Tick
        \/ \E s \in Servers : Work(s)
        \/ \E r \in Requests : Send(r) \/ Advance(r) \/ Raise(r) \/ Method(r)

\* Threads run, and a handler ends, by a return or an exception.  Weak
\* fairness is enough for HANDLER_LOCK: a request takes it twice at most.
Fairness == /\ \A s \in Servers : WF_vars(Work(s))
            /\ \A r \in Requests : WF_vars(Receive(r)) /\ WF_vars(Enter(r)) /\ WF_vars(Return(r) \/ Raise(r))
                                   /\ WF_vars(Reply(r))

Spec     == Init /\ [][Next]_vars
FairSpec == Spec /\ Fairness

-----------------------------------------------------------------------------
(* Properties                                                              *)

\* No increment of a global is lost, between handlers of one server or of
\* two: one handler runs at a time, and an exception does not change that.
NoLostIncrement == hits = ghost.increments

\* `receiving` counts the bodies being received and the refusals under way,
\* whatever ends a request, and no more than the limit are received.
ReceivingExact == \A s \in Servers :
  LET long == {r \in Requests : pc[r] \notin {"unsent", "queued", "done"} /\ ctx[r].server = s /\ ctx[r].long}
  IN receiving[s] = Cardinality(long) /\ Cardinality({r \in long : pc[r] # "busy"}) <= MaxReceiving

\* The server forgets no request and no place, whatever ends them.
ServerExact == TypeOK /\ ReceivingExact

\* A client's session holds what that client stored and nothing else, and a
\* request only ever uses a session that was created for its client: made up
\* identifiers are not adopted.
Isolated ==
  /\ \A id \in DOMAIN sessions : id \in 1..created /\ sessions[id].data \subseteq {ghost.owner[id]}
  /\ \A r \in Requests : ctx[r] # None /\ ctx[r].session # None =>
       ctx[r].session \in 1..created /\ ghost.owner[ctx[r].session] = ctx[r].client

\* A handler that did not raise leaves the client with the cookie of the
\* session the request ended with, also when it destroyed one and opened
\* another in the same answer.
AnswerNamesSession == \A r \in Requests :
  pc[r] = "reply" /\ ~ctx[r].reset /\ ctx[r].ops > 0 =>
    LET c == ctx[r]  held == IF c.headers = <<>> THEN c.cookie ELSE Last(c.headers) IN
    IF c.session # None THEN held = c.session ELSE c.headers # <<>> => held = Expire

\* A destroyed session comes back only through a request that had it open
\* when its handler raised, and that goes on with its error page.
OnlyFailedRevive ==
  [][\A id \in ghost.destroyed : id \in DOMAIN sessions' \ DOMAIN sessions =>
       \E r \in Requests : ctx[r] # None /\ ctx[r].reset /\ ctx[r].session = id]_vars

Opens(r) == ctx[r] # None /\ ctx'[r] # None /\ ctx[r].session = None /\ ctx'[r].session # None

\* Clients that never come back do not fill the memory: when a request opens
\* its session, no session that is kept has been idle for longer than the
\* time-out and one purge interval.
StoreBounded ==
  [][\A r \in Requests : Opens(r) =>
       \A id \in DOMAIN sessions' : sessions'[id].idle <= Timeout + PurgeInterval]_vars

\* What the store knows of a session changes at the right moment: it is kept
\* neither beyond its time nor beyond its destruction.
StoreKept == OnlyFailedRevive /\ StoreBounded

\* Every request is answered, by a handler, an error page or a refusal.
Answered == \A r \in Requests : pc[r] = "queued" ~> pc[r] = "done"

\* "Un identifiant envoye par le client mais inconnu du serveur (session
\* detruite...) n'est jamais adopte" (docs/builtins/HTTPServer.md): once
\* destroyed, a session is never known again.
DestroyedStaysGone == ghost.destroyed \cap DOMAIN sessions = {}
=============================================================================
