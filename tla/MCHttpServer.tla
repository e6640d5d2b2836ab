---------------------------- MODULE MCHttpServer ----------------------------
(* Instances of HttpServer for TLC: two servers of one process, with one   *)
(* worker each; alice has a session already; she sends a long body, and    *)
(* another request, which may be bob's, who makes an identifier up.        *)
EXTENDS HttpServer, TLC

CONSTANTS r1, r2, alice, bob, s1, s2, w1, w2

MCWorkersOf == s1 :> {w1} @@ s2 :> {w2}
MCSends     ==
  LET Way(c, s, long, forged) == [client |-> c, server |-> s, long |-> long, forged |-> forged] IN
  r1 :> {Way(alice, s1, TRUE, FALSE)} @@
  r2 :> {Way(alice, s1, TRUE, FALSE), Way(alice, s2, FALSE, FALSE), Way(bob, s2, FALSE, TRUE)}
MCKnown     == <<alice>>
=============================================================================
