CONSTANTS
  r1 = r1
  r2 = r2
  alice = alice
  bob = bob
  s1 = s1
  s2 = s2
  w1 = w1
  w2 = w2
  Requests = {r1, r2}
  Clients = {alice, bob}
  Servers = {s1, s2}
  Workers = {w1, w2}
  None = none
  WorkersOf <- MCWorkersOf
  Sends <- MCSends
  Known <- MCKnown
  ErrorPages = {"500"}
  MaxReceiving = 1
  Timeout = 1
  PurgeInterval = 1
  MaxIds = 3
  MaxOps = 2
SPECIFICATION FairSpec
INVARIANTS NoLostIncrement ServerExact Isolated AnswerNamesSession
PROPERTIES StoreKept Answered
CHECK_DEADLOCK FALSE
