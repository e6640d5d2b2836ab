CONSTANTS
  c1 = c1
  c2 = c2
  Conns = {c1, c2}
  Queries = {q1, q2}
  None = none
  MaxStatements = 4
SPECIFICATION Spec
INVARIANTS HandleExact PoolClean
PROPERTIES KeepsPromise
