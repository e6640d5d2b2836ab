CONSTANTS
  t1 = t1
  t2 = t2
  t3 = t3
  Tasks = {t1, t2}
  Clients = {c1, c2}
  Workers = {w1, w2}
  Awaits <- MCAwaits
  Internal = {}
  SharedResolve = TRUE
  NoTask = NoTask
SPECIFICATION Spec
INVARIANTS PoolExact RunOnce TasksAccounted
PROPERTIES KeepsPromise
CHECK_DEADLOCK FALSE
