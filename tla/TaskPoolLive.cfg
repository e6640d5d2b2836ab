CONSTANTS
  t1 = t1
  t2 = t2
  t3 = t3
  Tasks = {t1, t2, t3}
  Clients = {c1}
  Workers = {w1, w2, w3}
  Awaits <- MCAwaits
  Internal = {t2}
  SharedResolve = FALSE
  NoTask = NoTask
SPECIFICATION FairSpec
PROPERTIES EveryTaskRuns ResolveReturns
