CONSTANTS
  v1 = v1
  v2 = v2
  r1 = r1
  r2 = r2
  Values = {v1, v2}
  Resources = {r1, r2}
  Mutexes = {m}
  Null = null
  MaxCalls = 6
  MaxWords = 3
  MaxTry = 2
SYMMETRY Symmetry
SPECIFICATION Spec
INVARIANTS StacksExact CountsExact GivenBackOnce
PROPERTIES CallersKept
CHECK_DEADLOCK FALSE
