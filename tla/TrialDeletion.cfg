CONSTANTS
  Objects = {a, b, c}
  Leaves = {s}
  Pair = {a, b}
  Wide = {a, b, c}
  Null = null
  Heaps <- MCHeaps
  MaxElems = 2
  Threshold = 2
SPECIFICATION FairSpec
INVARIANTS HeapExact NoCycleLost
PROPERTIES OperationEnds KeepsPromise
CHECK_DEADLOCK FALSE
