CONSTANTS
  a = a
  b = b
  t = t
  u = u
  Values = {a, b}
  Mutators = {t, u}
  Gc = gc
  Null = null
  Heaps <- MCHeaps
  Epochs = 3
SPECIFICATION FairSpec
INVARIANTS HeapExact
PROPERTIES KeepsPromise GarbageFreed
