SPECIFICATION Spec
CONSTANTS
  t1 = t1
  t2 = t2
  Threads = {t1, t2}
  LocalMax = 2
  Batch = 2
  Slab = 4
  MaxBlocks = 5
  Null = Null
  Data = Data
SYMMETRY Symmetric
INVARIANTS ListsExact OneOwner HandedOver
CHECK_DEADLOCK FALSE
