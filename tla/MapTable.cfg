SPECIFICATION Spec
CONSTANTS
  i1 = i1
  i10 = i10
  ka = ka
  kb = kb
  IntKeys = {i1, i10}
  TextKeys = {ka, kb}
  SharedKeys = {ka}
  ValuesOf <- MCValues
  Hashes <- MCHashes
  TextOrder <- MCTextOrder
  Small = 1
  MinSlots = 4
  Step = 3
  None = None
INVARIANTS LookupExact TableExact
PROPERTIES KeepsPromise
