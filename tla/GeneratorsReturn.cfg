SPECIFICATION Spec
CONSTANTS
  g1 = g1
  g2 = g2
  v1 = v1
  Gens = {g1, g2}
  Values = {v1}
  Null = Null
  JumpsOutOfTry = TRUE
  MaxDepth = 3
  MaxCount = 3
  MaxCalls = 4
  MaxKept = 1
  MaxLost = 1
SYMMETRY Symmetric
PROPERTIES DepthRestored
CHECK_DEADLOCK FALSE
