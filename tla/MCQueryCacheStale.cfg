SPECIFICATION Spec
CONSTANTS
  t1 = t1
  t2 = t2
  k1 = k1
  k2 = k2
  gDefault = gDefault
  gOther = gOther
  None = None
  Threads <- MCThreads
  Keys <- MCKeys
  Graphs <- MCGraphs
  Default <- gDefault
  GraphOf <- MCGraphOf
  TTL = 1
  MaxSize = 1
  MaxClock = 3
  MaxVersion = 1
  MaxBoots = 1
  Readings = {1}
SYMMETRY Symmetry
INVARIANTS
  MutationInvalidates
