SPECIFICATION Spec
CONSTANTS
  w1 = w1
  w2 = w2
  d1 = d1
  d2 = d2
  p2 = p2
  a = a
  c1 = c1
  c2 = c2
  Workers <- MCWorkers
  Docs <- MCDocs
  Padded <- MCPadded
  Strip <- MCStrip
  Objects <- MCObjects
  Contents <- MCContents
  Links <- MCLinks
  Batches <- MCBatches
  Graphs <- MCGraphs
  MaxCalls = 2
  MaxFaults = 1
SYMMETRY Symmetry
INVARIANTS
  EventsAreReal
CHECK_DEADLOCK FALSE
