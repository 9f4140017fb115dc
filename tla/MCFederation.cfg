SPECIFICATION Spec
CONSTANTS
  r1 = r1
  r2 = r2
  n0 = n0
  n1 = n1
  n2 = n2
  g0 = g0
  g1 = g1
  g2 = g2
  a = a
  b = b
  c = c
  None = None
  Requests <- MCRequests
  Names <- MCNames
  Graphs <- MCGraphs
  Primary <- g0
  RefLists <- MCRefLists
  Setups <- MCSetups
  Registrable = {n2}
  Entities <- MCEntities
  Found <- MCFound
  MaxBackends = 1
  MaxWorkers = 2
  MaxRefs = 2
  RrfK = 2
  TopK = 2
  Scale = 60
  Grain = 9
INVARIANTS
  TypeOK
  OvershootNeedsRace
  RaceNeedsEviction
  WrongGraphNeedsReuse
  Unanimous
SYMMETRY MCSymmetry
CHECK_DEADLOCK FALSE
