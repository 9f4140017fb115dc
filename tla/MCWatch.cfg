SPECIFICATION Spec
CONSTANTS
  p1 = p1
  p2 = p2
  s1 = s1
  s2 = s2
  c1 = c1
  c2 = c2
  t1 = t1
  t2 = t2
  e1 = e1
  None = None
  Publishers <- MCPublishers
  Servers <- MCServers
  ServerOf <- MCServerOf
  Clients <- MCClients
  Topics <- MCTopics
  Entities <- MCEntities
  Kinds <- MCKinds
  Topic <- MCTopic
  EntityId <- MCEntityId
  Asked <- MCAsked
  WatchCap = 2
  StoreCap = 3
  MaxClock = 2
  MaxEvents = 3
SYMMETRY Symmetry
INVARIANTS
  TypeOK
  LossHasCause
PROPERTIES
  CutShows
  RepeatsAtToken
CHECK_DEADLOCK FALSE
