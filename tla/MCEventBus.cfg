SPECIFICATION FairSpec
CONSTANTS
  p1 = p1
  p2 = p2
  s1 = s1
  s2 = s2
  Loop = Loop
  None = None
  Publishers <- MCPublishers
  Subscribers <- MCSubscribers
  Replays <- MCReplays
  HistorySize = 1
  MaxQueue = 1
  MaxEvents <- MCMaxEvents
  MaxCalls <- MCMaxCalls
  Failing = {1}
  MaxRuns = 2
INVARIANTS
  TypeOK
  NoGap
  PublisherOrder
  FirstRunLogged
PROPERTIES
  LogIsTrail
  EventuallySeen
CHECK_DEADLOCK FALSE
