SPECIFICATION Spec
CONSTANTS
  p1 = p1
  p2 = p2
  p3 = p3
  old = old
  new = new
  bare = bare
  stub = stub
  ada = ada
  bob = bob
  graphs = graphs
  agents = agents
  Submissions <- MCSubmissions
  Texts <- MCTexts
  First <- MCFirst
  Empty <- MCEmpty
  Short <- MCShort
  Authors <- MCAuthors
  Concepts <- MCConcepts
  Stub = stub
  Count = 3
  PageSize = 2
  Limit = 3
  Batch = 2
  FetchTries = 2
  EmbedRetries = 1
  MaxRuns = 4
  MaxFaults = 1
  MaxEdits = 2
INVARIANTS
  TypeOK
  RunsComplete
  DefectHasCause
CHECK_DEADLOCK FALSE
