SPECIFICATION Spec
CONSTANTS
  t1 = t1
  t2 = t2
  p1 = p1
  p2 = p2
  p3 = p3
  c1 = c1
  a1 = a1
  attention = attention
  theme = theme
  link = link
  Threads <- MCThreads
  Graph <- MCGraph
  Ids <- MCIds
  Words <- MCWords
  Title <- MCTitle
  Abstract <- MCAbstract
  TermsOf <- MCTermsOf
  Similarity <- MCSimilarity
  MaxResets = 1
  MaxFaults = 1
  About <- MCAbout
  Tokens <- MCTokens
  Named <- MCNamed
  ToolCalls <- MCToolCalls
  QuerySets <- MCQuerySets
  AskedModes <- MCAskedModes
  MaxSteps = 5
  Target = 85
  MaxTasks = 2
INVARIANTS
  TypeOK
  EmptyHasCause
  PathsAreShortest
PROPERTIES
  TasksEnd
CHECK_DEADLOCK FALSE
