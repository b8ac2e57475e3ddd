CONSTANTS
  a = a  b = b
  Scan <- MCScan
  File <- MCFile
  Facts <- MCFacts
  Requests <- MCRequests
  Trees <- MCTrees
  Configs <- MCConfigs
  Fetched <- MCFetched
  Faults <- MCFaults
  Choices <- MCChoices
  PreWindow = 0
  PostWindow = 1
  Reach = 2
  MaxPairs = 1
  Before = 0
  After = 1
SPECIFICATION Spec
INVARIANTS
  TypeOK
PROPERTIES
  CleanMeansJudged
  VerdictsAreAccountedFor
CHECK_DEADLOCK FALSE
