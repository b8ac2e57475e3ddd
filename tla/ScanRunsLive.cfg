CONSTANTS
  d1 = d1  d2 = d2  pr1 = pr1
  Delivery <- MCDelivery
  PullRequest <- MCPullRequest
  PrOf <- MCPrOf
  MaxProcess = 3
  SweepLimit = 2
  Overlap = FALSE
  Fallible = {}
  NoDelivery = NoDelivery
SPECIFICATION FairSpec
PROPERTIES
  EveryRowIsFinished
CHECK_DEADLOCK FALSE
