CONSTANTS
  d1 = d1  d2 = d2  pr1 = pr1
  Delivery <- MCDelivery
  PullRequest <- MCPullRequest
  PrOf <- MCPrOf
  MaxProcess = 3
  SweepLimit = 1
  Overlap = TRUE
  Fallible <- MCFallible
  NoDelivery = NoDelivery
SPECIFICATION Spec
INVARIANTS
  TypeOK
  AtMostTwoScans
  OneAttemptAtATime
  NoRerunPastALaterRow
  NoticeMatchesTheRow
PROPERTIES
  FinalStateIsFinal
  ImplementsDeliveryLife
CONSTRAINT UnrecordedBound
CHECK_DEADLOCK FALSE
