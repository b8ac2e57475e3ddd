CONSTANTS
  d1 = d1  d2 = d2
  Poster <- MCPoster
  Life = 2
  Margin = 1
  MaxComments = 2
  Max = 1
  Window = 2
  MaxLives = 2
  Load = 4
SPECIFICATION Spec
SYMMETRY Symmetry
CONSTRAINTS
  LateBound
  CrowdBound
INVARIANTS
  TypeOK
  OneReport
  ShortScansCanPost
  RateIsBounded
PROPERTIES
  ExitLosesNothing
CHECK_DEADLOCK FALSE
