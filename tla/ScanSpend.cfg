CONSTANTS
  s1 = s1  s2 = s2  p1 = p1  p2 = p2
  Scan <- MCScan
  Process <- MCProcess
  Cap = 2
  MaxCalls = 3
  MaxInFlight = 2
SPECIFICATION Spec
SYMMETRY Symmetry
INVARIANTS
  TypeOK
  LossIsBounded
  SpendAfterClosingIsBounded
  CapOvershotByAScanPerProcess
PROPERTIES
  LostSpendIsOnTheRow
CHECK_DEADLOCK FALSE
