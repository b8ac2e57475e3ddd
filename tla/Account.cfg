CONSTANTS
  s1 = s1  s2 = s2  p1 = p1  p2 = p2  f1 = f1  f2 = f2
  Scan <- MCScan
  Sub <- MCSub
  Session <- MCSession
  User <- MCUser
  Costs <- MCCosts
  Configured <- MCConfigured
  DailyCap = 2
  Exempt = FALSE
  Ownership = "Organization"
  MaxMonth = 2
  MaxEvents = 3
  Load = 3
SPECIFICATION Spec
SYMMETRY Symmetry
CONSTRAINT ForeignBound
INVARIANTS
  TypeOK
  RowTracksPaddle
  FirstMailIsAccountedFor
  OneNudgeAMonth
  AuditNamesEverySetting
CHECK_DEADLOCK FALSE
