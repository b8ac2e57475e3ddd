CONSTANTS
  s1 = s1  s2 = s2  s3 = s3
  i1 = i1  i2 = i2
  Scan <- MCScan
  Key <- MCKey
  KeyOf <- MCKeyOf
  MaxConcurrent = 1
  MaxCalls = 1
  ZeroGrace <- MCZeroGrace
SPECIFICATION Spec
INVARIANTS
  BoundHoldsForEveryScanThatMayCall
CHECK_DEADLOCK FALSE
