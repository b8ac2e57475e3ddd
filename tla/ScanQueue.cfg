CONSTANTS
  t1 = t1  t2 = t2  t3 = t3  t4 = t4  t5 = t5
  k1 = k1  k2 = k2  k3 = k3
  NoTask = NoTask
  Task <- MCTask
  Key <- MCKey
  KeyOf <- MCKeyOf
  MaxConcurrent = 2
SPECIFICATION FairSpec
INVARIANTS
  TypeOK
  OneAtATimePerKey
  SlotsCounted
  NoIdleSlotWhileWaiting
  TailsFollowTheChain
PROPERTIES
  EveryTaskFinishes
  ImplementsKeyedSlots
CHECK_DEADLOCK FALSE
