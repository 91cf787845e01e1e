SPECIFICATION FairSpec
CONSTANTS
  ktask = ktask
  Slots = {s1, s2, s3}
  MaxPid = 6
INVARIANTS TypeOK ListsIntact RingExact NoLostExit
PROPERTY WaitReturns
CHECK_DEADLOCK FALSE
