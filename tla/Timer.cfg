SPECIFICATION FairSpec
CONSTANTS
  Head = Head
  None = None
  refresh_tm = refresh_tm
  FirstRefresh = 1
  RefreshDelay = 2
  Procs = {p1, p2}
  MaxTick = 4
  WORD = 100
  Delays = {0, 1, 2}
INVARIANTS TypeOK QueueOwned QueueIntact RefreshKept OnTime
PROPERTIES UpdateEnds SleepEndsOnce
CONSTRAINT Once
