SPECIFICATION FairSpec
CONSTANTS
  Head = Head
  None = None
  refresh_tm = refresh_tm
  FirstRefresh = 1
  RefreshDelay = 2
  Procs = {p1}
  MaxTick = 4
  WORD = 100
  Delays = {1, 2}
PROPERTY SleepEnds
CHECK_DEADLOCK FALSE
