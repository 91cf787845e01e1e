SPECIFICATION FairSpec
CONSTANTS
  Head = Head
  None = None
  refresh_tm = refresh_tm
  FirstRefresh = 1
  RefreshDelay = 2
  Procs = {p1}
  MaxTick = 6
  WORD = 4
  Delays = {1, 2}
PROPERTY NotEarly
CHECK_DEADLOCK FALSE
