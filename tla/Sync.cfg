SPECIFICATION SyncSpec
CONSTANTS
  parent = parent
  child = child
  Procs = {parent, child}
  Sigs = {10, 17}
  SIGUSR1 = 10
  SIGCHLD = 17
  Ignored = {17}
  Fixed = {}
  MaxNest = 2
  Scarce = FALSE
PROPERTY ChildContinues
CHECK_DEADLOCK FALSE
