SPECIFICATION FairSpec
CONSTANTS
  Procs = {p1, p2}
  None = None
  Byte <- ByteDef
  PIPE_SIZE = 2
  MaxCount = 3
  Inputs <- FifoInputs
INVARIANTS TypeOK NoLostWakeup QueuedCounts FilesCounted
PROPERTIES FifoSpec Progress
CHECK_DEADLOCK FALSE
