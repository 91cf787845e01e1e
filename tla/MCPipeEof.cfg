SPECIFICATION FairSpec
CONSTANTS
  Procs = {p1, p2}
  None = None
  Byte <- ByteDef
  PIPE_SIZE = 2
  MaxCount = 3
  Inputs <- ZeroInputs
PROPERTY EndOfFile
CHECK_DEADLOCK FALSE
