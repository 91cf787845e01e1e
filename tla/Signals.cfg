SPECIFICATION FairSpec
CONSTANTS
  Procs = {p}
  Sigs = {9, 10, 17}
  Ignored = {17}
  Fixed = {9}
  MaxNest = 2
  Scarce = TRUE
INVARIANTS TypeOK FrameExact NoLostSignal MaskKept
PROPERTIES Uncatchable SignalTaken
