SPECIFICATION Spec
CONSTANTS
  frames_num = 11
  order_max = 3
  shift <- ShiftDef
  WORD_BITS = 8
INVARIANTS TypeOK NoOverlap NoneLost MapExact Coalesced RefsExact FailsOnlyFull
