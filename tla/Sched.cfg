SPECIFICATION FairSpec
CONSTANTS
  ktask = ktask
  Slots = {s1, s2, s3}
  TIMESLICE = 2
INVARIANTS TypeOK CurrentRuns IdleEndless
PROPERTY Scheduled
