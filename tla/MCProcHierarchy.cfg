SPECIFICATION Spec
CONSTANTS
  ktask = ktask
  Slots = {s1, s2, s3, s4}
  MaxPid = 5
INVARIANT NoCorruptHierarchy
SYMMETRY Symmetry
CHECK_DEADLOCK FALSE
