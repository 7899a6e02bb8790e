SPECIFICATION Spec
CONSTANTS
  Proc = {p1, p2, p3}
  MaxGeneration = 3
SYMMETRY Symmetry
INVARIANTS
  HolderIntact
  LeakOnlyByFault
CHECK_DEADLOCK FALSE
PROPERTY ImplementsMutex
