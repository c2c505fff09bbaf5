SPECIFICATION Spec
CONSTANTS
  Null = Null
  Threads = {t1, t2}
  Slots = {s1, s2}
  Modes = {"fixed", "dynamic"}
  Requests = {2, 3, 5}
  Quantum = 2
  Cutoff = 4
  RefillBatch = 2
  High = 2
  Low = 1
  MaxBytes = 6
SYMMETRY MCSymmetry
CHECK_DEADLOCK FALSE
INVARIANTS NoRunLost RoomForRequest CacheBounded 
PROPERTIES OwnerOnly ContractSpec
