SPECIFICATION Spec
CONSTANTS
  NSeq = 2
  KvSize = 4
  SwaSize = 3
  n_swa = 2
  swa_kv_guard = 1
  max_moves = 1
  Pad = 4
  MaxBatch = 2
  MaxPos = 2
  MaxCalls = 2
  FileTokens = {2}
  Shifts <- McShifts
  swa_kv_active = FALSE
  hybrid = FALSE
  DeepRewinds = FALSE
  SelfExtend = FALSE
INVARIANTS UsedExact RowsAtTheirPositions
PROPERTIES ImplementsKvMap DefragCompacts
CHECK_DEADLOCK FALSE
