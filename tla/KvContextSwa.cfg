SPECIFICATION Spec
CONSTANTS
  NSeq = 2
  KvSize = 4
  SwaSize = 3
  n_swa = 2
  swa_kv_guard = 1
  max_moves = 1
  Pad = 2
  MaxBatch = 2
  MaxPos = 3
  MaxCalls = 1
  FileTokens = {2}
  Shifts <- McShifts
  swa_kv_active = TRUE
  hybrid = FALSE
  DeepRewinds = FALSE
  SelfExtend = FALSE
INVARIANTS UsedExact CachesAgree WindowResident SlidingInView
CHECK_DEADLOCK FALSE
