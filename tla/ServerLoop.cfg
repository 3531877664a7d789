CONSTANTS
  Task = {"a1", "b1", "m1"}
  NoTask = NoTask
  Client = {"all", "stream", "metrics"}
  Owner <- ByName
  Kind <- KindOf
  IdSlot <- Anywhere
  Slot = {1, 2}
  AnySlot = AnySlot
  BadSlot = BadSlot
  NoClient = NoClient
  kv_unified = TRUE
  DecodeMayFail = TRUE
  Leaves = {"stream"}
  Shutdown = FALSE
  MaxPrompt = 0
  MaxDecoded = 1
SPECIFICATION Spec
INVARIANTS TypeOK SlotsOK TaskInOnePlace NobodyWaitsForNothing OneTerminal NothingLeftBehind
PROPERTIES NoSilentRelease
CHECK_DEADLOCK FALSE
