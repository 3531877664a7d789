CONSTANTS
  Task = {"a1", "a2", "s1"}
  NoTask = NoTask
  Client = {"all", "slot"}
  Owner <- ByName
  Kind <- KindOf
  IdSlot <- PumpSlot
  Slot = {1}
  AnySlot = AnySlot
  BadSlot = BadSlot
  NoClient = NoClient
  kv_unified = TRUE
  DecodeMayFail = TRUE
  Leaves = {"all"}
  Shutdown = FALSE
  MaxPrompt = 1
  MaxDecoded = 1
SPECIFICATION FairSpec
PROPERTIES EveryTaskLeaves
CHECK_DEADLOCK FALSE
