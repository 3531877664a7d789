CONSTANTS
  Task = {"s1"}
  NoTask = NoTask
  Client = {"slot"}
  Owner <- ByName
  Kind <- KindOf
  IdSlot <- Anywhere
  Slot = {1}
  AnySlot = AnySlot
  BadSlot = BadSlot
  NoClient = NoClient
  kv_unified = FALSE
  DecodeMayFail = FALSE
  Leaves = {}
  Shutdown = FALSE
  MaxPrompt = 0
  MaxDecoded = 0
SPECIFICATION FairSpec
PROPERTIES LegacyRecvReturns
CHECK_DEADLOCK FALSE
