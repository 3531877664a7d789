CONSTANTS
  Task = {"a1", "b1"}
  NoTask = NoTask
  Client = {"all", "stream"}
  Owner <- ByName
  Kind <- KindOf
  IdSlot <- Anywhere
  Slot = {1}
  AnySlot = AnySlot
  BadSlot = BadSlot
  NoClient = NoClient
  kv_unified = FALSE
  DecodeMayFail = TRUE
  Leaves = {"stream"}
  Shutdown = TRUE
  MaxPrompt = 1
  MaxDecoded = 1
SPECIFICATION FairSpec
PROPERTIES ConnectedEventuallyAnswered ShutdownEnds
CHECK_DEADLOCK FALSE
