CONSTANTS
  Slots <- PageSlots5
  DataMax = 3
  LoMax = 3
  HiMax = 1
  And <- BitAnd
  BatchSize = 2
  Requests <- Puts3
  Cuts = {0, 1, 2, 3, 4}
  PartialErase = FALSE
  VerifyWrites = TRUE
  FaultSites = {"append", "copy", "direct", "header", "activate", "deactivate"}
  FaultCells <- InvalidCell
  MaxPuts = 2
  MaxClears = 0
  MaxCrashes = 1
  MaxFaults = 0
SPECIFICATION MCSpec
CHECK_DEADLOCK FALSE
PROPERTIES PutIsAtomic
