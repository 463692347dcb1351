CONSTANTS
  Slots <- PageSlots5
  DataMax = 1
  LoMax = 3
  HiMax = 1
  And <- BitAnd
  BatchSize = 2
  Requests <- Puts2
  Cuts = {0, 1, 2, 3, 4}
  PartialErase = FALSE
  VerifyWrites = TRUE
  FaultSites = {"append", "copy", "direct", "header", "activate", "deactivate"}
  FaultCells <- InvalidCell
  MaxPuts = 3
  MaxClears = 0
  MaxCrashes = 2
  MaxFaults = 1
SPECIFICATION MCFairSpec
CHECK_DEADLOCK FALSE
PROPERTIES StaysFormatted CallsReturn
