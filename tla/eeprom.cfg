CONSTANTS
  Slots <- PageSlots65
  DataMax = 3
  LoMax = 3
  HiMax = 1
  And <- BitAnd
  BatchSize = 2
  Requests <- Puts3
  Cuts = {0, 4}
  PartialErase = TRUE
  VerifyWrites = TRUE
  FaultSites = {"append", "copy", "direct", "header", "activate", "deactivate"}
  FaultCells <- InvalidCell
  MaxPuts = 3
  MaxClears = 1
  MaxCrashes = 1
  MaxFaults = 1
SPECIFICATION MCSpec
CHECK_DEADLOCK FALSE
INVARIANTS TypeOK RamMatchesFlash SwapFits
PROPERTIES PutIsAtomic PutIsDurable
