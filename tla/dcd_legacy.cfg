CONSTANTS
  Length = 2
  CellMax = 2
  OldFormatOffset = 1
  Requests <- Writes2
  InitialFlash <- LegacyFlash
  Budgets <- LegacyBudgets
SPECIFICATION MCSpec
CHECK_DEADLOCK FALSE
INVARIANTS  MigrationKeepsData
