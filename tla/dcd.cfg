CONSTANTS
  Length = 2
  CellMax = 2
  OldFormatOffset = 1
  Requests <- EdgeWrites
  InitialFlash <- Blanks
  Budgets <- WriteBudgets
SPECIFICATION MCSpec
CHECK_DEADLOCK FALSE
INVARIANTS CountersConsecutive
PROPERTIES WriteIsAtomic
