CONSTANTS
  h1 = h1
  h2 = h2
  id1 = id1
  NumHandlers = 3
  MaxFilterLen = 2
  Char = {1, 2}
  Name <- MCName
  Who = {h1, h2}
  DeviceId = {NoId, id1}
  NoId = NoId
  None = None
  Budgets <- MCBudgets
SPECIFICATION Spec
SYMMETRY Symmetry
INVARIANTS NoHoles EveryMatchCalled OnlyRefusedUnknown
CHECK_DEADLOCK FALSE
