CONSTANTS
  PoolSize = 31
  Word = 2
  Header = 2
  Request = {1, 3, 4}
  PreferSmaller = TRUE
  Null = Null
SPECIFICATION Spec
INVARIANTS LentBlocksDisjoint AllReturned
